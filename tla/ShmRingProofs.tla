---------------------------- MODULE ShmRingProofs ----------------------------
(***************************************************************************)
(* Theorems about ShmRing, for any number of cells and lives and any       *)
(* length of a life.                                                       *)
(*                                                                         *)
(* Behind StartsAgain is a set R of segments that are linked among         *)
(* themselves, no two to the same one, and that *m_pPrstBCShmId points     *)
(* into.  The running server keeps such a set (RunInv): a new cell is      *)
(* linked into it, and only between the two writes that do so it is not    *)
(* linked.  A walk that removes the segments stays in R because nothing    *)
(* that is left is linked to a segment removed, the first one excepted,    *)
(* where it stops (Removing).                                              *)
(*                                                                         *)
(* Behind CrashLosesNothing and SavedCompletesLog is the order of those    *)
(* segments: a chain P from the head back to it, with the number B[i] of   *)
(* records appended before those of P[i] (ChainInv).  That no cell holds   *)
(* more than it has room for (Fits) bounds what a death in Persist leaves  *)
(* in the file as well as in the cell.  What Path and FoundIn, which TLC   *)
(* computes, find along it follows by induction on the length of the walk  *)
(* (Count, WalkFinds).                                                     *)
(***************************************************************************)
EXTENDS ShmRing, WellFoundedInduction, TLAPS

\* shmget finds the old segment of a key.
OneOfAKey == \A s, t \in live : s.key = t.key => s = t

Linked(R, f) ==
  /\ R \subseteq live
  /\ \A s \in R : f[s] \in R
  /\ \A s, t \in R : f[s] = f[t] => s = t

Whole == \E R \in SUBSET live : head \in R /\ Linked(R, m_iNextShmId)

Running(R) ==
  /\ m_pCurBuf \in R /\ m_pPrstBuf \in R /\ head \in R
  /\ ppc = "idle" => Linked(R, m_iNextShmId) /\ \A s \in R : s.key < m_iBuffCnt
  /\ ppc # "idle" =>
       /\ \A s \in R : s.key < m_iBuffCnt - 1
       /\ nextBuf \in R
       /\ SegOf(m_iBuffCnt - 1) \in live
       /\ Linked(R, [m_iNextShmId EXCEPT ![m_pCurBuf] = nextBuf])
  /\ ppc = "made" => nextBuf = m_iNextShmId[m_pCurBuf]
  /\ ppc = "linked" => m_iNextShmId[m_pCurBuf] = SegOf(m_iBuffCnt - 1)

Built ==
  /\ SegOf(0) \in live /\ SegOf(1) \in live
  /\ m_iNextShmId[SegOf(0)] = SegOf(1) /\ m_iNextShmId[SegOf(1)] = SegOf(0)

RunInv ==
  /\ spc = "run" => \E R \in SUBSET live : Running(R)
  /\ spc = "publish" => Built
  /\ spc # "run" => NoProcess
  /\ ppc # "idle" => appended < MaxRecords

\* The segments R are left to remove, from walk on.
RestFrom(R) ==
  /\ walk \in R
  /\ \A s \in R : m_iNextShmId[s] \in (R \ {walk}) \cup {head}
  /\ \A s, t \in R : m_iNextShmId[s] = m_iNextShmId[t] => s = t

Removing ==
  \/ Whole /\ walk = head
  \/ head \notin live /\ \E R \in SUBSET live : RestFrom(R)

Visiting ==
  \E R \in SUBSET live : head \in R /\ walk \in R /\ Linked(R, m_iNextShmId)

LeftInv == ~broken =>
  /\ ~failed
  /\ spc = "down" /\ tpc = "off" => Whole \/ head = Absent
  /\ spc = "walk" => Removing
  /\ tpc = "walk" => IF IsDel THEN Removing ELSE Visiting
  /\ tpc = "end" => IF IsDel THEN head \notin live ELSE Whole

RingInv == TypeOK /\ OneOfAKey /\ RunInv /\ LeftInv

-----------------------------------------------------------------------------
(* Segments *)

LEMMA SegKey ==
  ASSUME TypeOK, life <= MaxLives, NEW k \in 0 .. MaxBuffCnt - 1
  PROVE  /\ SegOf(k) \in Segs /\ SegOf(k).key = k
         /\ (\E s \in live : s.key = k) => SegOf(k) \in live
<1>1. CASE \E s \in live : s.key = k
  <2>1. SegOf(k) = CHOOSE s \in live : s.key = k
    BY <1>1 DEF SegOf
  <2>2. SegOf(k) \in live /\ SegOf(k).key = k
    BY <1>1, <2>1
  <2>. QED
    BY <2>2 DEF TypeOK, RingTypeOK
<1>2. CASE ~ \E s \in live : s.key = k
  <2>1. SegOf(k) = [key |-> k, life |-> life]
    BY <1>2 DEF SegOf
  <2>2. life \in 1 .. MaxLives
    BY ShmAssumption DEF TypeOK, RingTypeOK
  <2>3. [key |-> k, life |-> life] \in Segs
    BY <2>2 DEF Segs
  <2>. QED
    BY <1>2, <2>1, <2>3
<1>. QED
  BY <1>1, <1>2

LEMMA FirstSegs ==
  ASSUME TypeOK, life <= MaxLives
  PROVE  /\ SegOf(0) \in Segs /\ SegOf(1) \in Segs
         /\ SegOf(0).key = 0 /\ SegOf(1).key = 1 /\ SegOf(0) # SegOf(1)
<1>1. 0 \in 0 .. MaxBuffCnt - 1 /\ 1 \in 0 .. MaxBuffCnt - 1
  BY ShmAssumption
<1>. QED
  BY <1>1, SegKey

LEMMA LiveSegs ==
  ASSUME RingInv, spc = "run"
  PROVE  /\ m_pCurBuf \in live /\ m_pPrstBuf \in live /\ head \in live
         /\ live \subseteq Segs /\ life <= MaxLives
         /\ ppc = "idle" => /\ m_iNextShmId[m_pCurBuf] \in live
                            /\ m_iNextShmId[m_pPrstBuf] \in live
         /\ ppc # "idle" => /\ nextBuf \in live
                            /\ SegOf(m_iBuffCnt - 1) \in live
                            /\ SegOf(m_iBuffCnt - 1).key = m_iBuffCnt - 1
<1>1. PICK R \in SUBSET live : Running(R)
  BY DEF RingInv, RunInv
<1>2. live \subseteq Segs /\ life <= MaxLives /\ m_iBuffCnt \in 3 .. MaxBuffCnt
  BY DEF RingInv, TypeOK, RingTypeOK, ProcTypeOK
<1>3. m_iBuffCnt - 1 \in 0 .. MaxBuffCnt - 1
  BY <1>2, ShmAssumption
<1>4. SegOf(m_iBuffCnt - 1).key = m_iBuffCnt - 1
  BY <1>2, <1>3, SegKey DEF RingInv
<1>. QED
  BY <1>1, <1>2, <1>4 DEF Running, Linked
-----------------------------------------------------------------------------
(* Types *)

LEMMA StartType ==
  ASSUME RingInv, Start
  PROVE  TypeOK'
<1>. USE ShmAssumption DEF RingInv, TypeOK, RingTypeOK, ProcTypeOK, PastTypeOK, Ids
<1>1. CASE StartFirst
  BY <1>1 DEF StartFirst, Starts, ringVars, procVars, toolVars, pastVars
<1>2. CASE StartOver
  <2>1. head \in Ids
    BY <1>2 DEF StartOver
  <2>. QED
    BY <1>2, <2>1 DEF StartOver, Starts, ringVars, procVars, toolVars, pastVars
<1>3. CASE RemoveCell
  <2>1. walk \in Segs /\ m_iNextShmId[walk] \in Ids
    BY <1>3 DEF RemoveCell
  <2>2. RingTypeOK'
    BY <1>3, <2>1 DEF RemoveCell, Remove
  <2>3. ProcTypeOK'
    BY <1>3 DEF RemoveCell, procVars, toolVars
  <2>4. PastTypeOK'
    BY <1>3 DEF RemoveCell, toolVars, pastVars
  <2>. QED
    BY <2>2, <2>3, <2>4
<1>4. CASE WalkFails
  <2>1. life <= MaxLives
    BY <1>4 DEF WalkFails
  <2>2. RingTypeOK'
    BY <1>4, <2>1 DEF WalkFails, Dies, ringVars
  <2>3. ProcTypeOK'
    BY <1>4 DEF WalkFails, Dies, toolVars
  <2>4. PastTypeOK'
    BY <1>4 DEF WalkFails, Dies, toolVars
  <2>. QED
    BY <2>2, <2>3, <2>4
<1>5. CASE Build
  <2>1. life <= MaxLives
    BY <1>5 DEF Build
  <2>2. SegOf(0) \in Segs /\ SegOf(1) \in Segs
    BY <2>1, FirstSegs
  <2>3. <<>> \in Seq(Records)
    OBVIOUS
  <2>4. RingTypeOK'
    BY <1>5, <2>2, <2>3 DEF Build
  <2>5. ProcTypeOK'
    BY <1>5, <2>1 DEF Build, procVars, toolVars
  <2>6. PastTypeOK'
    BY <1>5 DEF Build, toolVars, pastVars
  <2>. QED
    BY <2>4, <2>5, <2>6
<1>6. CASE Publish
  <2>1. life <= MaxLives
    BY <1>6 DEF Publish
  <2>2. SegOf(0) \in Segs
    BY <2>1, FirstSegs
  <2>3. RingTypeOK'
    BY <1>6, <2>2 DEF Publish, ringVars
  <2>4. ProcTypeOK'
    BY <1>6, <2>1, <2>2 DEF Publish
  <2>5. <<>> \in Seq(Records) /\ 0 \in 0 .. MaxRecords
    OBVIOUS
  <2>6. found' \in Seq(Records) /\ leaveLog' \in Seq(Records) /\ log' \in Seq(Records)
    BY <1>6, <2>5 DEF Publish
  <2>7. /\ again' \in BOOLEAN /\ broken' \in BOOLEAN /\ saved' \in BOOLEAN
        /\ failed' \in BOOLEAN /\ IsDel' \in BOOLEAN /\ have_data' \in BOOLEAN
        /\ short' \in BOOLEAN /\ toolShort' \in BOOLEAN
    BY <1>6 DEF Publish
  <2>8. PastTypeOK'
    BY <1>6, <2>5, <2>6, <2>7 DEF Publish
  <2>. QED
    BY <2>3, <2>4, <2>8
<1>. QED
  BY <1>1, <1>2, <1>3, <1>4, <1>5, <1>6 DEF Start

LEMMA Stored ==
  ASSUME TypeOK, NEW c \in Segs, appended < MaxRecords, AppendTo(c)
  PROVE  data' \in [Segs -> Seq(Records)] /\ appended' \in 0 .. MaxRecords
<1>. USE ShmAssumption DEF TypeOK, RingTypeOK, PastTypeOK, AppendTo
<1>1. appended + 1 \in Records
  BY DEF Records
<1>2. data[c] \in Seq(Records)
  OBVIOUS
<1>3. Append(data[c], appended + 1) \in Seq(Records)
  BY <1>1, <1>2
<1>. QED
  BY <1>3

LEMMA ProducerType ==
  ASSUME RingInv, AppendToCur \/ MoveOn \/ MakeCell \/ LinkCell \/ CloseRing
  PROVE  TypeOK'
<1>1. spc = "run" /\ ProducerFrame
  BY DEF AppendToCur, MoveOn, MakeCell, LinkCell, CloseRing, Produces
<1>2. PastTypeOK' <=> appended' \in 0 .. MaxRecords
  BY <1>1 DEF RingInv, TypeOK, PastTypeOK, ProducerFrame, toolVars, pastVars
<1>. USE ShmAssumption DEF RingInv, TypeOK, RingTypeOK, ProcTypeOK, Ids
<1>3. /\ m_pCurBuf \in Segs /\ live \subseteq Segs /\ life <= MaxLives
      /\ ppc = "idle" => m_iNextShmId[m_pCurBuf] \in Segs
      /\ ppc # "idle" => nextBuf \in Segs /\ SegOf(m_iBuffCnt - 1) \in Segs
                         /\ appended < MaxRecords
  BY <1>1, LiveSegs DEF RunInv
<1>4. CASE AppendToCur
  <2>1. data' \in [Segs -> Seq(Records)] /\ appended' \in 0 .. MaxRecords
    BY <1>3, <1>4, Stored DEF AppendToCur, Produces
  <2>2. RingTypeOK' /\ ProcTypeOK'
    BY <1>4, <2>1 DEF AppendToCur, ProducerFrame, toolVars
  <2>. QED
    BY <1>2, <2>1, <2>2
<1>5. CASE MoveOn
  <2>1. m_pCurBuf' \in Segs /\ appended < MaxRecords /\ AppendTo(m_pCurBuf')
    BY <1>3, <1>5 DEF MoveOn, Produces
  <2>2. data' \in [Segs -> Seq(Records)] /\ appended' \in 0 .. MaxRecords
    BY <2>1, Stored
  <2>3. RingTypeOK'
    BY <1>5, <2>2 DEF MoveOn, ProducerFrame
  <2>4. ProcTypeOK'
    BY <1>3, <1>5, <2>1 DEF MoveOn, ProducerFrame, toolVars
  <2>. QED
    BY <1>2, <2>2, <2>3, <2>4
<1>6. CASE MakeCell
  <2>1. m_iBuffCnt \in 0 .. MaxBuffCnt - 1
    BY <1>6 DEF MakeCell
  <2>2. SegOf(m_iBuffCnt) \in Segs
    BY <1>3, <2>1, SegKey
  <2>3. <<>> \in Seq(Records)
    OBVIOUS
  <2>4. RingTypeOK'
    BY <1>6, <2>2, <2>3 DEF MakeCell, ProducerFrame
  <2>5. m_iBuffCnt' \in 3 .. MaxBuffCnt /\ nextBuf' \in Segs /\ full' \subseteq Segs
    BY <1>3, <1>6, <2>1 DEF MakeCell, Produces
  <2>6. ProcTypeOK'
    BY <1>6, <2>5 DEF MakeCell, ProducerFrame, toolVars
  <2>7. appended' \in 0 .. MaxRecords
    BY <1>6 DEF MakeCell, PastTypeOK
  <2>. QED
    BY <1>2, <2>4, <2>6, <2>7
<1>7. CASE LinkCell
  <2>1. RingTypeOK'
    BY <1>3, <1>7 DEF LinkCell, ProducerFrame
  <2>2. ProcTypeOK'
    BY <1>7 DEF LinkCell, ProducerFrame, toolVars
  <2>3. appended' \in 0 .. MaxRecords
    BY <1>7 DEF LinkCell, PastTypeOK
  <2>. QED
    BY <1>2, <2>1, <2>2, <2>3
<1>8. CASE CloseRing
  <2>1. m_pCurBuf' \in Segs /\ appended < MaxRecords /\ AppendTo(m_pCurBuf') /\ nextBuf \in Segs
    BY <1>3, <1>8 DEF CloseRing
  <2>2. data' \in [Segs -> Seq(Records)] /\ appended' \in 0 .. MaxRecords
    BY <2>1, Stored
  <2>3. RingTypeOK'
    BY <1>8, <2>1, <2>2 DEF CloseRing, ProducerFrame
  <2>4. ProcTypeOK'
    BY <1>8, <2>1 DEF CloseRing, ProducerFrame, toolVars
  <2>. QED
    BY <1>2, <2>2, <2>3, <2>4
<1>. QED
  BY <1>4, <1>5, <1>6, <1>7, <1>8

LEMMA PartOf ==
  ASSUME NEW s \in Seq(Records), NEW k \in 0 .. Len(s)
  PROVE  SubSeq(s, 1, k) \in Seq(Records) /\ Len(SubSeq(s, 1, k)) = k
         /\ \A i \in 1 .. k : SubSeq(s, 1, k)[i] = s[i]
  OBVIOUS

LEMMA WholeOf ==
  ASSUME NEW s \in Seq(Records)
  PROVE  SubSeq(s, 1, Len(s)) = s
<1>1. Len(s) \in 0 .. Len(s)
  OBVIOUS
<1>2. /\ SubSeq(s, 1, Len(s)) \in Seq(Records) /\ Len(SubSeq(s, 1, Len(s))) = Len(s)
      /\ \A i \in 1 .. Len(s) : SubSeq(s, 1, Len(s))[i] = s[i]
  BY <1>1, PartOf
<1>. QED
  BY <1>2

LEMMA ConsumerType ==
  ASSUME RingInv, Take \/ Persist \/ PersistShort \/ Clear \/ MoveHead
  PROVE  TypeOK'
<1>1. spc = "run" /\ ConsumerFrame /\ short' \in BOOLEAN
  BY DEF Take, Persist, PersistShort, Writes, Clear, MoveHead, RingInv, TypeOK, PastTypeOK
<1>2. ASSUME log' \in Seq(Records) PROVE PastTypeOK'
  BY <1>1, <1>2 DEF RingInv, TypeOK, PastTypeOK, ConsumerFrame, toolVars
<1>. USE DEF RingInv, TypeOK, RingTypeOK, ProcTypeOK, Ids
<1>3. /\ m_pCurBuf \in Segs /\ m_pPrstBuf \in Segs /\ live \subseteq Segs
      /\ ppc = "idle" => m_iNextShmId[m_pCurBuf] \in Segs /\ m_iNextShmId[m_pPrstBuf] \in Segs
  BY <1>1, LiveSegs
<1>4. log \in Seq(Records)
  BY DEF PastTypeOK
<1>5. CASE Take
  <2>1. RingTypeOK' /\ ProcTypeOK'
    BY <1>3, <1>5 DEF Take, ConsumerFrame, toolVars
  <2>. QED
    BY <1>2, <1>4, <1>5, <2>1 DEF Take
<1>6. CASE Persist \/ PersistShort
  <2>1. RingTypeOK' /\ ProcTypeOK'
    BY <1>3, <1>6 DEF Persist, PersistShort, Writes, ConsumerFrame, toolVars
  <2>2. data[m_pPrstBuf] \in Seq(Records)
    BY <1>3
  <2>3. PICK k \in 0 .. Len(data[m_pPrstBuf]) : log' = log \o SubSeq(data[m_pPrstBuf], 1, k)
    <3>1. CASE Persist
      <4>1. Len(data[m_pPrstBuf]) \in 0 .. Len(data[m_pPrstBuf])
        BY <2>2
      <4>. QED
        BY <3>1, <4>1 DEF Persist, Writes
    <3>2. CASE PersistShort
      <4>1. PICK k \in 0 .. Len(data[m_pPrstBuf]) - 1 : Writes(k)
        BY <3>2 DEF PersistShort
      <4>2. k \in 0 .. Len(data[m_pPrstBuf])
        BY <2>2, <4>1
      <4>. QED
        BY <4>1, <4>2 DEF Writes
    <3>. QED
      BY <1>6, <3>1, <3>2
  <2>4. log' \in Seq(Records)
    BY <1>4, <2>2, <2>3, PartOf
  <2>. QED
    BY <1>2, <2>1, <2>4
<1>7. CASE Clear
  <2>1. <<>> \in Seq(Records)
    OBVIOUS
  <2>2. RingTypeOK' /\ ProcTypeOK'
    BY <1>3, <1>7, <2>1 DEF Clear, ConsumerFrame, toolVars
  <2>. QED
    BY <1>2, <1>4, <1>7, <2>2 DEF Clear
<1>8. CASE MoveHead
  <2>1. RingTypeOK' /\ ProcTypeOK'
    BY <1>3, <1>8 DEF MoveHead, ConsumerFrame, toolVars
  <2>. QED
    BY <1>2, <1>4, <1>8, <2>1 DEF MoveHead
<1>. QED
  BY <1>5, <1>6, <1>7, <1>8

LEMMA CrashType ==
  ASSUME RingInv, Crash
  PROVE  TypeOK'
<1>. USE ShmAssumption DEF RingInv, TypeOK, RingTypeOK, ProcTypeOK
<1>1. life <= MaxLives
  BY DEF Crash
<1>2. RingTypeOK'
  BY <1>1 DEF Crash, Dies, ringVars, Ids
<1>3. ProcTypeOK'
  BY <1>1 DEF Crash, Dies, toolVars, Ids
<1>4. again' \in BOOLEAN /\ log' \in Seq(Records)
  <2>1. CASE spc = "run" /\ cpc = "persist"
    <3>1. data[m_pPrstBuf] \in Seq(Records) /\ log \in Seq(Records)
      BY <2>1, LiveSegs DEF PastTypeOK
    <3>2. PICK k \in 0 .. Len(data[m_pPrstBuf]) :
            log' = log \o SubSeq(data[m_pPrstBuf], 1, k) /\ again' = (k > 0)
      BY <2>1 DEF Crash
    <3>. QED
      BY <3>1, <3>2, PartOf
  <2>2. CASE ~(spc = "run" /\ cpc = "persist")
    BY <2>2 DEF Crash, PastTypeOK
  <2>. QED
    BY <2>1, <2>2
<1>5. broken' \in BOOLEAN
  BY DEF Crash, PastTypeOK
<1>6. PastTypeOK'
  BY <1>4, <1>5 DEF Crash, Dies, toolVars, PastTypeOK
<1>. QED
  BY <1>2, <1>3, <1>6

LEMMA ToolType ==
  ASSUME RingInv, Tool
  PROVE  TypeOK'
<1>1. ToolFrame /\ spc = "down"
  BY DEF Tool, ToolStart, ToolCell, ToolEnd, ToolFails, ToolNoFile, ToolKilled, ToolDies,
         RingInv, TypeOK, ProcTypeOK
<1>2. ProcTypeOK'
  BY <1>1 DEF ToolFrame, procVars, RingInv, TypeOK, ProcTypeOK
<1>. USE DEF RingInv, TypeOK, RingTypeOK
<1>3. /\ found \in Seq(Records) /\ leaveLog \in Seq(Records) /\ <<>> \in Seq(Records)
      /\ log \in Seq(Records) /\ appended \in 0 .. MaxRecords /\ again \in BOOLEAN
      /\ broken \in BOOLEAN /\ saved \in BOOLEAN /\ failed \in BOOLEAN /\ IsDel \in BOOLEAN
      /\ have_data \in BOOLEAN /\ short \in BOOLEAN /\ toolShort \in BOOLEAN
  BY DEF PastTypeOK
<1>4. ASSUME found' \in Seq(Records), leaveLog' \in Seq(Records), IsDel' \in BOOLEAN,
             broken' \in BOOLEAN, saved' \in BOOLEAN, failed' \in BOOLEAN,
             have_data' \in BOOLEAN, toolShort' \in BOOLEAN,
             tpc' \in {"off", "walk", "end"}
      PROVE  PastTypeOK'
  BY <1>1, <1>3, <1>4 DEF PastTypeOK, ToolFrame
<1>5. CASE ToolStart
  <2>1. RingTypeOK'
    BY <1>1, <1>5 DEF ToolStart, ToolFrame, ringVars, Ids
  <2>2. PastTypeOK'
    BY <1>3, <1>4, <1>5 DEF ToolStart
  <2>. QED
    BY <1>2, <2>1, <2>2
<1>6. CASE ToolCell
  <2>1. walk \in Segs /\ m_iNextShmId[walk] \in Ids /\ data[walk] \in Seq(Records)
    BY <1>6 DEF ToolCell
  <2>2. RingTypeOK'
    <3>1. CASE IsDel
      BY <1>1, <1>3, <1>6, <2>1, <3>1 DEF ToolCell, ToolFrame, Remove, Ids
    <3>2. CASE ~IsDel
      BY <1>1, <1>6, <2>1, <3>2 DEF ToolCell, ToolFrame, ringVars, Ids
    <3>. QED
      BY <3>1, <3>2
  <2>3. /\ found' \in Seq(Records) /\ leaveLog' \in Seq(Records)
        /\ have_data' \in BOOLEAN /\ toolShort' \in BOOLEAN
    <3>1. CASE data[walk] = <<>>
      BY <1>3, <1>6, <3>1 DEF ToolCell, ToolWrites
    <3>2. CASE data[walk] # <<>>
      <4>1. PICK k \in 0 .. Len(data[walk]) :
              /\ found' = found \o SubSeq(data[walk], 1, k)
              /\ toolShort' = (toolShort \/ k < Len(data[walk]))
        BY <1>6, <3>2 DEF ToolCell, ToolWrites
      <4>2. found' \in Seq(Records)
        BY <1>3, <2>1, <4>1, PartOf
      <4>. QED
        BY <1>3, <1>6, <3>2, <4>1, <4>2 DEF ToolCell, ToolWrites
    <3>. QED
      BY <3>1, <3>2
  <2>4. PastTypeOK'
    BY <1>3, <1>4, <1>6, <2>3 DEF ToolCell
  <2>. QED
    BY <1>2, <2>2, <2>4
<1>7. CASE ToolEnd
  <2>1. RingTypeOK'
    BY <1>1, <1>7 DEF ToolEnd, ToolFrame, ToolOver, ringVars, Ids
  <2>2. PICK k \in 0 .. Len(found) :
          /\ leaveLog' = IF have_data THEN SubSeq(found, 1, k) ELSE leaveLog
          /\ toolShort' = (toolShort \/ k < Len(found))
    BY <1>7 DEF ToolEnd
  <2>3. leaveLog' \in Seq(Records)
    BY <1>3, <2>2, PartOf
  <2>4. PastTypeOK'
    BY <1>3, <1>4, <1>7, <2>2, <2>3 DEF ToolEnd, ToolOver
  <2>. QED
    BY <1>2, <2>1, <2>4
<1>8. CASE ToolFails \/ ToolNoFile \/ ToolKilled
  <2>1. ToolDies
    BY <1>8 DEF ToolFails, ToolNoFile, ToolKilled
  <2>2. RingTypeOK'
    BY <1>1, <2>1 DEF ToolDies, ToolFrame, ToolOver, ringVars, Ids
  <2>3. PICK k \in 0 .. Len(found) :
          leaveLog' = IF have_data THEN SubSeq(found, 1, k) ELSE leaveLog
    BY <2>1 DEF ToolDies
  <2>4. leaveLog' \in Seq(Records)
    BY <1>3, <2>3, PartOf
  <2>5. broken' \in BOOLEAN /\ failed' \in BOOLEAN
    BY <1>3, <1>8 DEF ToolFails, ToolNoFile, ToolKilled
  <2>6. /\ found' = <<>> /\ tpc' = "off" /\ IsDel' = FALSE
        /\ UNCHANGED <<have_data, saved, toolShort>>
    BY <2>1 DEF ToolDies, ToolOver
  <2>7. PastTypeOK'
    BY <1>3, <1>4, <2>4, <2>5, <2>6
  <2>. QED
    BY <1>2, <2>2, <2>7
<1>. QED
  BY <1>5, <1>6, <1>7, <1>8 DEF Tool

LEMMA TypeStep ==
  ASSUME RingInv, Next
  PROVE  TypeOK'
  BY StartType, ProducerType, ConsumerType, CrashType, ToolType DEF Next, Run

LEMMA KeyAdded ==
  ASSUME TypeOK, OneOfAKey, life <= MaxLives, NEW k \in 0 .. MaxBuffCnt - 1,
         NEW L, \A s, t \in L : s.key = t.key => s = t,
         live \subseteq L, \A s \in L : s.key = k => s \in live
  PROVE  \A s, t \in L \cup {SegOf(k)} : s.key = t.key => s = t
  BY SegKey

LEMMA KeysStep ==
  ASSUME RingInv, Next
  PROVE  OneOfAKey'
<1>1. CASE Build
  <2>1. life <= MaxLives /\ live' = live \cup {SegOf(0)} \cup {SegOf(1)}
    BY <1>1 DEF Build, RingInv, TypeOK, ProcTypeOK
  <2>2. 0 \in 0 .. MaxBuffCnt - 1 /\ 1 \in 0 .. MaxBuffCnt - 1 /\ SegOf(0).key = 0
    BY <2>1, FirstSegs, ShmAssumption DEF RingInv
  <2>3. \A s, t \in live \cup {SegOf(0)} : s.key = t.key => s = t
    BY <2>1, <2>2, KeyAdded DEF RingInv, OneOfAKey
  <2>4. PICK L : L = live \cup {SegOf(0)}
    OBVIOUS
  <2>5. /\ \A s, t \in L : s.key = t.key => s = t
        /\ live \subseteq L /\ \A s \in L : s.key = 1 => s \in live
    BY <2>2, <2>3, <2>4
  <2>6. \A s, t \in L \cup {SegOf(1)} : s.key = t.key => s = t
    BY <2>1, <2>2, <2>5, KeyAdded DEF RingInv
  <2>. QED
    BY <2>1, <2>4, <2>6 DEF OneOfAKey
<1>2. CASE MakeCell
  <2>1. life <= MaxLives /\ live' = live \cup {SegOf(m_iBuffCnt)}
    BY <1>2 DEF MakeCell, Produces, RingInv, TypeOK, ProcTypeOK
  <2>2. m_iBuffCnt \in 0 .. MaxBuffCnt - 1
    BY <1>2, ShmAssumption DEF MakeCell, RingInv, TypeOK, ProcTypeOK
  <2>3. \A s, t \in live \cup {SegOf(m_iBuffCnt)} : s.key = t.key => s = t
    BY <2>1, <2>2, KeyAdded DEF RingInv, OneOfAKey
  <2>. QED
    BY <2>1, <2>3 DEF OneOfAKey
<1>3. CASE ~Build /\ ~MakeCell
  <2>1. live' \subseteq live
    BY <1>3 DEF Next, Start, StartFirst, StartOver, Starts, RemoveCell, Remove, WalkFails, Dies,
       Publish, Run, AppendToCur, MoveOn, LinkCell, CloseRing, Take, Persist, PersistShort,
       Writes, Clear, MoveHead,
       ConsumerFrame, Crash, Tool, ToolStart, ToolCell, ToolEnd, ToolFails, ToolNoFile,
       ToolKilled, ToolDies, ringVars
  <2>. QED
    BY <2>1 DEF RingInv, OneOfAKey
<1>. QED
  BY <1>1, <1>2, <1>3

-----------------------------------------------------------------------------
(* The ring of the running server *)

\* An atomic step that links no cell
LEMMA SameRing ==
  ASSUME RingInv, spc = "run", spc' = "run",
         UNCHANGED <<live, m_iNextShmId, m_iBuffCnt, ppc, nextBuf, life>>,
         ppc # "idle" => m_pCurBuf' = m_pCurBuf /\ appended' = appended,
         NEW R \in SUBSET live, Running(R), m_pCurBuf' \in R, m_pPrstBuf' \in R, head' \in R
  PROVE  RunInv'
<1>1. Running(R)'
  BY DEF Running, Linked, SegOf
<1>2. ppc' # "idle" => appended' < MaxRecords
  BY DEF RingInv, RunInv
<1>. QED
  BY <1>1, <1>2 DEF RunInv

LEMMA StepRing ==
  ASSUME RingInv, AppendToCur \/ MoveOn \/ Take \/ Persist \/ PersistShort \/ Clear \/ MoveHead
  PROVE  RunInv'
<1>1. /\ spc = "run" /\ spc' = "run"
      /\ UNCHANGED <<live, m_iNextShmId, m_iBuffCnt, ppc, nextBuf, life>>
  BY DEF AppendToCur, MoveOn, Produces, ProducerFrame, Take, Persist, PersistShort, Writes,
       Clear, MoveHead,
         ConsumerFrame
<1>2. PICK R \in SUBSET live : Running(R)
  BY <1>1 DEF RingInv, RunInv
<1>3. ppc = "idle" => m_iNextShmId[m_pCurBuf] \in R /\ m_iNextShmId[m_pPrstBuf] \in R
  BY <1>2 DEF Running, Linked
<1>4. m_pCurBuf' \in R /\ (ppc # "idle" => m_pCurBuf' = m_pCurBuf /\ appended' = appended)
  BY <1>2, <1>3 DEF AppendToCur, MoveOn, Produces, Take, Persist, PersistShort, Writes, Clear,
       MoveHead, Running,
                    ConsumerFrame
<1>5. m_pPrstBuf' \in R
  BY <1>2, <1>3 DEF AppendToCur, MoveOn, ProducerFrame, Take, Persist, PersistShort, Writes,
       Clear, MoveHead, Running
<1>6. head' \in R
  BY <1>2 DEF AppendToCur, MoveOn, ProducerFrame, Take, Persist, PersistShort, Writes, Clear,
       MoveHead, Running
<1>. QED
  BY <1>1, <1>2, <1>4, <1>5, <1>6, SameRing

LEMMA MakeCellRing ==
  ASSUME RingInv, MakeCell
  PROVE  RunInv'
<1>. DEFINE n == SegOf(m_iBuffCnt)
<1>1. spc = "run" /\ ppc = "idle" /\ appended < MaxRecords /\ appended' = appended
  BY DEF MakeCell, Produces
<1>2. /\ spc' = "run" /\ ppc' = "made" /\ m_iBuffCnt' = m_iBuffCnt + 1
      /\ UNCHANGED <<head, life, m_pCurBuf, m_pPrstBuf>>
      /\ live' = live \cup {n} /\ nextBuf' = m_iNextShmId[m_pCurBuf]
      /\ m_iNextShmId' = [m_iNextShmId EXCEPT ![n] = Zero]
  BY <1>1 DEF MakeCell, ProducerFrame
<1>3. PICK R \in SUBSET live : Running(R)
  BY <1>1 DEF RingInv, RunInv
<1>4. m_iBuffCnt \in 0 .. MaxBuffCnt - 1 /\ m_iBuffCnt \in Nat /\ life <= MaxLives
  BY <1>1, ShmAssumption DEF MakeCell, RingInv, TypeOK, ProcTypeOK
<1>5. n \in Segs /\ n.key = m_iBuffCnt
  BY <1>4, SegKey DEF RingInv
<1>6. \A s \in R : s \in Segs /\ s.key < m_iBuffCnt /\ s.key \in Nat
  BY <1>1, <1>3 DEF Running, RingInv, TypeOK, RingTypeOK, Segs
<1>7. n \notin R
  BY <1>4, <1>5, <1>6
<1>8. m_iNextShmId \in [Segs -> Ids] /\ m_pCurBuf \in R /\ R \subseteq Segs
  BY <1>3, <1>6 DEF RingInv, TypeOK, RingTypeOK, Running
<1>9. \A s \in R : m_iNextShmId'[s] = m_iNextShmId[s]
  BY <1>2, <1>7, <1>8
<1>10. [m_iNextShmId' EXCEPT ![m_pCurBuf] = nextBuf'] = m_iNextShmId'
  BY <1>2, <1>5, <1>8, <1>9
<1>11. (SegOf(m_iBuffCnt - 1) \in live)'
  <2>1. m_iBuffCnt' - 1 = m_iBuffCnt
    BY <1>2, <1>4
  <2>2. \E s \in live' : s.key = m_iBuffCnt' - 1
    BY <1>2, <1>5, <2>1
  <2>. QED
    BY <2>2 DEF SegOf
<1>. HIDE DEF n
<1>12. Linked(R, m_iNextShmId)
  BY <1>1, <1>3 DEF Running
<1>13. Linked(R, m_iNextShmId)'
  BY <1>2, <1>9, <1>12 DEF Linked
<1>14. (\A s \in R : s.key < m_iBuffCnt' - 1) /\ nextBuf' \in R
  BY <1>2, <1>4, <1>6, <1>8, <1>12 DEF Linked
<1>15. Running(R)'
  BY <1>2, <1>3, <1>8, <1>9, <1>10, <1>11, <1>13, <1>14 DEF Running
<1>. QED
  BY <1>1, <1>2, <1>15 DEF RunInv

LEMMA LinkCellRing ==
  ASSUME RingInv, LinkCell
  PROVE  RunInv'
<1>1. /\ spc = "run" /\ ppc = "made" /\ spc' = "run" /\ ppc' = "linked"
      /\ UNCHANGED <<live, head, life, m_pCurBuf, m_pPrstBuf, m_iBuffCnt, nextBuf, appended>>
      /\ m_iNextShmId' = [m_iNextShmId EXCEPT ![m_pCurBuf] = SegOf(m_iBuffCnt - 1)]
  BY DEF LinkCell, ProducerFrame
<1>2. PICK R \in SUBSET live : Running(R)
  BY <1>1 DEF RingInv, RunInv
<1>3. m_iNextShmId \in [Segs -> Ids]
  BY DEF RingInv, TypeOK, RingTypeOK
<1>4. [m_iNextShmId' EXCEPT ![m_pCurBuf] = nextBuf] = [m_iNextShmId EXCEPT ![m_pCurBuf] = nextBuf]
  BY <1>1, <1>3
<1>5. (SegOf(m_iBuffCnt - 1) \in live)' <=> SegOf(m_iBuffCnt - 1) \in live
  BY <1>1 DEF SegOf
<1>6. /\ m_iNextShmId'[m_pCurBuf] = SegOf(m_iBuffCnt - 1)
      /\ SegOf(m_iBuffCnt - 1)' = SegOf(m_iBuffCnt - 1)
  <2>1. m_pCurBuf \in Segs
    BY <1>1, LiveSegs
  <2>. QED
    BY <1>1, <1>3, <2>1 DEF SegOf
<1>7. Running(R)'
  BY <1>1, <1>2, <1>4, <1>5, <1>6 DEF Running, Linked
<1>8. appended' < MaxRecords
  BY <1>1 DEF RingInv, RunInv
<1>. QED
  BY <1>1, <1>8, <1>7 DEF RunInv

LEMMA CloseRingRing ==
  ASSUME RingInv, CloseRing
  PROVE  RunInv'
<1>. DEFINE n == SegOf(m_iBuffCnt - 1)
            f == [m_iNextShmId EXCEPT ![m_pCurBuf] = nextBuf]
<1>1. /\ spc = "run" /\ ppc = "linked" /\ spc' = "run" /\ ppc' = "idle"
      /\ UNCHANGED <<live, head, m_pPrstBuf, m_iBuffCnt>>
      /\ m_pCurBuf' = n
      /\ m_iNextShmId' = [m_iNextShmId EXCEPT ![n] = nextBuf]
  BY DEF CloseRing, ProducerFrame
<1>2. PICK R \in SUBSET live : Running(R)
  BY <1>1 DEF RingInv, RunInv
<1>3. /\ m_pCurBuf \in R /\ m_pPrstBuf \in R /\ head \in R /\ nextBuf \in R
      /\ n \in live /\ m_iNextShmId[m_pCurBuf] = n /\ Linked(R, f)
  BY <1>1, <1>2 DEF Running
<1>4. m_iNextShmId \in [Segs -> Ids] /\ live \subseteq Segs /\ m_iBuffCnt \in 3 .. MaxBuffCnt
  BY DEF RingInv, TypeOK, RingTypeOK, ProcTypeOK
<1>5. n.key = m_iBuffCnt - 1
  BY <1>1, LiveSegs
<1>6. \A s \in R : s.key < m_iBuffCnt - 1 /\ s.key \in Nat
  BY <1>1, <1>2, <1>4 DEF Running, Segs
<1>7. n \notin R
  BY <1>5, <1>6
<1>8. \A s \in R : f[s] = IF s = m_pCurBuf THEN nextBuf ELSE m_iNextShmId[s]
  BY <1>4
<1>9. /\ m_iNextShmId'[n] = nextBuf /\ m_iNextShmId'[m_pCurBuf] = n
      /\ \A s \in R : s # m_pCurBuf => m_iNextShmId'[s] = f[s]
      /\ f[m_pCurBuf] = nextBuf
  BY <1>1, <1>3, <1>4, <1>7, <1>8
<1>10. (\A s \in R : f[s] \in R) /\ (\A s, t \in R : f[s] = f[t] => s = t)
  BY <1>3 DEF Linked
<1>11. \A s \in R \cup {n} : s.key < m_iBuffCnt
  BY <1>4, <1>5, <1>6
<1>. HIDE DEF n, f
<1>12. PICK Q : Q = R \cup {n}
  OBVIOUS
<1>13. \A s \in Q : m_iNextShmId'[s] \in Q
  BY <1>3, <1>9, <1>10, <1>12
<1>14. ASSUME NEW s \in Q, NEW t \in Q, m_iNextShmId'[s] = m_iNextShmId'[t]
       PROVE  s = t
  <2>1. \A u \in R : u # m_pCurBuf => f[u] \in R /\ f[u] # n /\ f[u] # nextBuf
    BY <1>3, <1>7, <1>9, <1>10
  <2>2. nextBuf # n
    BY <1>3, <1>7
  <2>3. CASE s \in R \ {m_pCurBuf} /\ t \in R \ {m_pCurBuf}
    BY <1>9, <1>10, <1>14, <2>3
  <2>. QED
    BY <1>9, <1>12, <1>14, <2>1, <2>2, <2>3
<1>15. Q \in SUBSET live'
  BY <1>1, <1>3, <1>12
<1>16. Linked(Q, m_iNextShmId)'
  BY <1>13, <1>14, <1>15 DEF Linked
<1>17. Running(Q)'
  BY <1>1, <1>3, <1>11, <1>12, <1>16 DEF Running
<1>. QED
  BY <1>1, <1>15, <1>17 DEF RunInv

\* The ring of a new server
LEMMA BuildRing ==
  ASSUME RingInv, Build
  PROVE  RunInv'
<1>1. /\ spc = "build" /\ spc' = "publish" /\ UNCHANGED <<procVars, life, appended>>
      /\ live' = live \cup {SegOf(0), SegOf(1)}
      /\ m_iNextShmId' = [m_iNextShmId EXCEPT ![SegOf(0)] = SegOf(1), ![SegOf(1)] = SegOf(0)]
  BY DEF Build
<1>2. m_iNextShmId \in [Segs -> Ids] /\ life <= MaxLives
  BY <1>1 DEF RingInv, TypeOK, RingTypeOK, ProcTypeOK
<1>3. SegOf(0) \in Segs /\ SegOf(1) \in Segs /\ SegOf(0).key = 0 /\ SegOf(1).key = 1
  BY <1>2, FirstSegs DEF RingInv
<1>4. /\ m_iNextShmId'[SegOf(0)] = SegOf(1) /\ m_iNextShmId'[SegOf(1)] = SegOf(0)
  BY <1>1, <1>2, <1>3
<1>5. SegOf(0) \in live' /\ SegOf(1) \in live'
  BY <1>1
<1>6. TypeOK' /\ OneOfAKey' /\ life' = life
  BY <1>1, StartType, KeysStep DEF Start, Next
<1>7. SegOf(0)' = SegOf(0) /\ SegOf(1)' = SegOf(1)
  <2>1. ASSUME NEW k \in 0 .. MaxBuffCnt - 1, NEW s \in live', s.key = k
        PROVE  SegOf(k)' = s
    <3>1. SegOf(k)' = CHOOSE x \in live' : x.key = k
      BY <2>1 DEF SegOf
    <3>2. SegOf(k)' \in live' /\ (SegOf(k)').key = k
      BY <2>1, <3>1
    <3>. QED
      BY <1>6, <2>1, <3>2 DEF OneOfAKey
  <2>2. 0 \in 0 .. MaxBuffCnt - 1 /\ 1 \in 0 .. MaxBuffCnt - 1
    BY ShmAssumption
  <2>. QED
    BY <1>3, <1>5, <2>1, <2>2
<1>8. Built'
  BY <1>4, <1>5, <1>7 DEF Built
<1>9. NoProcess'
  BY <1>1 DEF NoProcess, procVars, RingInv, RunInv
<1>. QED
  BY <1>1, <1>8, <1>9 DEF RunInv, NoProcess

LEMMA PublishRing ==
  ASSUME RingInv, Publish
  PROVE  RunInv'
<1>1. /\ spc = "publish" /\ spc' = "run" /\ UNCHANGED <<live, m_iNextShmId, m_iBuffCnt, ppc>>
      /\ head' = SegOf(0) /\ m_pCurBuf' = SegOf(0) /\ m_pPrstBuf' = SegOf(0)
  BY DEF Publish, ringVars
<1>2. Built /\ ppc = "idle" /\ m_iBuffCnt = 3
  BY <1>1 DEF RingInv, RunInv, NoProcess
<1>3. /\ SegOf(0).key = 0 /\ SegOf(1).key = 1 /\ SegOf(0) # SegOf(1)
  BY <1>1, FirstSegs DEF RingInv, TypeOK, ProcTypeOK
<1>4. PICK Q : Q = {SegOf(0), SegOf(1)}
  OBVIOUS
<1>5. Q \in SUBSET live'
  BY <1>1, <1>2, <1>4 DEF Built
<1>6. Linked(Q, m_iNextShmId)'
  BY <1>1, <1>2, <1>3, <1>4, <1>5 DEF Built, Linked
<1>7. (\A s \in Q : s.key < m_iBuffCnt)'
  BY <1>1, <1>2, <1>3, <1>4
<1>8. Running(Q)'
  BY <1>1, <1>2, <1>4, <1>6, <1>7 DEF Running
<1>. QED
  BY <1>1, <1>2, <1>5, <1>8 DEF RunInv

LEMMA OtherRing ==
  ASSUME RingInv, StartFirst \/ StartOver \/ RemoveCell \/ WalkFails \/ Crash \/ Tool
  PROVE  RunInv'
<1>1. CASE StartFirst \/ StartOver \/ RemoveCell \/ Tool
  <2>1. /\ spc # "run" /\ spc' \notin {"run", "publish"} /\ UNCHANGED procVars
    BY <1>1 DEF StartFirst, StartOver, Starts, RemoveCell, Tool, ToolStart, ToolCell, ToolEnd,
                ToolFails, ToolNoFile, ToolKilled, ToolDies, ToolFrame, RingInv, TypeOK, ProcTypeOK
  <2>. QED
    BY <2>1 DEF RingInv, RunInv, NoProcess, procVars
<1>2. CASE WalkFails \/ Crash
  BY <1>2 DEF WalkFails, Crash, Dies, RunInv, NoProcess
<1>. QED
  BY <1>1, <1>2

LEMMA RunStep ==
  ASSUME RingInv, Next
  PROVE  RunInv'
  BY StepRing, MakeCellRing, LinkCellRing, CloseRingRing, BuildRing, PublishRing, OtherRing
     DEF Next, Start, Run
-----------------------------------------------------------------------------
(* What a life leaves behind *)

LEMMA SameLeft ==
  ASSUME RingInv, UNCHANGED <<live, m_iNextShmId, head, broken, spc, tpc, IsDel, walk, failed>>
  PROVE  LeftInv'
<1>1. Whole' <=> Whole
  BY DEF Whole, Linked
<1>2. Removing' <=> Removing
  BY <1>1 DEF Removing, RestFrom
<1>3. Visiting' <=> Visiting
  BY DEF Visiting, Linked
<1>. QED
  BY <1>1, <1>2, <1>3 DEF LeftInv, RingInv

LEMMA RunLeft ==
  ASSUME RingInv, Run
  PROVE  LeftInv'
<1>1. /\ spc = "run" /\ spc' = "run" /\ UNCHANGED <<toolVars, again, broken, failed>>
  BY DEF Run, AppendToCur, MoveOn, MakeCell, LinkCell, CloseRing, Produces, ProducerFrame, Take,
         Persist, PersistShort, Writes, Clear, MoveHead, ConsumerFrame, pastVars
<1>2. tpc = "off"
  BY <1>1 DEF RingInv, TypeOK, ProcTypeOK
<1>. QED
  BY <1>1, <1>2 DEF LeftInv, RingInv, toolVars

\* The removal of one segment
LEMMA RemoveStep ==
  ASSUME RingInv, ~broken, Removing, walk \in live, Remove(walk),
         walk' = m_iNextShmId[walk], head' = head
  PROVE  head' \notin live' /\ (walk' # head => Removing')
<1>1. m_iNextShmId \in [Segs -> Ids] /\ live \subseteq Segs /\ walk \in Segs
  BY DEF RingInv, TypeOK, RingTypeOK
<1>2. /\ live' = live \ {walk}
      /\ \A s \in Segs : s # walk => m_iNextShmId'[s] = m_iNextShmId[s]
  BY <1>1 DEF Remove
<1>3. head' \notin live'
  BY <1>2 DEF Removing
<1>4. PICK R \in SUBSET live :
        /\ walk \in R
        /\ \A s \in R : m_iNextShmId[s] \in R \cup {head}
        /\ \A s \in R : m_iNextShmId[s] = walk => walk = head
        /\ \A s, t \in R : m_iNextShmId[s] = m_iNextShmId[t] => s = t
  BY DEF Removing, Whole, Linked, RestFrom
<1>5. PICK Q : Q = R \ {walk}
  OBVIOUS
<1>6. ASSUME walk' # head PROVE RestFrom(Q)'
  <2>1. walk' # walk
    BY <1>4, <1>6
  <2>2. walk' \in Q
    BY <1>4, <1>5, <1>6, <2>1
  <2>3. \A s \in Q : /\ m_iNextShmId'[s] = m_iNextShmId[s]
                     /\ m_iNextShmId[s] # walk' /\ m_iNextShmId[s] \in Q \cup {head}
    BY <1>1, <1>2, <1>4, <1>5
  <2>. QED
    BY <1>4, <1>5, <2>2, <2>3 DEF RestFrom
<1>7. Q \in SUBSET live'
  BY <1>2, <1>4, <1>5
<1>. QED
  BY <1>3, <1>6, <1>7 DEF Removing

LEMMA StartLeft ==
  ASSUME RingInv, Start
  PROVE  LeftInv'
<1>1. tpc = "off" /\ tpc' = "off" /\ broken' = broken
  BY DEF Start, StartFirst, StartOver, Starts, RemoveCell, WalkFails, Dies, Build, Publish,
         toolVars, pastVars, RingInv, TypeOK, ProcTypeOK
<1>2. CASE broken
  BY <1>1, <1>2 DEF LeftInv
<1>3. CASE ~broken /\ (StartFirst \/ Build \/ Publish)
  <2>1. spc' \in {"build", "publish", "run"} /\ failed' = failed
    BY <1>3 DEF StartFirst, Starts, Build, Publish, pastVars
  <2>. QED
    BY <1>1, <1>3, <2>1 DEF LeftInv, RingInv
<1>4. CASE ~broken /\ StartOver
  <2>1. Whole /\ ~failed
    BY <1>1, <1>4 DEF LeftInv, RingInv, StartOver, Starts
  <2>2. /\ UNCHANGED <<live, m_iNextShmId, head, failed>> /\ walk' = head' /\ spc' = "walk"
    BY <1>4 DEF StartOver, Starts, ringVars, pastVars
  <2>3. Whole'
    BY <2>1, <2>2 DEF Whole, Linked
  <2>. QED
    BY <1>1, <2>1, <2>2, <2>3 DEF LeftInv, Removing
<1>5. CASE ~broken /\ RemoveCell
  <2>1. /\ walk \in live /\ Remove(walk) /\ walk' = m_iNextShmId[walk] /\ head' = head
        /\ spc = "walk" /\ spc' = (IF walk' = head THEN "build" ELSE "walk") /\ failed' = failed
    BY <1>5 DEF RemoveCell, pastVars
  <2>2. Removing /\ ~failed
    BY <1>5, <2>1 DEF LeftInv, RingInv
  <2>3. walk' # head => Removing'
    BY <1>5, <2>1, <2>2, RemoveStep
  <2>. QED
    BY <1>1, <2>1, <2>2, <2>3 DEF LeftInv
<1>6. CASE ~broken /\ WalkFails
  <2>1. Removing /\ walk \notin live
    BY <1>6 DEF WalkFails, LeftInv, RingInv
  <2>. QED
    BY <2>1 DEF Removing, Whole, RestFrom
<1>. QED
  BY <1>2, <1>3, <1>4, <1>5, <1>6 DEF Start

LEMMA CrashLeft ==
  ASSUME RingInv, Crash
  PROVE  LeftInv'
<1>1. /\ spc # "down" /\ spc' = "down" /\ tpc = "off" /\ tpc' = "off"
      /\ UNCHANGED <<live, m_iNextShmId, head, failed>>
      /\ broken' = (broken \/ RingIsOpen)
  BY DEF Crash, Dies, ringVars, toolVars, RingInv, TypeOK, ProcTypeOK
<1>2. SUFFICES ASSUME ~broken, ~RingIsOpen PROVE ~failed /\ Whole'
  BY <1>1 DEF LeftInv
<1>3. ~failed
  BY <1>2 DEF LeftInv, RingInv
<1>4. CASE spc = "walk"
  <2>1. Removing /\ head \in live
    BY <1>2, <1>4 DEF LeftInv, RingInv, RingIsOpen
  <2>. QED
    BY <1>1, <1>3, <2>1 DEF Removing, Whole, Linked
<1>5. CASE spc = "run"
  <2>1. PICK R \in SUBSET live : Running(R)
    BY <1>5 DEF RingInv, RunInv
  <2>2. ppc \in {"idle", "made"}
    BY <1>2 DEF RingIsOpen, RingInv, TypeOK, ProcTypeOK
  <2>3. m_iNextShmId \in [Segs -> Ids]
    BY DEF RingInv, TypeOK, RingTypeOK
  <2>4. m_pCurBuf \in Segs
    BY <1>5, LiveSegs
  <2>5. ppc = "made" => [m_iNextShmId EXCEPT ![m_pCurBuf] = nextBuf] = m_iNextShmId
    BY <2>1, <2>3, <2>4 DEF Running
  <2>6. head \in R /\ Linked(R, m_iNextShmId)
    BY <2>1, <2>2, <2>5 DEF Running
  <2>. QED
    BY <1>1, <1>3, <2>6 DEF Whole, Linked
<1>. QED
  BY <1>1, <1>2, <1>4, <1>5 DEF RingIsOpen, RingInv, TypeOK, ProcTypeOK

LEMMA ToolLeft ==
  ASSUME RingInv, Tool
  PROVE  LeftInv'
<1>1. spc = "down" /\ spc' = "down"
  BY DEF Tool, ToolStart, ToolCell, ToolEnd, ToolFails, ToolNoFile, ToolKilled, ToolDies,
       ToolFrame, RingInv, TypeOK,
         ProcTypeOK
<1>2. CASE broken
  BY <1>2 DEF Tool, ToolStart, ToolCell, ToolEnd, ToolFails, ToolNoFile, ToolKilled, ToolDies,
       LeftInv
<1>3. CASE ~broken /\ ToolStart
  <2>1. Whole /\ ~failed
    BY <1>3 DEF LeftInv, RingInv, ToolStart
  <2>2. UNCHANGED <<live, m_iNextShmId, head, failed>> /\ walk' = head' /\ tpc' = "walk"
    BY <1>3 DEF ToolStart, ringVars
  <2>3. Whole' /\ Visiting'
    BY <2>1, <2>2 DEF Whole, Visiting, Linked
  <2>. QED
    BY <1>1, <2>1, <2>2, <2>3 DEF LeftInv, Removing
<1>4. CASE ~broken /\ ToolCell /\ IsDel
  <2>1. /\ walk \in live /\ Remove(walk) /\ walk' = m_iNextShmId[walk] /\ head' = head
        /\ tpc = "walk" /\ tpc' = (IF walk' = head THEN "end" ELSE "walk")
        /\ failed' = failed /\ IsDel' = IsDel
    BY <1>4 DEF ToolCell
  <2>2. Removing /\ ~failed
    BY <1>4, <2>1 DEF LeftInv, RingInv
  <2>3. head' \notin live' /\ (walk' # head => Removing')
    BY <1>4, <2>1, <2>2, RemoveStep
  <2>. QED
    BY <1>1, <1>4, <2>1, <2>2, <2>3 DEF LeftInv
<1>5. CASE ~broken /\ ToolCell /\ ~IsDel
  <2>1. /\ UNCHANGED <<live, m_iNextShmId, head, failed, IsDel>> /\ walk' = m_iNextShmId[walk]
        /\ tpc = "walk" /\ tpc' \in {"walk", "end"}
    BY <1>5 DEF ToolCell, ringVars
  <2>2. Visiting /\ ~failed
    BY <1>5, <2>1 DEF LeftInv, RingInv
  <2>3. Visiting' /\ Whole'
    BY <2>1, <2>2 DEF Visiting, Whole, Linked
  <2>. QED
    BY <1>1, <1>5, <2>1, <2>2, <2>3 DEF LeftInv
<1>6. CASE ~broken /\ ToolEnd
  <2>1. /\ UNCHANGED <<live, m_iNextShmId, failed>> /\ tpc = "end" /\ tpc' = "off"
        /\ head' = IF IsDel THEN Absent ELSE head
    BY <1>6 DEF ToolEnd, ToolOver, ringVars
  <2>2. ~failed /\ (~IsDel => Whole)
    BY <1>6, <2>1 DEF LeftInv, RingInv
  <2>3. ~IsDel => Whole'
    BY <2>1, <2>2 DEF Whole, Linked
  <2>. QED
    BY <1>1, <2>1, <2>2, <2>3 DEF LeftInv
<1>7. CASE ~broken /\ ToolFails
  <2>1. tpc = "walk" /\ walk \notin live
    BY <1>7 DEF ToolFails
  <2>2. Removing \/ Visiting
    BY <1>7, <2>1 DEF LeftInv, RingInv
  <2>. QED
    BY <2>1, <2>2 DEF Removing, Visiting, Whole, RestFrom
<1>8. CASE ~broken /\ (ToolNoFile \/ ToolKilled)
  <2>1. /\ UNCHANGED <<live, m_iNextShmId, head, failed>> /\ tpc \in {"walk", "end"} /\ tpc' = "off"
        /\ broken' = (head \notin live)
    BY <1>8 DEF ToolNoFile, ToolKilled, ToolDies, ToolOver, ringVars, RingInv, TypeOK, PastTypeOK
  <2>2. ~failed /\ (head \in live => Whole)
    BY <1>8, <2>1 DEF LeftInv, RingInv, Removing, Visiting, Whole
  <2>3. head \in live => Whole'
    BY <2>1, <2>2 DEF Whole, Linked
  <2>. QED
    BY <1>1, <2>1, <2>2, <2>3 DEF LeftInv
<1>. QED
  BY <1>2, <1>3, <1>4, <1>5, <1>6, <1>7, <1>8 DEF Tool
-----------------------------------------------------------------------------
(* Counting *)

LEMMA LeastOf ==
  ASSUME NEW T \in SUBSET Nat, T # {}
  PROVE  \E x \in T : \A y \in T : x <= y
<1>1. \A x, y \in Nat : y < x => <<y, x>> \in OpToRel(<, Nat)
  BY DEF OpToRel
<1>2. PICK x \in T : \A y \in T : ~(<<y, x>> \in OpToRel(<, Nat))
  BY NatLessThanWellFounded, WFMin
<1>3. \A y \in T : ~(y < x)
  BY <1>1, <1>2
<1>. QED
  BY <1>3

\* What holds of 0, and of i + 1 if of i, holds up to n.
LEMMA Count ==
  ASSUME NEW n \in Nat, NEW S, 0 \in S, \A i \in 0 .. n - 1 : i \in S => i + 1 \in S
  PROVE  0 .. n \subseteq S
<1>. SUFFICES ASSUME (0 .. n) \ S # {} PROVE FALSE
  OBVIOUS
<1>1. (0 .. n) \ S \in SUBSET Nat
  OBVIOUS
<1>2. PICK x \in (0 .. n) \ S : \A y \in (0 .. n) \ S : x <= y
  BY <1>1, LeastOf
<1>3. x # 0
  BY <1>2
<1>4. x - 1 \in 0 .. n - 1 /\ x = (x - 1) + 1 /\ x - 1 \in 0 .. n
  BY <1>3
<1>5. x - 1 \in S
  BY <1>2, <1>4
<1>. QED
  BY <1>2, <1>4, <1>5

\* The definition of Path is one of a function that exists, so it is an equation,
LEMMA PathIs ==
  /\ Path[0] = head
  /\ \A i \in 1 .. MaxBuffCnt :
       Path[i] = IF Path[i - 1] \in live THEN m_iNextShmId[Path[i - 1]] ELSE Zero
<1>. DEFINE Upto(m) ==
       \E h : h = [i \in 0 .. m |-> IF i = 0 THEN head
                     ELSE IF h[i - 1] \in live THEN m_iNextShmId[h[i - 1]] ELSE Zero]
            S == {m \in Nat : Upto(m)}
<1>1. Upto(0)
  <2>. DEFINE h == [i \in 0 .. 0 |-> head]
  <2>. h = [i \in 0 .. 0 |-> IF i = 0 THEN head
              ELSE IF h[i - 1] \in live THEN m_iNextShmId[h[i - 1]] ELSE Zero]
    OBVIOUS
  <2>. QED
    OBVIOUS
<1>2. ASSUME NEW m \in Nat, Upto(m) PROVE Upto(m + 1)
  <2>1. PICK h : h = [i \in 0 .. m |-> IF i = 0 THEN head
                        ELSE IF h[i - 1] \in live THEN m_iNextShmId[h[i - 1]] ELSE Zero]
    BY <1>2
  <2>. DEFINE g == [i \in 0 .. m + 1 |->
                       IF i = m + 1 THEN IF h[m] \in live THEN m_iNextShmId[h[m]] ELSE Zero
                                    ELSE h[i]]
  <2>2. ASSUME NEW i \in 0 .. m + 1
        PROVE  g[i] = IF i = 0 THEN head
                ELSE IF g[i - 1] \in live THEN m_iNextShmId[g[i - 1]] ELSE Zero
    <3>1. CASE i = m + 1
      BY <3>1
    <3>2. CASE i \in 0 .. m
      <4>1. h[i] = IF i = 0 THEN head
                        ELSE IF h[i - 1] \in live THEN m_iNextShmId[h[i - 1]] ELSE Zero
        BY <2>1, <3>2
      <4>2. g[i] = h[i] /\ (i # 0 => g[i - 1] = h[i - 1])
        BY <3>2
      <4>. QED
        BY <4>1, <4>2
    <3>. QED
      BY <3>1, <3>2
  <2>3. g = [i \in 0 .. m + 1 |-> IF i = 0 THEN head
                ELSE IF g[i - 1] \in live THEN m_iNextShmId[g[i - 1]] ELSE Zero]
    BY <2>2
  <2>. QED
    BY <2>3
<1>. HIDE DEF Upto
<1>3. 0 .. MaxBuffCnt \subseteq S
  <2>1. 0 \in S /\ \A i \in 0 .. MaxBuffCnt - 1 : i \in S => i + 1 \in S
    BY <1>1, <1>2
  <2>. HIDE DEF S
  <2>. QED
    BY <2>1, Count, ShmAssumption
<1>4. Upto(MaxBuffCnt)
  BY <1>3, ShmAssumption
<1>5. Path = [i \in 0 .. MaxBuffCnt |-> IF i = 0 THEN head
                ELSE IF Path[i - 1] \in live THEN m_iNextShmId[Path[i - 1]] ELSE Zero]
  BY <1>4, Zenon DEF Path, Upto
<1>. QED
  BY <1>5, ShmAssumption

\* and so is that of FoundIn.
LEMMA FoundInIs ==
  /\ FoundIn[0] = <<>>
  /\ \A i \in 1 .. MaxBuffCnt : FoundIn[i] = FoundIn[i - 1] \o data[Path[i - 1]]
<1>. DEFINE Upto(m) ==
       \E h : h = [i \in 0 .. m |-> IF i = 0 THEN <<>> ELSE h[i - 1] \o data[Path[i - 1]]]
            S == {m \in Nat : Upto(m)}
<1>1. Upto(0)
  <2>. DEFINE h == [i \in 0 .. 0 |-> <<>>]
  <2>. h = [i \in 0 .. 0 |-> IF i = 0 THEN <<>> ELSE h[i - 1] \o data[Path[i - 1]]]
    OBVIOUS
  <2>. QED
    OBVIOUS
<1>2. ASSUME NEW m \in Nat, Upto(m) PROVE Upto(m + 1)
  <2>1. PICK h : h = [i \in 0 .. m |-> IF i = 0 THEN <<>> ELSE h[i - 1] \o data[Path[i - 1]]]
    BY <1>2
  <2>. DEFINE g == [i \in 0 .. m + 1 |-> IF i = m + 1 THEN h[m] \o data[Path[m]] ELSE h[i]]
  <2>2. ASSUME NEW i \in 0 .. m + 1
        PROVE  g[i] = IF i = 0 THEN <<>> ELSE g[i - 1] \o data[Path[i - 1]]
    <3>1. CASE i = m + 1
      <4>1. g[i] = h[m] \o data[Path[m]] /\ i # 0 /\ i - 1 = m /\ g[m] = h[m]
        BY <3>1
      <4>. QED
        BY <4>1
    <3>2. CASE i \in 0 .. m
      <4>1. h[i] = IF i = 0 THEN <<>> ELSE h[i - 1] \o data[Path[i - 1]]
        BY <2>1, <3>2
      <4>2. g[i] = h[i] /\ (i # 0 => g[i - 1] = h[i - 1])
        BY <3>2
      <4>. QED
        BY <4>1, <4>2
    <3>. QED
      BY <3>1, <3>2
  <2>3. g = [i \in 0 .. m + 1 |-> IF i = 0 THEN <<>> ELSE g[i - 1] \o data[Path[i - 1]]]
    BY <2>2
  <2>. QED
    BY <2>3
<1>. HIDE DEF Upto
<1>3. 0 .. MaxBuffCnt \subseteq S
  <2>1. 0 \in S /\ \A i \in 0 .. MaxBuffCnt - 1 : i \in S => i + 1 \in S
    BY <1>1, <1>2
  <2>. HIDE DEF S
  <2>. QED
    BY <2>1, Count, ShmAssumption
<1>4. Upto(MaxBuffCnt)
  BY <1>3, ShmAssumption
<1>5. FoundIn = [i \in 0 .. MaxBuffCnt |->
                   IF i = 0 THEN <<>> ELSE FoundIn[i - 1] \o data[Path[i - 1]]]
  BY <1>4, Zenon DEF FoundIn, Upto
<1>. QED
  BY <1>5, ShmAssumption
-----------------------------------------------------------------------------
(* The records in the segments *)

\* s are the records lo + 1, ..., hi.
Span(s, lo, hi) == Len(s) = hi - lo /\ \A k \in 1 .. Len(s) : s[k] = lo + k

LEMMA SpanJoin ==
  ASSUME NEW s \in Seq(Records), NEW t \in Seq(Records), NEW lo \in Nat, NEW mid \in Nat,
         NEW hi \in Nat, Span(s, lo, mid), Span(t, mid, hi)
  PROVE  s \o t \in Seq(Records) /\ Span(s \o t, lo, hi)
<1>1. Len(s \o t) = Len(s) + Len(t) /\ Len(s) \in Nat /\ Len(t) \in Nat
  OBVIOUS
<1>2. ASSUME NEW k \in 1 .. Len(s \o t) PROVE (s \o t)[k] = lo + k
  <2>1. CASE k <= Len(s)
    <3>1. k \in 1 .. Len(s) /\ (s \o t)[k] = s[k]
      BY <1>1, <2>1
    <3>. QED
      BY <3>1 DEF Span
  <2>2. CASE k > Len(s)
    <3>1. k - Len(s) \in 1 .. Len(t) /\ (s \o t)[k] = t[k - Len(s)]
      BY <1>1, <2>2
    <3>2. t[k - Len(s)] = mid + (k - Len(s)) /\ Len(s) = mid - lo
      BY <3>1 DEF Span
    <3>. QED
      BY <1>1, <3>1, <3>2
  <2>. QED
    BY <1>1, <2>1, <2>2
<1>. QED
  BY <1>1, <1>2 DEF Span

LEMMA SpanAppend ==
  ASSUME NEW s \in Seq(Records), NEW lo \in Nat, NEW hi \in Nat, Span(s, lo, hi)
  PROVE  Span(Append(s, hi + 1), lo, hi + 1)
<1>1. Len(Append(s, hi + 1)) = Len(s) + 1 /\ Len(s) = hi - lo /\ Len(s) \in Nat
  BY DEF Span
<1>2. ASSUME NEW k \in 1 .. Len(s) + 1 PROVE Append(s, hi + 1)[k] = lo + k
  BY <1>1, <1>2 DEF Span
<1>. QED
  BY <1>1, <1>2 DEF Span

LEMMA SpanPart ==
  ASSUME NEW s \in Seq(Records), NEW lo \in Nat, NEW hi \in Nat, Span(s, lo, hi),
         NEW k \in 0 .. Len(s)
  PROVE  SubSeq(s, 1, k) \in Seq(Records) /\ Span(SubSeq(s, 1, k), lo, lo + k)
<1>1. /\ SubSeq(s, 1, k) \in Seq(Records) /\ Len(SubSeq(s, 1, k)) = k
      /\ \A i \in 1 .. k : SubSeq(s, 1, k)[i] = s[i]
  BY PartOf
<1>2. \A i \in 1 .. k : s[i] = lo + i
  BY DEF Span
<1>3. Len(SubSeq(s, 1, k)) = (lo + k) - lo
  BY <1>1
<1>. QED
  BY <1>1, <1>2, <1>3 DEF Span

LEMMA SpanNone == \A lo \in Nat : Span(<<>>, lo, lo)
  BY DEF Span

\* The successors, that of m_pCurBuf being the cell after the new one while the
\* new one is linked
NextOf == IF ppc = "linked" THEN [m_iNextShmId EXCEPT ![m_pCurBuf] = nextBuf] ELSE m_iNextShmId

\* n segments from the head on, and the number of records appended before each
Round(n, P, B) ==
  /\ n \in 2 .. MaxBuffCnt - 1
  /\ P \in [0 .. n -> Segs] /\ P[0] = head /\ P[n] = head
  /\ \A i, j \in 0 .. n - 1 : P[i] = P[j] => i = j
  /\ B \in [0 .. n -> 0 .. appended] /\ B[n] = appended
  /\ \A i \in 0 .. n - 1 : B[i] <= B[i + 1]

\* The segments from the i-th on are there.
Rest(i, n, P, B, next) ==
  \A j \in i .. n - 1 :
    P[j] \in live /\ next[P[j]] = P[j + 1] /\ Span(data[P[j]], B[j], B[j + 1])

\* The log file holds the records before those of P[0], and those of P[0] as well
\* once they are written, or some of them if the server died in Persist.
Logged(B) ==
  \/ short
  \/ IF again THEN \E m \in B[0] .. B[1] : Span(log, 0, m)
              ELSE Span(log, 0, IF cpc = "clear" THEN B[1] ELSE B[0])

\* Where producers and consumer are: the cells before c, that of the producers,
\* are full, but for the one that the consumer leaves; the cells after it are empty.
Position(n, P, B, c) ==
  /\ c \in 0 .. n - 1
  /\ P[c] = m_pCurBuf
  /\ \A i \in c + 1 .. n : B[i] = appended
  /\ \A i \in 0 .. n - 1 : P[i].key <= n
  /\ \A s \in full : s.key <= n
  /\ IF cpc = "move" THEN P[1] = m_pPrstBuf /\ B[0] = B[1] ELSE P[0] = m_pPrstBuf
  /\ cpc # "wait" => c > 0
  /\ IF ppc = "idle"
       THEN /\ n = m_iBuffCnt - 1
            /\ \A i \in 0 .. n - 1 : P[i] \in full <=> i < c /\ (cpc = "move" => i > 0)
       ELSE /\ n = m_iBuffCnt - 2 /\ c = n - 1 /\ cpc # "move"
            /\ nextBuf = head /\ data[SegOf(m_iBuffCnt - 1)] = <<>>
            /\ \A i \in 0 .. n - 1 : P[i] \in full

Chained(n, P, B, c) ==
  Round(n, P, B) /\ Rest(0, n, P, B, NextOf) /\ Logged(B) /\ Position(n, P, B, c)

Kept(n, P, B) == Round(n, P, B) /\ Rest(0, n, P, B, m_iNextShmId) /\ Logged(B)

Read(n, P, B, i) ==
  /\ i \in 0 .. n
  /\ Round(n, P, B) /\ Rest(i, n, P, B, m_iNextShmId) /\ Logged(B)
  /\ B[1] <= B[0] + CellCap
  /\ toolShort \/ Span(found, B[0], B[i])
  /\ IF tpc = "walk" THEN i < n /\ walk = P[i] ELSE i = n

RunChain == spc = "run" => ~again /\ \E n, P, B, c : Chained(n, P, B, c)
NewCells == spc = "publish" => data[SegOf(0)] = <<>> /\ data[SegOf(1)] = <<>>
LeftChain ==
  ~broken /\ spc \in {"down", "walk"} /\ head \in live => \E n, P, B : Kept(n, P, B)
ToolChain == ~broken /\ tpc # "off" => \E n, P, B, i : Read(n, P, B, i)
SavedInv == saved =>
  /\ spc # "run" /\ tpc = "off"
  /\ ~broken /\ ~toolShort => Completes(Saved)
Fits == \A s \in Segs : Len(data[s]) <= CellCap
FoundInv == ~have_data => found = <<>>

ChainInv ==
  RunChain /\ NewCells /\ LeftChain /\ ToolChain /\ SavedInv /\ Fits /\ FoundInv

-----------------------------------------------------------------------------
(* Producers *)

\* A record is put into the c-th segment, which no full one follows.
LEMMA ChainAppend ==
  ASSUME RingInv, spc = "run", appended < MaxRecords,
         NEW n, NEW P, NEW B, Round(n, P, B), Rest(0, n, P, B, m_iNextShmId),
         NEW c \in 0 .. n - 1, \A i \in c + 1 .. n : B[i] = appended,
         AppendTo(P[c]), UNCHANGED <<live, m_iNextShmId, head>>
  PROVE  \E C : /\ Round(n, P, C)' /\ Rest(0, n, P, C, m_iNextShmId)'
                /\ C[0] = B[0] /\ (c > 0 => C[1] = B[1])
                /\ \A i \in c + 1 .. n : C[i] = appended'
<1>. PICK C : C = [i \in 0 .. n |-> IF i > c THEN appended + 1 ELSE B[i]]
  OBVIOUS
<1>1. appended' = appended + 1 /\ data' = [data EXCEPT ![P[c]] = Append(data[P[c]], appended + 1)]
  BY DEF AppendTo
<1>2. appended \in Nat /\ data \in [Segs -> Seq(Records)]
  BY ShmAssumption DEF RingInv, TypeOK, RingTypeOK, PastTypeOK
<1>3. /\ n \in Nat /\ n >= 2 /\ P \in [0 .. n -> Segs] /\ B \in [0 .. n -> 0 .. appended]
      /\ B[n] = appended /\ \A i, j \in 0 .. n - 1 : P[i] = P[j] => i = j
  BY ShmAssumption DEF Round
<1>4. /\ appended' = appended + 1 /\ appended \in Nat /\ data \in [Segs -> Seq(Records)]
      /\ n \in Nat /\ n >= 2 /\ P \in [0 .. n -> Segs] /\ B \in [0 .. n -> 0 .. appended]
      /\ B[n] = appended
  BY <1>1, <1>2, <1>3
<1>5. /\ C \in [0 .. n -> 0 .. appended'] /\ C[n] = appended' /\ C[0] = B[0]
      /\ (c > 0 => C[1] = B[1]) /\ \A i \in c + 1 .. n : C[i] = appended'
  BY <1>4
<1>6. \A i \in 0 .. n - 1 : C[i] <= C[i + 1]
  BY <1>4 DEF Round
<1>7. Round(n, P, C)'
  BY <1>4, <1>5, <1>6 DEF Round
<1>8. ASSUME NEW j \in 0 .. n - 1 PROVE Span(data'[P[j]], C[j], C[j + 1])
  <2>1. Span(data[P[j]], B[j], B[j + 1]) /\ P[j] \in Segs /\ data[P[j]] \in Seq(Records)
    <3>1. Span(data[P[j]], B[j], B[j + 1])
      BY DEF Rest
    <3>2. P[j] \in Segs
      BY <1>4
    <3>. QED
      BY <1>4, <3>1, <3>2
  <2>2. CASE j = c
    <3>1. B[j + 1] = appended /\ C[j + 1] = appended + 1 /\ C[j] = B[j] /\ B[j] \in Nat
      BY <1>4, <2>2
    <3>2. data'[P[j]] = Append(data[P[j]], appended + 1)
      BY <1>1, <1>2, <2>1, <2>2
    <3>3. Span(Append(data[P[j]], appended + 1), B[j], appended + 1)
      BY <1>4, <2>1, <3>1, SpanAppend
    <3>. QED
      BY <3>1, <3>2, <3>3
  <2>3. CASE j < c
    <3>1. C[j] = B[j] /\ C[j + 1] = B[j + 1]
      BY <1>4, <2>3
    <3>2. data'[P[j]] = data[P[j]]
      BY <1>1, <1>2, <1>3, <2>1, <2>3
    <3>. QED
      BY <2>1, <3>1, <3>2
  <2>4. CASE j > c
    <3>1. /\ B[j] = appended /\ B[j + 1] = appended
          /\ C[j] = appended + 1 /\ C[j + 1] = appended + 1
      BY <1>4, <2>4
    <3>2. data'[P[j]] = data[P[j]]
      BY <1>1, <1>2, <1>3, <2>1, <2>4
    <3>3. Len(data[P[j]]) = 0
      BY <1>2, <2>1, <3>1 DEF Span
    <3>. QED
      BY <1>2, <3>1, <3>2, <3>3 DEF Span
  <2>. QED
    BY <2>2, <2>3, <2>4
<1>9. Rest(0, n, P, C, m_iNextShmId)'
  BY <1>8 DEF Rest
<1>. QED
  BY <1>5, <1>7, <1>9

\* A chain in types
LEMMA RoundFacts ==
  ASSUME RingInv, NEW n, NEW P, NEW B, Round(n, P, B)
  PROVE  /\ n \in Nat /\ n >= 2 /\ P \in [0 .. n -> Segs] /\ B \in [0 .. n -> 0 .. appended]
         /\ \A i \in 0 .. n : B[i] \in Nat
         /\ appended \in Nat
         /\ head \in Segs
         /\ \A i, j \in 0 .. n - 1 : P[i] = P[j] => i = j
<1>1. appended \in Nat
  BY ShmAssumption DEF RingInv, TypeOK, PastTypeOK
<1>2. /\ n \in Nat /\ n >= 2 /\ P \in [0 .. n -> Segs] /\ B \in [0 .. n -> 0 .. appended]
      /\ P[0] = head /\ \A i, j \in 0 .. n - 1 : P[i] = P[j] => i = j
  BY ShmAssumption DEF Round
<1>. QED
  BY <1>1, <1>2

LEMMA AppendToCurChain ==
  ASSUME RingInv, RunChain, AppendToCur
  PROVE  RunChain'
<1>1. /\ spc = "run" /\ ppc = "idle" /\ cpc # "move" /\ appended < MaxRecords
      /\ AppendTo(m_pCurBuf)
      /\ UNCHANGED <<live, m_iNextShmId, m_pCurBuf, m_iBuffCnt, full, ppc, nextBuf, head,
                     m_pPrstBuf, cpc, log, short, again, life>>
  BY DEF AppendToCur, Produces, ProducerFrame, pastVars
<1>2. ~again /\ \E n, P, B, c : Chained(n, P, B, c)
  BY <1>1 DEF RunChain
<1>3. PICK n, P, B, c : Chained(n, P, B, c)
  BY <1>2
<1>4. Round(n, P, B) /\ Rest(0, n, P, B, m_iNextShmId) /\ Logged(B) /\ Position(n, P, B, c)
  BY <1>1, <1>3 DEF Chained, NextOf
<1>5. c \in 0 .. n - 1 /\ P[c] = m_pCurBuf /\ \A i \in c + 1 .. n : B[i] = appended
  BY <1>4 DEF Position
<1>6. PICK C : /\ Round(n, P, C)' /\ Rest(0, n, P, C, m_iNextShmId)'
               /\ C[0] = B[0] /\ (c > 0 => C[1] = B[1])
               /\ \A i \in c + 1 .. n : C[i] = appended'
  BY <1>1, <1>4, <1>5, ChainAppend
<1>7. Logged(C)'
  BY <1>1, <1>2, <1>4, <1>6 DEF Logged, Position
<1>8. Position(n, P, C, c)'
  BY <1>1, <1>4, <1>5, <1>6 DEF Position
<1>9. Chained(n, P, C, c)'
  BY <1>1, <1>6, <1>7, <1>8 DEF Chained, NextOf
<1>. QED
  BY <1>1, <1>2, <1>9 DEF RunChain

LEMMA MoveOnChain ==
  ASSUME RingInv, RunChain, MoveOn
  PROVE  RunChain'
<1>1. /\ spc = "run" /\ ppc = "idle" /\ cpc # "move" /\ appended < MaxRecords
      /\ m_iNextShmId[m_pCurBuf] \notin full
      /\ m_pCurBuf' = m_iNextShmId[m_pCurBuf] /\ full' = full \cup {m_pCurBuf}
      /\ AppendTo(m_pCurBuf')
      /\ UNCHANGED <<live, m_iNextShmId, m_iBuffCnt, ppc, nextBuf, head,
                     m_pPrstBuf, cpc, log, short, again, life>>
  BY DEF MoveOn, Produces, ProducerFrame, pastVars
<1>2. ~again /\ \E n, P, B, c : Chained(n, P, B, c)
  BY <1>1 DEF RunChain
<1>3. PICK n, P, B, c : Chained(n, P, B, c)
  BY <1>2
<1>4. Round(n, P, B) /\ Rest(0, n, P, B, m_iNextShmId) /\ Logged(B) /\ Position(n, P, B, c)
  BY <1>1, <1>3 DEF Chained, NextOf
<1>5. /\ c \in 0 .. n - 1 /\ P[c] = m_pCurBuf /\ \A i \in c + 1 .. n : B[i] = appended
      /\ \A i \in 0 .. n - 1 : P[i] \in full <=> i < c
  BY <1>1, <1>4 DEF Position
<1>6. n \in Nat /\ n >= 2 /\ P[0] = head /\ P[n] = head
      /\ \A i, j \in 0 .. n - 1 : P[i] = P[j] => i = j
  BY <1>4, RoundFacts DEF Round
<1>7. m_pCurBuf' = P[c + 1]
  BY <1>1, <1>4, <1>5 DEF Rest
<1>8. c + 1 \in 0 .. n - 1
  <2>1. CASE c = n - 1
    <3>1. P[c + 1] = P[0] /\ 0 < c
      BY <1>6, <2>1
    <3>. QED
      BY <1>1, <1>5, <1>6, <1>7, <3>1
  <2>. QED
    BY <1>5, <1>6, <2>1
<1>9. PICK C : /\ Round(n, P, C)' /\ Rest(0, n, P, C, m_iNextShmId)'
               /\ C[0] = B[0] /\ (c + 1 > 0 => C[1] = B[1])
               /\ \A i \in (c + 1) + 1 .. n : C[i] = appended'
  <2>1. \A i \in (c + 1) + 1 .. n : B[i] = appended
    BY <1>5, <1>6
  <2>. QED
    BY <1>1, <1>4, <1>7, <1>8, <2>1, ChainAppend
<1>10. Logged(C)'
  BY <1>1, <1>2, <1>4, <1>5, <1>9 DEF Logged, Position
<1>11. \A i \in 0 .. n - 1 : P[i] \in full' <=> i < c + 1
  BY <1>1, <1>5, <1>6
<1>12. \A s \in full' : s.key <= n
  BY <1>1, <1>4, <1>5 DEF Position
<1>13. Position(n, P, C, c + 1)'
  BY <1>1, <1>4, <1>7, <1>8, <1>9, <1>11, <1>12 DEF Position
<1>14. Chained(n, P, C, c + 1)'
  BY <1>1, <1>9, <1>10, <1>13 DEF Chained, NextOf
<1>. QED
  BY <1>1, <1>2, <1>14 DEF RunChain

LEMMA MakeCellChain ==
  ASSUME RingInv, RunChain, MakeCell
  PROVE  RunChain'
<1>. PICK new : new = SegOf(m_iBuffCnt)
  OBVIOUS
<1>1. /\ spc = "run" /\ ppc = "idle" /\ ppc' = "made" /\ cpc # "move"
      /\ m_iNextShmId[m_pCurBuf] \in full /\ m_iBuffCnt < MaxBuffCnt
      /\ full' = full \cup {m_pCurBuf} /\ nextBuf' = m_iNextShmId[m_pCurBuf]
      /\ live' = live \cup {new}
      /\ m_iNextShmId' = [m_iNextShmId EXCEPT ![new] = Zero]
      /\ data' = [data EXCEPT ![new] = <<>>]
      /\ m_iBuffCnt' = m_iBuffCnt + 1
      /\ UNCHANGED <<m_pCurBuf, appended, head, m_pPrstBuf, cpc, log, short, again, life, spc>>
  BY DEF MakeCell, Produces, ProducerFrame, pastVars
<1>2. ~again /\ \E n, P, B, c : Chained(n, P, B, c)
  BY <1>1 DEF RunChain
<1>3. PICK n, P, B, c : Chained(n, P, B, c)
  BY <1>2
<1>4. Round(n, P, B) /\ Rest(0, n, P, B, m_iNextShmId) /\ Logged(B) /\ Position(n, P, B, c)
  BY <1>1, <1>3 DEF Chained, NextOf
<1>5. /\ c \in 0 .. n - 1 /\ P[c] = m_pCurBuf /\ n = m_iBuffCnt - 1
      /\ \A i \in 0 .. n - 1 : P[i] \in full <=> i < c
      /\ \A i \in 0 .. n - 1 : P[i].key <= n
  BY <1>1, <1>4 DEF Position
<1>6. /\ n \in Nat /\ n >= 2 /\ P[0] = head /\ P[n] = head
      /\ P \in [0 .. n -> Segs] /\ \A i, j \in 0 .. n - 1 : P[i] = P[j] => i = j
  BY <1>4, RoundFacts DEF Round
<1>7. m_iNextShmId[m_pCurBuf] = P[c + 1]
  BY <1>4, <1>5 DEF Rest
<1>8. c = n - 1 /\ nextBuf' = head
  <2>1. CASE c + 1 \in 0 .. n - 1
    BY <1>1, <1>5, <1>7, <2>1
  <2>. QED
    BY <1>1, <1>5, <1>6, <1>7, <2>1
<1>9. new \in Segs /\ new.key = m_iBuffCnt /\ m_iBuffCnt \in Nat
  <2>1. m_iBuffCnt \in 0 .. MaxBuffCnt - 1 /\ life <= MaxLives
    BY <1>1, ShmAssumption DEF RingInv, TypeOK, ProcTypeOK
  <2>. QED
    BY <2>1, SegKey DEF RingInv
<1>10. \A i \in 0 .. n - 1 : P[i] # new
  BY <1>5, <1>6, <1>9
<1>11. m_iNextShmId \in [Segs -> Ids] /\ data \in [Segs -> Seq(Records)]
  BY DEF RingInv, TypeOK, RingTypeOK
<1>12. \A i \in 0 .. n - 1 : m_iNextShmId'[P[i]] = m_iNextShmId[P[i]] /\ data'[P[i]] = data[P[i]]
  BY <1>1, <1>6, <1>10, <1>11
<1>13. Round(n, P, B)'
  BY <1>1, <1>4 DEF Round
<1>14. Rest(0, n, P, B, m_iNextShmId)'
  BY <1>1, <1>4, <1>12 DEF Rest
<1>15. Logged(B)'
  BY <1>1, <1>4 DEF Logged
<1>16. (data[SegOf(m_iBuffCnt - 1)] = <<>>)'
  <2>1. PICK k : k = m_iBuffCnt
    OBVIOUS
  <2>2. m_iBuffCnt' - 1 = k
    BY <1>1, <1>9, <2>1
  <2>3. OneOfAKey' /\ new \in live' /\ new.key = k
    BY <1>1, <1>9, <2>1, KeysStep DEF Next, Run
  <2>4. SegOf(k)' = new
    BY <2>3 DEF SegOf, OneOfAKey
  <2>. QED
    BY <1>1, <1>9, <1>11, <2>2, <2>4
<1>17. /\ \A i \in 0 .. n - 1 : P[i] \in full'
       /\ \A s \in full' : s.key <= n
  BY <1>1, <1>4, <1>5, <1>6, <1>8 DEF Position
<1>18. Position(n, P, B, c)'
  BY <1>1, <1>4, <1>5, <1>8, <1>9, <1>16, <1>17 DEF Position
<1>19. Chained(n, P, B, c)'
  BY <1>1, <1>13, <1>14, <1>15, <1>18 DEF Chained, NextOf
<1>. QED
  BY <1>1, <1>2, <1>19 DEF RunChain

LEMMA LinkCellChain ==
  ASSUME RingInv, RunChain, LinkCell
  PROVE  RunChain'
<1>1. /\ spc = "run" /\ ppc = "made" /\ ppc' = "linked"
      /\ m_iNextShmId' = [m_iNextShmId EXCEPT ![m_pCurBuf] = SegOf(m_iBuffCnt - 1)]
      /\ UNCHANGED <<live, data, m_pCurBuf, m_iBuffCnt, full, nextBuf, appended, head,
                     m_pPrstBuf, cpc, log, short, again, life, spc>>
  BY DEF LinkCell, ProducerFrame, pastVars
<1>2. ~again /\ \E n, P, B, c : Chained(n, P, B, c)
  BY <1>1 DEF RunChain
<1>3. PICK n, P, B, c : Chained(n, P, B, c)
  BY <1>2
<1>4. nextBuf = m_iNextShmId[m_pCurBuf] /\ m_iNextShmId \in [Segs -> Ids]
  BY <1>1 DEF RingInv, RunInv, Running, TypeOK, RingTypeOK
<1>5. NextOf' = NextOf
  BY <1>1, <1>4 DEF NextOf
<1>6. Round(n, P, B)' /\ Rest(0, n, P, B, NextOf)' /\ Logged(B)'
  BY <1>1, <1>3, <1>5 DEF Chained, Round, Rest, Logged
<1>7. Position(n, P, B, c)'
  BY <1>1, <1>3 DEF Chained, Position, SegOf
<1>8. Chained(n, P, B, c)'
  BY <1>6, <1>7 DEF Chained
<1>. QED
  BY <1>1, <1>2, <1>8 DEF RunChain

LEMMA CloseRingChain ==
  ASSUME RingInv, RunChain, CloseRing
  PROVE  RunChain'
<1>. PICK new : new = SegOf(m_iBuffCnt - 1)
  OBVIOUS
<1>1. /\ spc = "run" /\ ppc = "linked" /\ ppc' = "idle"
      /\ m_pCurBuf' = new
      /\ m_iNextShmId' = [m_iNextShmId EXCEPT ![new] = nextBuf]
      /\ AppendTo(new)
      /\ UNCHANGED <<live, m_iBuffCnt, full, head, m_pPrstBuf, cpc, log, short, again, life, spc>>
  BY DEF CloseRing, ProducerFrame, pastVars
<1>2. ~again /\ \E n, P, B, c : Chained(n, P, B, c)
  BY <1>1 DEF RunChain
<1>3. PICK n, P, B, c : Chained(n, P, B, c)
  BY <1>2
<1>4. Round(n, P, B) /\ Rest(0, n, P, B, NextOf) /\ Logged(B) /\ Position(n, P, B, c)
  BY <1>3 DEF Chained
<1>5. /\ c \in 0 .. n - 1 /\ P[c] = m_pCurBuf /\ n = m_iBuffCnt - 2 /\ c = n - 1 /\ cpc # "move"
      /\ nextBuf = head /\ data[new] = <<>> /\ P[0] = m_pPrstBuf
      /\ \A i \in 0 .. n - 1 : P[i] \in full
      /\ \A i \in 0 .. n - 1 : P[i].key <= n
      /\ \A s \in full : s.key <= n
  BY <1>1, <1>4 DEF Position
<1>6. /\ n \in Nat /\ n >= 2 /\ P[0] = head /\ P[n] = head /\ B[n] = appended
      /\ P \in [0 .. n -> Segs] /\ \A i, j \in 0 .. n - 1 : P[i] = P[j] => i = j
      /\ B \in [0 .. n -> 0 .. appended] /\ appended \in Nat
      /\ \A i \in 0 .. n - 1 : B[i] <= B[i + 1]
  BY <1>4, RoundFacts DEF Round
<1>7. new \in live /\ new \in Segs /\ new.key = m_iBuffCnt - 1
  BY <1>1, LiveSegs
<1>8. m_iNextShmId[m_pCurBuf] = new
  BY <1>1 DEF RingInv, RunInv, Running
<1>9. /\ m_iNextShmId \in [Segs -> Ids] /\ data \in [Segs -> Seq(Records)]
      /\ m_iBuffCnt \in 3 .. MaxBuffCnt
  BY DEF RingInv, TypeOK, RingTypeOK, ProcTypeOK
<1>10. new \notin full /\ \A i \in 0 .. n - 1 : P[i] # new
  <2>1. new.key > n
    BY <1>5, <1>7, <1>9
  <2>2. ~(new.key <= n)
    BY <1>6, <1>7, <1>9, <2>1
  <2>. QED
    BY <1>5, <2>2
<1>11. appended' = appended + 1 /\ data' = [data EXCEPT ![new] = Append(data[new], appended + 1)]
  BY <1>1 DEF AppendTo
<1>12. PICK m : m = n + 1
  OBVIOUS
<1>13. PICK Q : Q = [i \in 0 .. m |-> IF i < n THEN P[i] ELSE IF i = n THEN new ELSE head]
  OBVIOUS
<1>14. PICK C : C = [i \in 0 .. m |-> IF i <= n THEN B[i] ELSE appended + 1]
  OBVIOUS
<1>15. /\ m \in 2 .. MaxBuffCnt - 1 /\ m = m_iBuffCnt - 1 /\ m - 1 = n
  BY <1>5, <1>6, <1>9, <1>12, ShmAssumption
<1>16. /\ Q \in [0 .. m -> Segs] /\ Q[0] = head /\ Q[m] = head /\ Q[n] = new
       /\ \A i \in 0 .. n - 1 : Q[i] = P[i]
  BY <1>6, <1>7, <1>12, <1>13
<1>17. ASSUME NEW i \in 0 .. m - 1, NEW j \in 0 .. m - 1, Q[i] = Q[j]
       PROVE  i = j
  <2>1. \A k \in 0 .. m - 1 : k = n \/ k \in 0 .. n - 1
    BY <1>6, <1>15
  <2>2. CASE i \in 0 .. n - 1 /\ j \in 0 .. n - 1
    BY <1>6, <1>16, <1>17, <2>2
  <2>3. CASE i = n /\ j \in 0 .. n - 1
    BY <1>10, <1>16, <1>17, <2>3
  <2>4. CASE i \in 0 .. n - 1 /\ j = n
    BY <1>10, <1>16, <1>17, <2>4
  <2>. QED
    BY <2>1, <2>2, <2>3, <2>4
<1>18. /\ C \in [0 .. m -> 0 .. appended'] /\ C[m] = appended' /\ C[n] = appended
       /\ \A i \in 0 .. n : C[i] = B[i]
  BY <1>6, <1>11, <1>12, <1>14
<1>19. ASSUME NEW i \in 0 .. m - 1 PROVE C[i] <= C[i + 1]
  <2>1. CASE i = n
    BY <1>6, <1>11, <1>12, <1>18, <2>1
  <2>2. CASE i \in 0 .. n - 1
    BY <1>6, <1>18, <2>2
  <2>. QED
    BY <1>15, <2>1, <2>2
<1>20. Round(m, Q, C)'
  BY <1>1, <1>15, <1>16, <1>17, <1>18, <1>19 DEF Round
<1>21. ASSUME NEW j \in 0 .. m - 1
       PROVE  /\ Q[j] \in live /\ m_iNextShmId'[Q[j]] = Q[j + 1]
              /\ Span(data'[Q[j]], C[j], C[j + 1])
  <2>1. CASE j = n
    <3>1. Q[j] = new /\ Q[j + 1] = head /\ C[j] = appended /\ C[j + 1] = appended + 1
      BY <1>11, <1>12, <1>16, <1>18, <2>1
    <3>2. data'[new] = Append(<<>>, appended + 1)
      BY <1>5, <1>7, <1>9, <1>11
    <3>3. <<>> \in Seq(Records) /\ Span(<<>>, appended, appended)
      BY <1>6, SpanNone
    <3>4. Span(Append(<<>>, appended + 1), appended, appended + 1)
      BY <1>6, <3>3, SpanAppend
    <3>5. m_iNextShmId'[new] = head
      BY <1>1, <1>5, <1>7, <1>9
    <3>. QED
      BY <1>7, <3>1, <3>2, <3>4, <3>5
  <2>2. CASE j \in 0 .. n - 1
    <3>1. Q[j] = P[j] /\ P[j] \in Segs /\ P[j] # new /\ C[j] = B[j] /\ C[j + 1] = B[j + 1]
      BY <1>6, <1>10, <1>16, <1>18, <2>2
    <3>2. P[j] \in live /\ NextOf[P[j]] = P[j + 1] /\ Span(data[P[j]], B[j], B[j + 1])
      BY <1>4, <2>2 DEF Rest
    <3>3. data'[P[j]] = data[P[j]] /\ m_iNextShmId'[P[j]] = m_iNextShmId[P[j]]
      BY <1>1, <1>9, <1>11, <3>1
    <3>4. m_iNextShmId[P[j]] = Q[j + 1]
      <4>1. CASE j = n - 1
        BY <1>5, <1>6, <1>8, <1>16, <4>1
      <4>2. CASE j # n - 1
        <5>1. P[j] # m_pCurBuf
          BY <1>5, <1>6, <2>2, <4>2
        <5>2. m_iNextShmId[P[j]] = NextOf[P[j]]
          BY <1>9, <3>1, <5>1 DEF NextOf
        <5>3. j + 1 \in 0 .. n - 1
          BY <1>6, <2>2, <4>2
        <5>. QED
          BY <1>16, <3>2, <5>2, <5>3
      <4>. QED
        BY <4>1, <4>2
    <3>. QED
      BY <3>1, <3>2, <3>3, <3>4
  <2>. QED
    BY <1>15, <2>1, <2>2
<1>22. Rest(0, m, Q, C, m_iNextShmId)'
  BY <1>1, <1>21 DEF Rest
<1>23. C[0] = B[0] /\ C[1] = B[1]
  BY <1>6, <1>18
<1>24. Logged(C)'
  BY <1>1, <1>4, <1>23 DEF Logged
<1>25. \A i \in 0 .. m - 1 : Q[i] \in full <=> i < n
  BY <1>5, <1>10, <1>15, <1>16
<1>26. /\ \A i \in 0 .. m - 1 : Q[i].key <= m
       /\ \A s \in full : s.key <= m
  <2>1. \A s \in Segs : s.key \in Nat
    BY ShmAssumption DEF Segs
  <2>2. \A s \in full : s.key <= m
    <3>1. full \subseteq Segs
      BY DEF RingInv, TypeOK, ProcTypeOK
    <3>. QED
      BY <1>5, <1>6, <1>12, <2>1, <3>1
  <2>3. ASSUME NEW i \in 0 .. m - 1 PROVE Q[i].key <= m
    <3>1. CASE i = n
      BY <1>7, <1>9, <1>15, <1>16, <3>1
    <3>2. CASE i \in 0 .. n - 1
      <4>1. Q[i] = P[i] /\ P[i] \in Segs /\ P[i].key <= n
        BY <1>5, <1>6, <1>16, <3>2
      <4>2. Q[i].key <= n /\ Q[i].key \in Nat
        BY <2>1, <4>1
      <4>. QED
        BY <1>6, <1>12, <4>2
    <3>. QED
      BY <1>15, <3>1, <3>2
  <2>. QED
    BY <2>2, <2>3
<1>27. n \in 0 .. m - 1 /\ n > 0 /\ \A i \in n + 1 .. m : C[i] = appended'
  BY <1>6, <1>12, <1>18
<1>28. Position(m, Q, C, n)'
  BY <1>1, <1>5, <1>6, <1>15, <1>16, <1>25, <1>26, <1>27 DEF Position
<1>29. Chained(m, Q, C, n)'
  BY <1>1, <1>20, <1>22, <1>24, <1>28 DEF Chained, NextOf
<1>. QED
  BY <1>1, <1>2, <1>29 DEF RunChain
-----------------------------------------------------------------------------
(* The consumer *)

LEMMA TakeChain ==
  ASSUME RingInv, RunChain, Take
  PROVE  RunChain'
<1>1. /\ spc = "run" /\ ppc = "idle" /\ cpc = "wait" /\ cpc' = "persist"
      /\ full' = full \cup {m_pPrstBuf}
      /\ m_pCurBuf' = IF m_pPrstBuf \in full THEN m_pCurBuf ELSE m_iNextShmId[m_pCurBuf]
      /\ UNCHANGED <<data, head, m_pPrstBuf, log, live, m_iNextShmId, spc, m_iBuffCnt, ppc,
                     nextBuf, appended, short, again>>
  BY DEF Take, ConsumerFrame, pastVars
<1>2. ~again /\ \E n, P, B, c : Chained(n, P, B, c)
  BY <1>1 DEF RunChain
<1>3. PICK n, P, B, c : Chained(n, P, B, c)
  BY <1>2
<1>4. Round(n, P, B) /\ Rest(0, n, P, B, m_iNextShmId) /\ Logged(B) /\ Position(n, P, B, c)
  BY <1>1, <1>3 DEF Chained, NextOf
<1>5. /\ c \in 0 .. n - 1 /\ P[c] = m_pCurBuf /\ \A i \in c + 1 .. n : B[i] = appended
      /\ \A i \in 0 .. n - 1 : P[i] \in full <=> i < c
      /\ P[0] = m_pPrstBuf /\ \A i \in 0 .. n - 1 : P[i].key <= n
  BY <1>1, <1>4 DEF Position
<1>6. n \in Nat /\ n >= 2 /\ \A i, j \in 0 .. n - 1 : P[i] = P[j] => i = j
  BY <1>4, RoundFacts
<1>7. Round(n, P, B)' /\ Rest(0, n, P, B, m_iNextShmId)' /\ Logged(B)'
  BY <1>1, <1>4 DEF Round, Rest, Logged
<1>8. \A s \in full' : s.key <= n
  BY <1>1, <1>4, <1>5, <1>6 DEF Position
<1>9. PICK d : d = IF c = 0 THEN 1 ELSE c
  OBVIOUS
<1>10. /\ d \in 0 .. n - 1 /\ d > 0 /\ \A i \in d + 1 .. n : B[i] = appended
       /\ \A i \in 0 .. n - 1 : P[i] \in full' <=> i < d
  BY <1>1, <1>5, <1>6, <1>9
<1>11. P[d] = m_pCurBuf'
  <2>1. CASE c = 0
    <3>1. m_iNextShmId[P[0]] = P[1]
      BY <1>4, <1>6 DEF Rest
    <3>. QED
      BY <1>1, <1>5, <1>6, <1>9, <2>1, <3>1
  <2>2. CASE c # 0
    BY <1>1, <1>5, <1>6, <1>9, <2>2
  <2>. QED
    BY <2>1, <2>2
<1>12. Position(n, P, B, d)'
  BY <1>1, <1>4, <1>5, <1>8, <1>10, <1>11 DEF Position
<1>13. Chained(n, P, B, d)'
  BY <1>1, <1>7, <1>12 DEF Chained, NextOf
<1>. QED
  BY <1>1, <1>2, <1>13 DEF RunChain

LEMMA PersistChain ==
  ASSUME RingInv, RunChain, Persist \/ PersistShort
  PROVE  RunChain'
<1>1. /\ spc = "run" /\ cpc = "persist" /\ cpc' = "clear"
      /\ UNCHANGED <<data, head, m_pCurBuf, m_pPrstBuf, full, live, m_iNextShmId, life, spc,
                     m_iBuffCnt, ppc, nextBuf, appended, again>>
  BY DEF Persist, PersistShort, Writes, ConsumerFrame
<1>2. ~again /\ \E n, P, B, c : Chained(n, P, B, c)
  BY <1>1 DEF RunChain
<1>3. PICK n, P, B, c : Chained(n, P, B, c)
  BY <1>2
<1>4. /\ Round(n, P, B) /\ Rest(0, n, P, B, NextOf) /\ Position(n, P, B, c)
      /\ short \/ Span(log, 0, B[0])
  BY <1>1, <1>2, <1>3 DEF Chained, Logged
<1>5. Round(n, P, B)' /\ Rest(0, n, P, B, NextOf)'
  BY <1>1, <1>4 DEF Round, Rest, NextOf
<1>6. Position(n, P, B, c)'
  BY <1>1, <1>4 DEF Position, SegOf
<1>7. Logged(B)'
  <2>1. CASE short'
    BY <2>1 DEF Logged
  <2>2. CASE ~short'
    <3>1. ~short /\ log' = log \o SubSeq(data[m_pPrstBuf], 1, Len(data[m_pPrstBuf]))
      BY <2>2 DEF Persist, PersistShort, Writes
    <3>2. n \in Nat /\ n >= 2 /\ P \in [0 .. n -> Segs] /\ \A i \in 0 .. n : B[i] \in Nat
      BY <1>4, RoundFacts
    <3>3. P[0] = m_pPrstBuf /\ P[0] \in Segs /\ B[0] \in Nat /\ B[1] \in Nat
      BY <1>1, <1>4, <3>2 DEF Position
    <3>4. Span(data[m_pPrstBuf], B[0], B[1])
      BY <1>4, <3>2, <3>3 DEF Rest
    <3>5. log \in Seq(Records) /\ data[m_pPrstBuf] \in Seq(Records)
      BY <3>3 DEF RingInv, TypeOK, RingTypeOK, PastTypeOK
    <3>6. log' = log \o data[m_pPrstBuf]
      <4>1. SubSeq(data[m_pPrstBuf], 1, Len(data[m_pPrstBuf])) = data[m_pPrstBuf]
        BY <3>5, WholeOf
      <4>. QED
        BY <3>1, <4>1
    <3>7. Span(log', 0, B[1])
      <4>1. 0 \in Nat /\ Span(log, 0, B[0])
        BY <1>4, <3>1
      <4>2. Span(log \o data[m_pPrstBuf], 0, B[1])
        BY ONLY <3>3, <3>4, <3>5, <4>1, SpanJoin
      <4>. QED
        BY <3>6, <4>2
    <3>. QED
      BY <1>1, <1>2, <3>7 DEF Logged
  <2>. QED
    BY <2>1, <2>2
<1>8. Chained(n, P, B, c)'
  BY <1>5, <1>6, <1>7 DEF Chained
<1>. QED
  BY <1>1, <1>2, <1>8 DEF RunChain

LEMMA ClearChain ==
  ASSUME RingInv, RunChain, Clear
  PROVE  RunChain'
<1>1. /\ spc = "run" /\ ppc = "idle" /\ cpc = "clear" /\ cpc' = "move"
      /\ data' = [data EXCEPT ![m_pPrstBuf] = <<>>]
      /\ full' = full \ {m_pPrstBuf}
      /\ m_pPrstBuf' = m_iNextShmId[m_pPrstBuf]
      /\ UNCHANGED <<head, m_pCurBuf, log, live, m_iNextShmId, spc, m_iBuffCnt, ppc, nextBuf,
                     appended, short, again>>
  BY DEF Clear, ConsumerFrame, pastVars
<1>2. ~again /\ \E n, P, B, c : Chained(n, P, B, c)
  BY <1>1 DEF RunChain
<1>3. PICK n, P, B, c : Chained(n, P, B, c)
  BY <1>2
<1>4. /\ Round(n, P, B) /\ Rest(0, n, P, B, m_iNextShmId)
      /\ short \/ Span(log, 0, B[1])
      /\ Position(n, P, B, c)
  BY <1>1, <1>2, <1>3 DEF Chained, Logged, NextOf
<1>5. /\ c \in 0 .. n - 1 /\ c > 0 /\ P[c] = m_pCurBuf /\ \A i \in c + 1 .. n : B[i] = appended
      /\ \A i \in 0 .. n - 1 : P[i] \in full <=> i < c
      /\ P[0] = m_pPrstBuf /\ \A i \in 0 .. n - 1 : P[i].key <= n
  BY <1>1, <1>4 DEF Position
<1>6. /\ n \in Nat /\ n >= 2 /\ \A i, j \in 0 .. n - 1 : P[i] = P[j] => i = j
      /\ P \in [0 .. n -> Segs] /\ B \in [0 .. n -> 0 .. appended] /\ appended \in Nat
      /\ B[n] = appended /\ \A i \in 0 .. n - 1 : B[i] <= B[i + 1]
  BY <1>4, RoundFacts DEF Round
<1>7. data \in [Segs -> Seq(Records)]
  BY DEF RingInv, TypeOK, RingTypeOK
<1>8. PICK C : C = [B EXCEPT ![0] = B[1]]
  OBVIOUS
<1>9. /\ C \in [0 .. n -> 0 .. appended] /\ C[n] = appended /\ C[0] = B[1]
      /\ \A i \in 1 .. n : C[i] = B[i]
  BY <1>6, <1>8
<1>10. ASSUME NEW i \in 0 .. n - 1 PROVE C[i] <= C[i + 1]
  <2>1. C[i + 1] = B[i + 1] /\ B[i + 1] \in Nat
    BY <1>6, <1>9
  <2>2. CASE i = 0
    BY <1>9, <2>1, <2>2
  <2>3. CASE i # 0
    BY <1>6, <1>9, <2>1, <2>3
  <2>. QED
    BY <2>2, <2>3
<1>11. Round(n, P, C)'
  BY <1>1, <1>4, <1>9, <1>10 DEF Round
<1>12. ASSUME NEW j \in 0 .. n - 1 PROVE Span(data'[P[j]], C[j], C[j + 1])
  <2>1. CASE j = 0
    <3>1. data'[P[0]] = <<>> /\ C[1] = B[1] /\ B[1] \in Nat
      BY <1>1, <1>5, <1>6, <1>7, <1>9
    <3>. QED
      BY <1>9, <2>1, <3>1, SpanNone
  <2>2. CASE j # 0
    <3>1. P[j] # P[0] /\ P[j] \in Segs /\ C[j] = B[j] /\ C[j + 1] = B[j + 1]
      BY <1>6, <1>9, <2>2
    <3>2. data'[P[j]] = data[P[j]]
      BY <1>1, <1>5, <1>7, <3>1
    <3>. QED
      BY <1>4, <3>1, <3>2 DEF Rest
  <2>. QED
    BY <2>1, <2>2
<1>13. Rest(0, n, P, C, m_iNextShmId)'
  BY <1>1, <1>4, <1>12 DEF Rest
<1>14. Logged(C)'
  BY <1>1, <1>2, <1>4, <1>9 DEF Logged
<1>15. m_pPrstBuf' = P[1] /\ C[0] = C[1]
  BY <1>1, <1>4, <1>5, <1>6, <1>9 DEF Rest
<1>16. \A i \in 0 .. n - 1 : P[i] \in full' <=> i < c /\ i > 0
  BY <1>1, <1>5, <1>6
<1>17. Position(n, P, C, c)'
  BY <1>1, <1>4, <1>5, <1>6, <1>9, <1>15, <1>16 DEF Position
<1>18. Chained(n, P, C, c)'
  BY <1>1, <1>11, <1>13, <1>14, <1>17 DEF Chained, NextOf
<1>. QED
  BY <1>1, <1>2, <1>18 DEF RunChain

LEMMA MoveHeadChain ==
  ASSUME RingInv, RunChain, MoveHead
  PROVE  RunChain'
<1>1. /\ spc = "run" /\ cpc = "move" /\ cpc' = "wait" /\ head' = m_pPrstBuf
      /\ UNCHANGED <<data, m_pCurBuf, m_pPrstBuf, full, log, live, m_iNextShmId, spc, m_iBuffCnt,
                     ppc, nextBuf, appended, short, again>>
  BY DEF MoveHead, ConsumerFrame, pastVars
<1>2. ~again /\ \E n, P, B, c : Chained(n, P, B, c)
  BY <1>1 DEF RunChain
<1>3. PICK n, P, B, c : Chained(n, P, B, c)
  BY <1>2
<1>4. /\ Round(n, P, B) /\ Rest(0, n, P, B, NextOf)
      /\ short \/ Span(log, 0, B[0])
      /\ Position(n, P, B, c) /\ ppc = "idle"
  BY <1>1, <1>2, <1>3 DEF Chained, Logged, Position
<1>5. /\ c \in 0 .. n - 1 /\ c > 0 /\ P[c] = m_pCurBuf /\ \A i \in c + 1 .. n : B[i] = appended
      /\ \A i \in 0 .. n - 1 : P[i] \in full <=> i < c /\ i > 0
      /\ P[1] = m_pPrstBuf /\ B[0] = B[1] /\ \A i \in 0 .. n - 1 : P[i].key <= n
      /\ n = m_iBuffCnt - 1 /\ \A s \in full : s.key <= n
  BY <1>1, <1>4 DEF Position
<1>6. /\ n \in Nat /\ n >= 2 /\ \A i, j \in 0 .. n - 1 : P[i] = P[j] => i = j
      /\ P \in [0 .. n -> Segs] /\ B \in [0 .. n -> 0 .. appended] /\ appended \in Nat
      /\ B[n] = appended /\ \A i \in 0 .. n - 1 : B[i] <= B[i + 1]
      /\ P[0] = head /\ P[n] = head
  BY <1>4, RoundFacts DEF Round
<1>7. PICK Q : Q = [i \in 0 .. n |-> IF i = n THEN P[1] ELSE P[i + 1]]
  OBVIOUS
<1>8. PICK C : C = [i \in 0 .. n |-> IF i = n THEN appended ELSE B[i + 1]]
  OBVIOUS
<1>9. /\ Q \in [0 .. n -> Segs] /\ Q[0] = P[1] /\ Q[n] = P[1] /\ Q[n - 1] = P[0]
      /\ \A i \in 0 .. n - 1 : Q[i] = P[i + 1]
  BY <1>6, <1>7
<1>10. /\ C \in [0 .. n -> 0 .. appended] /\ C[n] = appended /\ C[n - 1] = appended
       /\ \A i \in 0 .. n - 1 : C[i] = B[i + 1]
  BY <1>6, <1>8
<1>11. ASSUME NEW i \in 0 .. n - 1, NEW j \in 0 .. n - 1, Q[i] = Q[j] PROVE i = j
  <2>1. CASE i < n - 1 /\ j < n - 1
    BY <1>6, <1>9, <1>11, <2>1
  <2>2. CASE i = n - 1 /\ j < n - 1
    BY <1>6, <1>9, <1>11, <2>2
  <2>3. CASE i < n - 1 /\ j = n - 1
    BY <1>6, <1>9, <1>11, <2>3
  <2>. QED
    BY <1>6, <2>1, <2>2, <2>3
<1>12. ASSUME NEW i \in 0 .. n - 1 PROVE C[i] <= C[i + 1]
  <2>1. CASE i = n - 1
    BY <1>6, <1>10, <2>1
  <2>2. CASE i < n - 1
    <3>1. i + 1 \in 0 .. n - 1 /\ C[i] = B[i + 1] /\ C[i + 1] = B[(i + 1) + 1]
      BY <1>6, <1>10, <2>2
    <3>. QED
      BY <1>6, <3>1
  <2>. QED
    BY <1>6, <2>1, <2>2
<1>13. Round(n, Q, C)'
  <2>1. Q[0] = head' /\ Q[n] = head'
    BY <1>1, <1>5, <1>9
  <2>. QED
    BY <1>1, <1>4, <1>9, <1>10, <1>11, <1>12, <2>1 DEF Round
<1>14. ASSUME NEW j \in 0 .. n - 1
       PROVE  /\ Q[j] \in live /\ NextOf[Q[j]] = Q[j + 1]
              /\ Span(data[Q[j]], C[j], C[j + 1])
  <2>1. CASE j = n - 1
    <3>1. Q[j] = P[0] /\ Q[j + 1] = P[1] /\ C[j] = appended /\ C[j + 1] = appended
      BY <1>6, <1>9, <1>10, <2>1
    <3>2. P[0] \in live /\ NextOf[P[0]] = P[1] /\ Span(data[P[0]], B[0], B[1])
      BY <1>4, <1>6 DEF Rest
    <3>3. Len(data[P[0]]) = 0
      BY <1>5, <1>6, <3>2 DEF Span
    <3>. QED
      BY <1>6, <3>1, <3>2, <3>3 DEF Span
  <2>2. CASE j < n - 1
    <3>1. j + 1 \in 0 .. n - 1 /\ Q[j] = P[j + 1] /\ Q[j + 1] = P[(j + 1) + 1]
          /\ C[j] = B[j + 1] /\ C[j + 1] = B[(j + 1) + 1]
      BY <1>6, <1>9, <1>10, <2>2
    <3>. QED
      BY <1>4, <3>1 DEF Rest
  <2>. QED
    BY <1>6, <2>1, <2>2
<1>15. Rest(0, n, Q, C, NextOf)'
  BY <1>1, <1>14 DEF Rest, NextOf
<1>16. C[0] = B[0]
  BY <1>5, <1>6, <1>10
<1>17. Logged(C)'
  BY <1>1, <1>2, <1>4, <1>16 DEF Logged
<1>18. c - 1 \in 0 .. n - 1 /\ Q[c - 1] = m_pCurBuf
  <2>1. c - 1 \in 0 .. n - 1 /\ (c - 1) + 1 = c
    BY <1>5, <1>6
  <2>. QED
    BY <1>5, <1>9, <2>1
<1>19. ASSUME NEW i \in (c - 1) + 1 .. n PROVE C[i] = appended
  <2>1. CASE i = n
    BY <1>10, <2>1
  <2>2. CASE i # n
    <3>1. i \in 0 .. n - 1 /\ i + 1 \in c + 1 .. n
      BY <1>5, <1>6, <2>2
    <3>2. C[i] = B[i + 1]
      BY ONLY <1>10, <3>1
    <3>3. B[i + 1] = appended
      BY ONLY <1>5, <3>1
    <3>. QED
      BY ONLY <3>2, <3>3
  <2>. QED
    BY ONLY <2>1, <2>2
<1>20. ASSUME NEW i \in 0 .. n - 1 PROVE Q[i].key <= n /\ (Q[i] \in full <=> i < c - 1)
  <2>1. CASE i = n - 1
    BY <1>5, <1>6, <1>9, <2>1
  <2>2. CASE i < n - 1
    <3>1. i + 1 \in 0 .. n - 1 /\ Q[i] = P[i + 1]
      BY <1>6, <1>9, <2>2
    <3>. QED
      BY <1>5, <1>6, <3>1
  <2>. QED
    BY <1>6, <2>1, <2>2
<1>21. Position(n, Q, C, c - 1)'
  BY <1>1, <1>4, <1>5, <1>9, <1>18, <1>19, <1>20 DEF Position
<1>22. Chained(n, Q, C, c - 1)'
  BY <1>13, <1>15, <1>17, <1>21 DEF Chained
<1>. QED
  BY <1>1, <1>2, <1>22 DEF RunChain
-----------------------------------------------------------------------------
(* Starts and deaths *)

LEMMA NewCellsStep ==
  ASSUME RingInv, NewCells, Next
  PROVE  NewCells'
<1>1. CASE Build
  <2>1. /\ data' = [data EXCEPT ![SegOf(0)] = <<>>, ![SegOf(1)] = <<>>]
        /\ live' = live \cup {SegOf(0), SegOf(1)}
    BY <1>1 DEF Build
  <2>2. life <= MaxLives /\ data \in [Segs -> Seq(Records)]
    BY <1>1 DEF Build, RingInv, TypeOK, RingTypeOK, ProcTypeOK
  <2>3. SegOf(0) \in Segs /\ SegOf(1) \in Segs /\ SegOf(0).key = 0 /\ SegOf(1).key = 1
    BY <2>2, FirstSegs DEF RingInv
  <2>4. data'[SegOf(0)] = <<>> /\ data'[SegOf(1)] = <<>>
    BY <2>1, <2>2, <2>3
  <2>5. PICK s, t : s = SegOf(0) /\ t = SegOf(1)
    OBVIOUS
  <2>6. OneOfAKey' /\ s \in live' /\ t \in live' /\ s.key = 0 /\ t.key = 1
    BY <1>1, <2>1, <2>3, <2>5, KeysStep
  <2>7. SegOf(0)' = s /\ SegOf(1)' = t
    BY <2>6 DEF SegOf, OneOfAKey
  <2>. QED
    BY <2>4, <2>5, <2>7 DEF NewCells
<1>2. CASE ~Build
  <2>1. spc' # "publish"
    BY <1>2 DEF Next, Start, StartFirst, StartOver, Starts, RemoveCell, WalkFails, Dies, Publish,
         Run, AppendToCur, MoveOn, MakeCell, LinkCell, CloseRing, Produces, ProducerFrame, Take,
         Persist, PersistShort, Writes, Clear, MoveHead, ConsumerFrame, Crash, Tool, ToolStart,
         ToolCell, ToolEnd,
         ToolFails, ToolNoFile, ToolKilled, ToolDies, ToolFrame, RingInv, TypeOK, ProcTypeOK
  <2>. QED
    BY <2>1 DEF NewCells
<1>. QED
  BY <1>1, <1>2

LEMMA PublishChain ==
  ASSUME RingInv, NewCells, Publish
  PROVE  RunChain'
<1>. PICK s, t : s = SegOf(0) /\ t = SegOf(1)
  OBVIOUS
<1>1. /\ spc = "publish" /\ head' = s /\ m_pCurBuf' = s /\ m_pPrstBuf' = s
      /\ appended' = 0 /\ log' = <<>> /\ again' = FALSE
      /\ UNCHANGED <<live, m_iNextShmId, data, m_iBuffCnt, full, ppc, nextBuf, cpc>>
  BY DEF Publish, ringVars
<1>2. /\ s \in live /\ t \in live /\ m_iNextShmId[s] = t /\ m_iNextShmId[t] = s
      /\ data[s] = <<>> /\ data[t] = <<>>
      /\ ppc = "idle" /\ cpc = "wait" /\ m_iBuffCnt = 3 /\ full = {}
  BY <1>1 DEF RingInv, RunInv, Built, NoProcess, NewCells
<1>3. s \in Segs /\ t \in Segs /\ s.key = 0 /\ t.key = 1 /\ s # t
  BY <1>1, FirstSegs DEF RingInv, TypeOK, ProcTypeOK
<1>4. PICK P : P = [i \in 0 .. 2 |-> IF i = 1 THEN t ELSE s]
  OBVIOUS
<1>5. PICK B : B = [i \in 0 .. 2 |-> 0]
  OBVIOUS
<1>6. P \in [0 .. 2 -> Segs] /\ P[0] = s /\ P[1] = t /\ P[2] = s
  BY <1>3, <1>4
<1>7. B \in [0 .. 2 -> 0 .. 0] /\ \A i \in 0 .. 2 : B[i] = 0
  BY <1>5
<1>8. 2 \in 2 .. MaxBuffCnt - 1 /\ \A j \in 0 .. 2 - 1 : j = 0 \/ j = 1
  BY ShmAssumption
<1>9. \A i, j \in 0 .. 2 - 1 : P[i] = P[j] => i = j
  BY <1>3, <1>6, <1>8
<1>10. Round(2, P, B)'
  BY <1>1, <1>6, <1>7, <1>8, <1>9 DEF Round
<1>11. \A j \in 0 .. 2 - 1 : /\ P[j] \in live /\ m_iNextShmId[P[j]] = P[j + 1]
                             /\ data[P[j]] = <<>> /\ B[j] = 0 /\ B[j + 1] = 0
  BY <1>2, <1>6, <1>7, <1>8
<1>12. Rest(0, 2, P, B, m_iNextShmId)'
  BY <1>1, <1>11, SpanNone DEF Rest
<1>13. Logged(B)'
  BY <1>1, <1>2, <1>7, SpanNone DEF Logged
<1>14. \A i \in 0 .. 2 - 1 : P[i].key <= 2
  BY <1>3, <1>6, <1>8
<1>15. Position(2, P, B, 0)'
  BY <1>1, <1>2, <1>6, <1>7, <1>14 DEF Position
<1>16. Chained(2, P, B, 0)'
  BY <1>1, <1>2, <1>10, <1>12, <1>13, <1>15 DEF Chained, NextOf
<1>. QED
  BY <1>1, <1>16 DEF RunChain

LEMMA RunChainStep ==
  ASSUME RingInv, RunChain, NewCells, Next
  PROVE  RunChain'
<1>1. CASE Run
  BY <1>1, AppendToCurChain, MoveOnChain, MakeCellChain, LinkCellChain, CloseRingChain,
     TakeChain, PersistChain, ClearChain, MoveHeadChain DEF Run
<1>2. CASE Publish
  BY <1>2, PublishChain
<1>3. CASE ~Run /\ ~Publish
  <2>1. spc' # "run"
    BY <1>3 DEF Next, Start, StartFirst, StartOver, Starts, RemoveCell, WalkFails, Dies, Build,
         Crash, Tool, ToolStart, ToolCell, ToolEnd, ToolFails, ToolNoFile, ToolKilled, ToolDies,
         ToolFrame,
         RingInv, TypeOK, ProcTypeOK
  <2>. QED
    BY <2>1 DEF RunChain
<1>. QED
  BY <1>1, <1>2, <1>3

\* A step that changes none of this
LEMMA SameKept ==
  ASSUME UNCHANGED <<live, m_iNextShmId, data, head, appended, log, short, again>>,
         cpc' = cpc, NEW n, NEW P, NEW B
  PROVE  /\ Round(n, P, B) => Round(n, P, B)'
         /\ \A i : Rest(i, n, P, B, m_iNextShmId) => Rest(i, n, P, B, m_iNextShmId)'
         /\ Logged(B) => Logged(B)'
  BY DEF Round, Rest, Logged

LEMMA SameLeftChain ==
  ASSUME LeftChain, broken => broken', spc \in {"down", "walk"}, cpc' = cpc,
         UNCHANGED <<live, m_iNextShmId, data, head, appended, log, short, again>>
  PROVE  LeftChain'
<1>. SUFFICES ASSUME ~broken, head \in live PROVE \E n, P, B : Kept(n, P, B)'
  BY DEF LeftChain
<1>1. PICK n, P, B : Kept(n, P, B)
  BY DEF LeftChain
<1>2. Kept(n, P, B)'
  BY <1>1, SameKept DEF Kept
<1>. QED
  BY <1>2

LEMMA LeftByStart ==
  ASSUME RingInv, LeftChain, Start
  PROVE  LeftChain'
<1>1. CASE StartFirst \/ Build \/ Publish
  BY <1>1 DEF StartFirst, Starts, Build, Publish, LeftChain
<1>2. CASE StartOver
  BY <1>2, SameLeftChain DEF StartOver, Starts, ringVars, procVars, pastVars
<1>3. CASE RemoveCell
  <2>1. /\ walk \in live /\ Remove(walk) /\ walk' = m_iNextShmId[walk] /\ head' = head
        /\ spc = "walk" /\ broken' = broken
    BY <1>3 DEF RemoveCell, pastVars
  <2>2. CASE ~broken
    BY <2>1, <2>2, RemoveStep DEF RingInv, LeftInv, LeftChain
  <2>. QED
    BY <2>1, <2>2 DEF LeftChain
<1>4. CASE WalkFails
  BY <1>4 DEF WalkFails, RingInv, LeftInv, Removing, Whole, RestFrom, LeftChain
<1>. QED
  BY <1>1, <1>2, <1>3, <1>4 DEF Start

LEMMA LeftByCrash ==
  ASSUME RingInv, RunChain, LeftChain, Crash
  PROVE  LeftChain'
<1>1. /\ spc # "down" /\ cpc' = "wait" /\ broken' = (broken \/ RingIsOpen)
      /\ UNCHANGED <<live, m_iNextShmId, data, head, appended, short>>
      /\ ~(spc = "run" /\ cpc = "persist") =>
           log' = log /\ again' = (IF spc = "run" THEN cpc = "clear" ELSE again)
  BY DEF Crash, Dies, ringVars
<1>2. CASE spc = "walk"
  <2>1. cpc = "wait"
    BY <1>2 DEF RingInv, RunInv, NoProcess
  <2>. QED
    BY <1>1, <1>2, <2>1, SameLeftChain
<1>3. CASE spc = "run" /\ ppc # "linked"
  <2>1. PICK n, P, B, c : Chained(n, P, B, c)
    BY <1>3 DEF RunChain
  <2>2. ~again /\ NextOf = m_iNextShmId
    BY <1>3 DEF RunChain, NextOf
  <2>3. Round(n, P, B)' /\ Rest(0, n, P, B, m_iNextShmId)'
    BY <1>1, <2>1, <2>2 DEF Chained, Round, Rest
  <2>4. Logged(B)'
    <3>1. /\ n \in Nat /\ n >= 2 /\ P \in [0 .. n -> Segs] /\ B[0] \in Nat /\ B[1] \in Nat
          /\ B[0] <= B[1]
      <4>1. Round(n, P, B)
        BY <2>1 DEF Chained
      <4>2. n \in Nat /\ n >= 2 /\ P \in [0 .. n -> Segs] /\ B[0] \in Nat /\ B[1] \in Nat
        BY <4>1, RoundFacts
      <4>. QED
        BY <4>1, <4>2 DEF Round
    <3>2. CASE cpc # "persist" /\ ~short
      <4>1. Span(log, 0, IF cpc = "clear" THEN B[1] ELSE B[0])
        BY <2>1, <2>2, <3>2 DEF Chained, Logged
      <4>2. UNCHANGED <<log, short>> /\ again' = (cpc = "clear")
        BY <1>1, <1>3, <3>2
      <4>3. CASE cpc = "clear"
        <5>1. again' /\ Span(log', 0, B[1])
          BY <4>1, <4>2, <4>3
        <5>2. B[1] \in B[0] .. B[1]
          BY <3>1
        <5>. QED
          BY <5>1, <5>2 DEF Logged
      <4>4. CASE cpc # "clear"
        <5>1. ~again' /\ Span(log', 0, B[0])
          BY <4>1, <4>2, <4>4
        <5>. QED
          BY <1>1, <5>1 DEF Logged
      <4>. QED
        BY <4>3, <4>4
    <3>3. CASE cpc = "persist" /\ ~short
      <4>1. P[0] = m_pPrstBuf /\ P[0] \in Segs /\ Span(data[P[0]], B[0], B[1])
        BY <2>1, <3>1, <3>3 DEF Chained, Position, Rest
      <4>2. Span(log, 0, B[0])
        BY <2>1, <2>2, <3>3 DEF Chained, Logged
      <4>3. log \in Seq(Records) /\ data[P[0]] \in Seq(Records)
        BY <4>1 DEF RingInv, TypeOK, RingTypeOK, PastTypeOK
      <4>4. PICK k \in 0 .. Len(data[P[0]]) :
              log' = log \o SubSeq(data[P[0]], 1, k) /\ again' = (k > 0)
        BY <1>3, <3>3, <4>1 DEF Crash
      <4>5. k \in Nat /\ B[0] + k \in Nat /\ B[0] + k \in B[0] .. B[1]
        BY <3>1, <4>1, <4>3, <4>4 DEF Span
      <4>6. SubSeq(data[P[0]], 1, k) \in Seq(Records) /\ Span(SubSeq(data[P[0]], 1, k), B[0],
      B[0] + k)
        BY ONLY <3>1, <4>1, <4>3, <4>4, SpanPart
      <4>7. Span(log', 0, B[0] + k)
        <5>1. 0 \in Nat
          OBVIOUS
        <5>2. Span(log \o SubSeq(data[P[0]], 1, k), 0, B[0] + k)
          BY ONLY <3>1, <4>2, <4>3, <4>5, <4>6, <5>1, SpanJoin
        <5>. QED
          BY <4>4, <5>2
      <4>8. ~again' => B[0] + k = B[0]
        <5>1. ~again' => ~(k > 0)
          BY <4>4, Zenon
        <5>. QED
          BY <3>1, <4>5, <5>1
      <4>. QED
        BY <1>1, <4>5, <4>7, <4>8 DEF Logged
    <3>. QED
      BY <1>1, <3>2, <3>3 DEF Logged
  <2>5. Kept(n, P, B)'
    BY <2>3, <2>4 DEF Kept
  <2>. QED
    BY <2>5 DEF LeftChain
<1>4. CASE broken'
  BY <1>4 DEF LeftChain
<1>. QED
  BY <1>1, <1>2, <1>3, <1>4 DEF RingIsOpen, RingInv, TypeOK, ProcTypeOK

LEMMA LeftByTool ==
  ASSUME RingInv, LeftChain, Tool
  PROVE  LeftChain'
<1>1. spc = "down" /\ UNCHANGED <<appended, log, short, again, cpc>>
  BY DEF Tool, ToolStart, ToolCell, ToolEnd, ToolFails, ToolNoFile, ToolKilled, ToolDies,
       ToolFrame, procVars,
         RingInv, TypeOK, ProcTypeOK
<1>2. broken => broken'
  BY DEF Tool, ToolStart, ToolCell, ToolEnd, ToolFails, ToolNoFile, ToolKilled, ToolDies
<1>3. CASE UNCHANGED <<ringVars, head>>
  BY <1>1, <1>2, <1>3, SameLeftChain DEF ringVars
<1>4. CASE ToolCell /\ IsDel /\ ~broken
  <2>1. /\ walk \in live /\ Remove(walk) /\ walk' = m_iNextShmId[walk] /\ head' = head
        /\ tpc = "walk"
    BY <1>4 DEF ToolCell
  <2>2. Removing
    BY <1>4, <2>1 DEF RingInv, LeftInv
  <2>. QED
    BY <1>4, <2>1, <2>2, RemoveStep DEF LeftChain
<1>5. CASE ToolEnd /\ IsDel
  <2>1. head' = Absent /\ live' = live /\ live \subseteq Segs
    BY <1>5 DEF ToolEnd, ringVars, RingInv, TypeOK, RingTypeOK
  <2>. QED
    BY <2>1, ShmAssumption DEF LeftChain
<1>6. CASE broken'
  BY <1>6 DEF LeftChain
<1>7. ToolCell /\ ~IsDel => UNCHANGED <<ringVars, head>>
  BY DEF ToolCell
<1>8. ToolEnd /\ ~IsDel => UNCHANGED <<ringVars, head>>
  BY DEF ToolEnd
<1>9. ToolStart \/ ToolFails \/ ToolNoFile \/ ToolKilled => UNCHANGED <<ringVars, head>>
  BY DEF ToolStart, ToolFails, ToolNoFile, ToolKilled, ToolDies
<1>. QED
  BY <1>2, <1>3, <1>4, <1>5, <1>6, <1>7, <1>8, <1>9 DEF Tool

LEMMA LeftChainStep ==
  ASSUME RingInv, RunChain, LeftChain, Next
  PROVE  LeftChain'
<1>1. CASE Run
  BY <1>1 DEF Run, AppendToCur, MoveOn, MakeCell, LinkCell, CloseRing, Produces, ProducerFrame,
       Take, Persist, PersistShort, Writes, Clear, MoveHead, ConsumerFrame, LeftChain
<1>. QED
  BY <1>1, LeftByStart, LeftByCrash, LeftByTool DEF Next
-----------------------------------------------------------------------------
(* shmtool *)

\* What a step of the server puts into a cell, it has room for.
LEMMA FitsAppend ==
  ASSUME RingInv, Fits, NEW c \in Segs, AppendTo(c), HasRoom(c)
  PROVE  Fits'
<1>1. /\ data \in [Segs -> Seq(Records)] /\ CellCap \in Nat
      /\ data' = [data EXCEPT ![c] = Append(@, appended + 1)]
  BY ShmAssumption DEF RingInv, TypeOK, RingTypeOK, AppendTo
<1>2. Len(data'[c]) <= CellCap
  <2>1. Len(Append(data[c], appended + 1)) = Len(data[c]) + 1 /\ Len(data[c]) \in Nat
    BY <1>1
  <2>. QED
    BY <1>1, <2>1 DEF HasRoom
<1>. QED
  BY <1>1, <1>2 DEF Fits

LEMMA FitsStep ==
  ASSUME RingInv, RunChain, Fits, Next
  PROVE  Fits'
<1>1. data \in [Segs -> Seq(Records)] /\ CellCap \in Nat /\ CellCap > 0 /\ Len(<<>>) = 0
  BY ShmAssumption DEF RingInv, TypeOK, RingTypeOK
<1>2. CASE AppendToCur
  BY <1>2, FitsAppend, LiveSegs DEF AppendToCur, Produces
<1>3. CASE MoveOn
  <2>1. /\ spc = "run" /\ ppc = "idle" /\ m_iNextShmId[m_pCurBuf] \notin full
        /\ m_pCurBuf' = m_iNextShmId[m_pCurBuf] /\ cpc # "move" /\ AppendTo(m_pCurBuf')
    BY <1>3 DEF MoveOn, Produces
  <2>2. PICK n, P, B, c : Chained(n, P, B, c)
    BY <2>1 DEF RunChain
  <2>3. /\ Round(n, P, B) /\ Rest(0, n, P, B, m_iNextShmId)
        /\ c \in 0 .. n - 1 /\ P[c] = m_pCurBuf /\ \A i \in c + 1 .. n : B[i] = appended
        /\ \A i \in 0 .. n - 1 : P[i] \in full <=> i < c
    BY <2>1, <2>2 DEF Chained, NextOf, Position
  <2>4. /\ n \in Nat /\ n >= 2 /\ P \in [0 .. n -> Segs] /\ \A i \in 0 .. n : B[i] \in Nat
        /\ P[0] = head /\ P[n] = head
    BY <2>3, RoundFacts DEF Round
  <2>5. m_pCurBuf' = P[c + 1]
    BY <2>1, <2>3 DEF Rest
  <2>6. CASE c + 1 = n
    BY <2>1, <2>3, <2>4, <2>5, <2>6
  <2>7. CASE c + 1 \in 0 .. n - 1
    <3>1. Span(data[P[c + 1]], appended, appended) /\ appended \in Nat /\ P[c + 1] \in Segs
      <4>1. B[c + 1] = appended /\ B[(c + 1) + 1] = appended
        BY <2>3, <2>4, <2>7
      <4>. QED
        BY <2>3, <2>4, <2>7, <4>1 DEF Rest
    <3>2. HasRoom(P[c + 1])
      BY <1>1, <3>1 DEF Span, HasRoom
    <3>. QED
      BY <2>1, <2>5, <3>1, <3>2, FitsAppend
  <2>. QED
    BY <2>3, <2>4, <2>6, <2>7
<1>4. CASE CloseRing
  <2>1. PICK new : new = SegOf(m_iBuffCnt - 1)
    OBVIOUS
  <2>2. /\ spc = "run" /\ ppc = "linked" /\ AppendTo(new)
    BY <1>4, <2>1 DEF CloseRing
  <2>3. new \in Segs
    BY <2>1, <2>2, LiveSegs
  <2>4. data[new] = <<>>
    BY <2>1, <2>2 DEF RunChain, Chained, Position
  <2>5. HasRoom(new)
    BY <1>1, <2>4 DEF HasRoom
  <2>. QED
    BY <2>2, <2>3, <2>5, FitsAppend
<1>5. CASE Build \/ MakeCell \/ Clear \/ RemoveCell \/ ToolCell
  <2>1. \A s \in Segs : data'[s] = data[s] \/ data'[s] = <<>>
    BY <1>1, <1>5 DEF Build, MakeCell, Clear, RemoveCell, ToolCell, Remove, ringVars
  <2>. QED
    BY <1>1, <2>1 DEF Fits
<1>6. CASE ~(AppendToCur \/ MoveOn \/ CloseRing \/ Build \/ MakeCell \/ Clear \/ RemoveCell
             \/ ToolCell)
  <2>1. data' = data
    BY <1>6 DEF Next, Start, StartFirst, StartOver, Starts, WalkFails, Dies, Publish, Run,
         LinkCell, Take, Persist, PersistShort, Writes, MoveHead, ConsumerFrame, Crash, Tool,
         ToolStart, ToolEnd, ToolFails, ToolNoFile, ToolKilled, ToolDies, ringVars
  <2>. QED
    BY <2>1 DEF Fits
<1>. QED
  BY <1>2, <1>3, <1>4, <1>5, <1>6

\* So the first segment of a chain holds no more than a cell does.
LEMMA FirstFits ==
  ASSUME RingInv, Fits, NEW n, NEW P, NEW B, NEW next, Round(n, P, B), Rest(0, n, P, B, next)
  PROVE  B[1] <= B[0] + CellCap
<1>1. /\ n \in Nat /\ n >= 2 /\ P \in [0 .. n -> Segs] /\ B[0] \in Nat /\ B[1] \in Nat
  BY RoundFacts
<1>2. P[0] \in Segs /\ Span(data[P[0]], B[0], B[1])
  BY <1>1 DEF Rest
<1>3. Len(data[P[0]]) <= CellCap /\ Len(data[P[0]]) = B[1] - B[0] /\ CellCap \in Nat
  BY <1>2, ShmAssumption DEF Fits, Span
<1>. QED
  BY <1>1, <1>3

LEMMA ToolStartChain ==
  ASSUME RingInv, LeftChain, Fits, ToolStart
  PROVE  ToolChain'
<1>1. /\ spc = "down" /\ tpc = "off" /\ head # Absent /\ walk' = head /\ found' = <<>>
      /\ tpc' = "walk" /\ cpc' = cpc
      /\ UNCHANGED <<live, m_iNextShmId, data, head, appended, log, short, again, broken>>
  BY DEF ToolStart, ToolFrame, ringVars, procVars
<1>. SUFFICES ASSUME ~broken PROVE \E n, P, B, i : Read(n, P, B, i)'
  BY <1>1 DEF ToolChain
<1>2. head \in live
  BY <1>1 DEF RingInv, LeftInv, Whole
<1>3. PICK n, P, B : Kept(n, P, B)
  BY <1>1, <1>2 DEF LeftChain
<1>4. n \in Nat /\ n >= 2 /\ B[0] \in Nat /\ P[0] = head
  BY <1>3, RoundFacts DEF Kept, Round
<1>5. Round(n, P, B)' /\ Rest(0, n, P, B, m_iNextShmId)' /\ Logged(B)'
  BY <1>1, <1>3, SameKept DEF Kept
<1>6. Span(found, B[0], B[0])'
  BY <1>1, <1>4, SpanNone
<1>7. B[1] <= B[0] + CellCap
  BY <1>3, FirstFits DEF Kept
<1>8. Read(n, P, B, 0)'
  BY <1>1, <1>4, <1>5, <1>6, <1>7 DEF Read
<1>. QED
  BY <1>8

LEMMA ToolCellChain ==
  ASSUME RingInv, ToolChain, ToolCell
  PROVE  ToolChain'
<1>1. /\ tpc = "walk" /\ walk \in live
      /\ IF IsDel THEN Remove(walk) ELSE UNCHANGED ringVars
      /\ walk' = m_iNextShmId[walk] /\ tpc' = (IF walk' = head THEN "end" ELSE "walk")
      /\ cpc' = cpc /\ UNCHANGED <<head, appended, log, short, again, broken>>
  BY DEF ToolCell, ToolFrame, procVars
<1>. SUFFICES ASSUME ~broken PROVE \E n, P, B, i : Read(n, P, B, i)'
  BY <1>1 DEF ToolChain
<1>2. PICK n, P, B, i : Read(n, P, B, i)
  BY <1>1 DEF ToolChain
<1>3. /\ Round(n, P, B) /\ Rest(i, n, P, B, m_iNextShmId) /\ Logged(B)
      /\ B[1] <= B[0] + CellCap
      /\ toolShort \/ Span(found, B[0], B[i])
      /\ i \in 0 .. n /\ i < n /\ walk = P[i]
  BY <1>1, <1>2 DEF Read
<1>4. /\ n \in Nat /\ n >= 2 /\ P \in [0 .. n -> Segs] /\ \A k \in 0 .. n : B[k] \in Nat
      /\ \A k, j \in 0 .. n - 1 : P[k] = P[j] => k = j
      /\ P[0] = head /\ P[n] = head
  BY <1>3, RoundFacts DEF Round
<1>5. i \in 0 .. n - 1 /\ i + 1 \in 0 .. n
  BY <1>3, <1>4
<1>6. m_iNextShmId[walk] = P[i + 1] /\ Span(data[walk], B[i], B[i + 1])
  BY <1>3, <1>4, <1>5 DEF Rest
<1>7. /\ live \subseteq Segs /\ m_iNextShmId \in [Segs -> Ids] /\ data \in [Segs -> Seq(Records)]
      /\ found \in Seq(Records)
  BY DEF RingInv, TypeOK, RingTypeOK, PastTypeOK
<1>8. toolShort' \/ Span(found', B[0], B[i + 1])
  <2>. SUFFICES ASSUME ~toolShort' PROVE Span(found', B[0], B[i + 1])
    OBVIOUS
  <2>1. data[walk] \in Seq(Records) /\ B[0] \in Nat /\ B[i] \in Nat /\ B[i + 1] \in Nat
    BY <1>1, <1>4, <1>5, <1>7
  <2>2. ~toolShort /\ found' = found \o data[walk]
    <3>1. CASE data[walk] = <<>>
      <4>1. found \o <<>> = found
        BY <1>7
      <4>. QED
        BY <3>1, <4>1 DEF ToolCell, ToolWrites
    <3>2. CASE data[walk] # <<>>
      <4>1. PICK k \in 0 .. Len(data[walk]) :
              /\ found' = found \o SubSeq(data[walk], 1, k)
              /\ toolShort' = (toolShort \/ k < Len(data[walk]))
        BY <3>2 DEF ToolCell, ToolWrites
      <4>2. ~toolShort /\ k = Len(data[walk])
        <5>1. ~toolShort /\ ~(k < Len(data[walk]))
          BY <4>1, Zenon
        <5>. QED
          BY <2>1, <4>1, <5>1
      <4>3. SubSeq(data[walk], 1, Len(data[walk])) = data[walk]
        BY <2>1, WholeOf
      <4>. QED
        BY <4>1, <4>2, <4>3
    <3>. QED
      BY <3>1, <3>2
  <2>. QED
    BY <1>3, <1>6, <1>7, <2>1, <2>2, SpanJoin
<1>9. ASSUME NEW j \in i + 1 .. n - 1
      PROVE  P[j] \in live' /\ m_iNextShmId'[P[j]] = P[j + 1] /\ Span(data'[P[j]], B[j], B[j + 1])
  <2>1. j \in i .. n - 1 /\ j \in 0 .. n - 1 /\ j # i
    BY <1>4, <1>5
  <2>2. P[j] \in live /\ m_iNextShmId[P[j]] = P[j + 1] /\ Span(data[P[j]], B[j], B[j + 1])
    BY <1>3, <2>1 DEF Rest
  <2>3. P[j] # walk /\ P[j] \in Segs
    BY <1>3, <1>4, <1>5, <2>1
  <2>4. /\ P[j] \in live' /\ m_iNextShmId'[P[j]] = m_iNextShmId[P[j]] /\ data'[P[j]] = data[P[j]]
    BY <1>1, <1>7, <2>2, <2>3 DEF Remove, ringVars
  <2>. QED
    BY <2>2, <2>4
<1>10. Round(n, P, B)' /\ Rest(i + 1, n, P, B, m_iNextShmId)' /\ Logged(B)'
  BY <1>1, <1>3, <1>9 DEF Round, Rest, Logged
<1>11. walk' = P[i + 1] /\ IF tpc' = "walk" THEN i + 1 < n ELSE i + 1 = n
  <2>1. CASE i + 1 = n
    BY <1>1, <1>4, <1>6, <2>1
  <2>2. CASE i + 1 \in 0 .. n - 1
    <3>1. P[i + 1] # P[0] /\ i + 1 < n
      BY <1>4, <1>5, <2>2
    <3>. QED
      BY <1>1, <1>4, <1>6, <3>1
  <2>. QED
    BY <1>4, <1>5, <2>1, <2>2
<1>12. Read(n, P, B, i + 1)'
  BY <1>3, <1>5, <1>8, <1>10, <1>11 DEF Read
<1>. QED
  BY <1>12

LEMMA ToolChainStep ==
  ASSUME RingInv, LeftChain, Fits, ToolChain, Next
  PROVE  ToolChain'
<1>1. CASE ~Tool
  <2>1. tpc' = "off"
    BY <1>1 DEF Next, Start, StartFirst, StartOver, Starts, RemoveCell, WalkFails, Dies, Build,
         Publish, Run, AppendToCur, MoveOn, MakeCell, LinkCell, CloseRing, Produces,
         ProducerFrame, Take, Persist, PersistShort, Writes, Clear, MoveHead, ConsumerFrame,
         Crash, toolVars,
         RingInv, TypeOK, ProcTypeOK
  <2>. QED
    BY <2>1 DEF ToolChain
<1>2. CASE ToolEnd \/ ToolFails \/ ToolNoFile \/ ToolKilled
  BY <1>2 DEF ToolEnd, ToolFails, ToolNoFile, ToolKilled, ToolDies, ToolOver, ToolChain
<1>. QED
  BY <1>1, <1>2, ToolStartChain, ToolCellChain DEF Tool

LEMMA FoundStep ==
  ASSUME FoundInv, Next
  PROVE  FoundInv'
<1>1. CASE ToolCell
  BY <1>1 DEF ToolCell, ToolWrites, FoundInv
<1>2. CASE ToolStart \/ ToolEnd \/ ToolFails \/ ToolNoFile \/ ToolKilled \/ Publish
  BY <1>2 DEF ToolStart, ToolEnd, ToolFails, ToolNoFile, ToolKilled, ToolDies, Publish, FoundInv
<1>3. CASE Run \/ Crash \/ (Start /\ ~Publish)
  <2>1. UNCHANGED <<have_data, found>>
    BY <1>3 DEF Start, StartFirst, StartOver, Starts, RemoveCell, WalkFails, Dies, Build, Run,
         AppendToCur, MoveOn, MakeCell, LinkCell, CloseRing, ProducerFrame, Take, Persist,
         PersistShort, Writes, Clear, MoveHead, ConsumerFrame, Crash, toolVars
  <2>. QED
    BY <2>1 DEF FoundInv
<1>. QED
  BY <1>1, <1>2, <1>3 DEF Next, Tool

\* What shmtool has found at its end completes the log file.
LEMMA ReadCompletes ==
  ASSUME RingInv, NEW n, NEW P, NEW B, NEW s, Round(n, P, B), Logged(B),
         B[1] <= B[0] + CellCap, s \in Seq(Records), Span(s, B[0], B[n])
  PROVE  Completes(s)
<1>1. /\ n \in Nat /\ n >= 2 /\ B[n] = appended /\ appended \in Nat /\ B[0] \in 0 .. appended
      /\ B[1] \in 0 .. appended /\ B[0] <= B[1] /\ CellCap \in Nat
  BY RoundFacts, ShmAssumption DEF Round
<1>2. Len(s) = appended - B[0] /\ \A k \in 1 .. Len(s) : s[k] = B[0] + k
  BY <1>1 DEF Span
<1>3. log \in Seq(Records)
  BY DEF RingInv, TypeOK, PastTypeOK
<1>4. ASSUME NEW k \in DOMAIN s PROVE s[k] = appended - Len(s) + k
  <2>1. k \in 1 .. Len(s) /\ k \in Nat /\ B[0] \in Nat
    BY <1>1
  <2>. QED
    BY <1>1, <1>2, <2>1
<1>5. ASSUME ~short
      PROVE  /\ \A k \in DOMAIN log : log[k] = k
             /\ Len(log) + Len(s) \in
                  appended .. appended + (IF again \/ cpc = "clear" THEN CellCap ELSE 0)
  <2>1. PICK m \in B[0] .. B[1] : Span(log, 0, m) /\ (~again /\ cpc # "clear" => m = B[0])
    <3>1. B[0] \in B[0] .. B[1] /\ B[1] \in B[0] .. B[1]
      BY <1>1
    <3>2. CASE again
      BY <1>5, <3>2 DEF Logged
    <3>3. CASE ~again /\ cpc = "clear"
      BY <1>5, <3>1, <3>3 DEF Logged
    <3>4. CASE ~again /\ cpc # "clear"
      BY <1>5, <3>1, <3>4 DEF Logged
    <3>. QED
      BY <3>2, <3>3, <3>4
  <2>2. Len(log) = m /\ \A k \in DOMAIN log : log[k] = k
    BY <1>1, <1>3, <2>1 DEF Span
  <2>3. CASE again \/ cpc = "clear"
    <3>1. Len(log) + Len(s) \in appended .. appended + CellCap
      BY <1>1, <1>2, <2>1, <2>2
    <3>. QED
      BY <2>2, <2>3, <3>1
  <2>4. CASE ~(again \/ cpc = "clear")
    <3>1. Len(log) + Len(s) \in appended .. appended + 0
      BY <1>1, <1>2, <2>1, <2>2, <2>4
    <3>. QED
      BY <2>2, <2>4, <3>1
  <2>. QED
    BY <2>3, <2>4
<1>. QED
  BY <1>1, <1>2, <1>4, <1>5 DEF Completes

LEMMA SavedStep ==
  ASSUME RingInv, ToolChain, SavedInv, FoundInv, Next
  PROVE  SavedInv'
<1>1. CASE ToolEnd
  <2>1. /\ tpc = "end" /\ spc = "down" /\ tpc' = "off" /\ saved'
        /\ cpc' = cpc
        /\ UNCHANGED <<have_data, found, appended, log, short, again, broken, spc>>
    BY <1>1 DEF ToolEnd, ToolOver, ToolFrame, procVars, RingInv, TypeOK, ProcTypeOK
  <2>2. ASSUME ~broken, ~toolShort' PROVE Completes(found) /\ Saved' = found
    <3>1. found \in Seq(Records)
      BY DEF RingInv, TypeOK, PastTypeOK
    <3>2. PICK k \in 0 .. Len(found) :
            /\ leaveLog' = IF have_data THEN SubSeq(found, 1, k) ELSE leaveLog
            /\ toolShort' = (toolShort \/ k < Len(found))
      BY <1>1 DEF ToolEnd
    <3>3. ~toolShort /\ k = Len(found)
      <4>1. ~toolShort /\ ~(k < Len(found))
        BY <2>2, <3>2, Zenon
      <4>. QED
        BY <3>1, <3>2, <4>1
    <3>4. SubSeq(found, 1, Len(found)) = found
      BY <3>1, WholeOf
    <3>5. Saved' = found
      BY <2>1, <3>2, <3>3, <3>4 DEF Saved, FoundInv
    <3>6. PICK n, P, B, i : Read(n, P, B, i)
      BY <2>1, <2>2 DEF ToolChain
    <3>7. /\ Round(n, P, B) /\ Logged(B) /\ B[1] <= B[0] + CellCap
          /\ Span(found, B[0], B[n])
      BY <2>1, <3>3, <3>6 DEF Read
    <3>. QED
      BY <3>1, <3>5, <3>7, ReadCompletes
  <2>3. ASSUME Saved' = found PROVE Completes(Saved)' <=> Completes(found)
    BY <2>1, <2>3 DEF Completes
  <2>. QED
    BY <2>1, <2>2, <2>3 DEF SavedInv
<1>2. CASE Publish \/ ToolStart
  BY <1>2 DEF Publish, ToolStart, SavedInv
<1>3. CASE ToolCell \/ ToolFails \/ ToolNoFile \/ ToolKilled
  <2>1. tpc # "off" /\ saved' = saved
    BY <1>3 DEF ToolCell, ToolFails, ToolNoFile, ToolKilled, ToolDies
  <2>. QED
    BY <2>1 DEF SavedInv
<1>4. CASE Run
  <2>1. spc = "run" /\ saved' = saved
    BY <1>4 DEF Run, AppendToCur, MoveOn, MakeCell, LinkCell, CloseRing, Produces,
         ProducerFrame, Take, Persist, PersistShort, Writes, Clear, MoveHead, ConsumerFrame,
         toolVars
  <2>. QED
    BY <2>1 DEF SavedInv
<1>5. CASE StartFirst \/ StartOver \/ RemoveCell \/ WalkFails \/ Build \/ Crash
  <2>. SUFFICES ASSUME saved PROVE SavedInv'
    BY <1>5 DEF StartFirst, StartOver, Starts, RemoveCell, WalkFails, Dies, Build, Crash,
         toolVars, SavedInv
  <2>1. spc # "run" /\ tpc = "off" /\ cpc = "wait"
    BY DEF SavedInv, RingInv, RunInv, NoProcess
  <2>2. /\ spc' # "run" /\ cpc' = "wait"
        /\ UNCHANGED <<tpc, have_data, leaveLog, toolShort, appended, log, short, again>>
    BY <1>5, <2>1 DEF StartFirst, StartOver, Starts, RemoveCell, WalkFails, Dies, Build, Crash,
         toolVars, procVars, pastVars
  <2>3. broken => broken'
    BY <1>5 DEF StartFirst, StartOver, Starts, RemoveCell, WalkFails, Build, Crash, pastVars
  <2>4. Completes(Saved)' <=> Completes(Saved)
    BY <2>1, <2>2 DEF Completes, Saved
  <2>. QED
    BY <2>1, <2>2, <2>3, <2>4 DEF SavedInv
<1>. QED
  BY <1>1, <1>2, <1>3, <1>4, <1>5 DEF Next, Start, Tool
-----------------------------------------------------------------------------
(* What a walk from the head finds *)

LEMMA WalkFinds ==
  ASSUME RingInv, NEW n, NEW P, NEW B, Round(n, P, B), Rest(0, n, P, B, m_iNextShmId)
  PROVE  /\ \A i \in 0 .. n : Path[i] = P[i]
         /\ FoundIn[n] \in Seq(Records) /\ Span(FoundIn[n], B[0], B[n])
<1>1. /\ n \in Nat /\ n >= 2 /\ n <= MaxBuffCnt /\ P \in [0 .. n -> Segs]
      /\ \A i \in 0 .. n : B[i] \in Nat
      /\ P[0] = head
  BY RoundFacts, ShmAssumption DEF Round
<1>2. data \in [Segs -> Seq(Records)]
  BY DEF RingInv, TypeOK, RingTypeOK
<1>3. PICK S : S = {i \in 0 .. n : /\ Path[i] = P[i]
                                   /\ FoundIn[i] \in Seq(Records) /\ Span(FoundIn[i], B[0], B[i])}
  OBVIOUS
<1>4. 0 \in S
  <2>1. 0 \in 0 .. n /\ B[0] \in Nat /\ Path[0] = P[0] /\ FoundIn[0] = <<>>
    BY <1>1, PathIs, FoundInIs
  <2>2. <<>> \in Seq(Records) /\ Span(<<>>, B[0], B[0])
    BY <2>1, SpanNone
  <2>. QED
    BY <1>3, <2>1, <2>2
<1>5. ASSUME NEW i \in 0 .. n - 1, i \in S PROVE i + 1 \in S
  <2>1. i + 1 \in 1 .. MaxBuffCnt /\ (i + 1) - 1 = i /\ i \in 0 .. n /\ i + 1 \in 0 .. n
    BY <1>1, ShmAssumption
  <2>2. /\ Path[i] = P[i] /\ FoundIn[i] \in Seq(Records) /\ Span(FoundIn[i], B[0], B[i])
    BY <1>3, <1>5
  <2>3. /\ P[i] \in live /\ m_iNextShmId[P[i]] = P[i + 1] /\ Span(data[P[i]], B[i], B[i + 1])
    BY <1>5 DEF Rest
  <2>4. Path[i + 1] = P[i + 1]
    BY <2>1, <2>2, <2>3, PathIs
  <2>5. FoundIn[i + 1] = FoundIn[i] \o data[P[i]]
    BY <2>1, <2>2, FoundInIs
  <2>6. data[P[i]] \in Seq(Records) /\ B[0] \in Nat /\ B[i] \in Nat /\ B[i + 1] \in Nat
    BY <1>1, <1>2, <2>1
  <2>7. FoundIn[i + 1] \in Seq(Records) /\ Span(FoundIn[i + 1], B[0], B[i + 1])
    BY <2>2, <2>3, <2>5, <2>6, SpanJoin
  <2>. QED
    BY <1>3, <2>1, <2>4, <2>7
<1>6. 0 .. n \subseteq S
  BY <1>1, <1>4, <1>5, Count
<1>. QED
  BY <1>1, <1>3, <1>6

LEMMA ChainIsFound ==
  ASSUME RingInv, Fits, NEW n, NEW P, NEW B, Round(n, P, B), Rest(0, n, P, B, m_iNextShmId),
  Logged(B)
  PROVE  \E k \in 1 .. MaxBuffCnt : /\ \A i \in 0 .. k - 1 : Path[i] \in live
                                    /\ Path[k] = head
                                    /\ Completes(FoundIn[k])
<1>1. n \in 1 .. MaxBuffCnt /\ P[n] = head /\ n \in 0 .. n
  BY ShmAssumption DEF Round
<1>2. \A i \in 0 .. n - 1 : Path[i] \in live
  BY <1>1, WalkFinds DEF Rest
<1>3. Path[n] = head
  BY <1>1, WalkFinds
<1>4. FoundIn[n] \in Seq(Records) /\ Span(FoundIn[n], B[0], B[n])
  BY WalkFinds
<1>5. Completes(FoundIn[n])
  BY <1>4, FirstFits, ReadCompletes
<1>. QED
  BY <1>1, <1>2, <1>3, <1>5

LEMMA ChainFacts ==
  ASSUME RingInv, RunChain, LeftChain, Fits
  PROVE  CrashLosesNothing
<1>. SUFFICES ASSUME \/ spc = "run" /\ ppc # "linked"
                     \/ spc = "down" /\ tpc = "off" /\ ~broken /\ head # Absent
              PROVE  \E n \in 1 .. MaxBuffCnt : /\ \A i \in 0 .. n - 1 : Path[i] \in live
                                                /\ Path[n] = head
                                                /\ Completes(FoundIn[n])
  BY DEF CrashLosesNothing
<1>1. CASE spc = "run" /\ ppc # "linked"
  <2>1. PICK n, P, B, c : Chained(n, P, B, c)
    BY <1>1 DEF RunChain
  <2>2. Round(n, P, B) /\ Rest(0, n, P, B, m_iNextShmId) /\ Logged(B)
    BY <1>1, <2>1 DEF Chained, NextOf
  <2>. QED
    BY <2>2, ChainIsFound
<1>2. CASE spc = "down" /\ tpc = "off" /\ ~broken /\ head # Absent
  <2>1. head \in live
    BY <1>2 DEF RingInv, LeftInv, Whole
  <2>2. PICK n, P, B : Kept(n, P, B)
    BY <1>2, <2>1 DEF LeftChain
  <2>. QED
    BY <2>2, ChainIsFound DEF Kept
<1>. QED
  BY <1>1, <1>2
-----------------------------------------------------------------------------
(* The theorems *)

LEMMA RingInit == Init => RingInv
<1>. SUFFICES ASSUME Init PROVE RingInv
  OBVIOUS
<1>. USE ShmAssumption DEF Init, NoProcess
<1>1. RingTypeOK
  BY DEF RingTypeOK, Ids
<1>2. ProcTypeOK
  BY DEF ProcTypeOK, Ids
<1>3. <<>> \in Seq(Records) /\ 0 \in 0 .. MaxRecords
  OBVIOUS
<1>4. /\ IsDel \in BOOLEAN /\ again \in BOOLEAN /\ broken \in BOOLEAN
      /\ saved \in BOOLEAN /\ failed \in BOOLEAN /\ have_data \in BOOLEAN
      /\ short \in BOOLEAN /\ toolShort \in BOOLEAN
  OBVIOUS
<1>5. found \in Seq(Records) /\ leaveLog \in Seq(Records) /\ log \in Seq(Records)
  BY <1>3
<1>6. PastTypeOK
  BY <1>3, <1>4, <1>5 DEF PastTypeOK
<1>7. OneOfAKey /\ RunInv
  BY DEF OneOfAKey, RunInv
<1>8. LeftInv
  BY DEF LeftInv
<1>. QED
  BY <1>1, <1>2, <1>6, <1>7, <1>8 DEF RingInv, TypeOK

LEMMA RingStep == RingInv /\ [Next]_vars => RingInv'
<1>. SUFFICES ASSUME RingInv, [Next]_vars PROVE RingInv'
  OBVIOUS
<1>1. CASE Next
  <2>1. TypeOK' /\ OneOfAKey' /\ RunInv'
    BY <1>1, TypeStep, KeysStep, RunStep
  <2>2. LeftInv'
    BY <1>1, StartLeft, RunLeft, CrashLeft, ToolLeft DEF Next
  <2>. QED
    BY <2>1, <2>2 DEF RingInv
<1>2. CASE UNCHANGED vars
  <2>1. TypeOK'
    BY <1>2 DEF vars, RingInv, TypeOK, RingTypeOK, ProcTypeOK, PastTypeOK
  <2>2. OneOfAKey' /\ RunInv'
    BY <1>2 DEF vars, RingInv, OneOfAKey, RunInv, Running, Linked, Built, NoProcess, SegOf
  <2>3. LeftInv'
    BY <1>2, SameLeft DEF vars
  <2>. QED
    BY <2>1, <2>2, <2>3 DEF RingInv
<1>. QED
  BY <1>1, <1>2

LEMMA ChainInit == Init => ChainInv
<1>. SUFFICES ASSUME Init PROVE ChainInv
  OBVIOUS
<1>1. RunChain /\ NewCells /\ ToolChain /\ SavedInv
  BY DEF Init, RunChain, NewCells, ToolChain, SavedInv
<1>2. LeftChain /\ FoundInv
  BY DEF Init, LeftChain, FoundInv
<1>3. Fits
  BY ShmAssumption DEF Init, Fits
<1>. QED
  BY <1>1, <1>2, <1>3 DEF ChainInv

LEMMA ChainStep == RingInv /\ ChainInv /\ [Next]_vars => ChainInv'
<1>. SUFFICES ASSUME RingInv, ChainInv, [Next]_vars PROVE ChainInv'
  OBVIOUS
<1>1. CASE Next
  BY <1>1, RunChainStep, NewCellsStep, LeftChainStep, ToolChainStep, SavedStep, FitsStep,
     FoundStep DEF ChainInv
<1>2. CASE UNCHANGED vars
  <2>1. ASSUME NEW n, NEW P, NEW B
        PROVE  /\ Round(n, P, B)' <=> Round(n, P, B)
               /\ \A i : Rest(i, n, P, B, m_iNextShmId)' <=> Rest(i, n, P, B, m_iNextShmId)
               /\ Rest(0, n, P, B, NextOf)' <=> Rest(0, n, P, B, NextOf)
               /\ Logged(B)' <=> Logged(B)
               /\ \A c : Position(n, P, B, c)' <=> Position(n, P, B, c)
    BY <1>2 DEF vars, Round, Rest, Logged, Position, NextOf, SegOf
  <2>2. RunChain'
    BY <1>2, <2>1 DEF vars, ChainInv, RunChain, Chained
  <2>3. NewCells'
    BY <1>2 DEF vars, ChainInv, NewCells, SegOf
  <2>4. LeftChain'
    BY <1>2, <2>1 DEF vars, ChainInv, LeftChain, Kept
  <2>5. ToolChain'
    BY <1>2, <2>1 DEF vars, ChainInv, ToolChain, Read
  <2>6. SavedInv'
    BY <1>2 DEF vars, ChainInv, SavedInv, Completes, Saved
  <2>7. Fits' /\ FoundInv'
    BY <1>2 DEF vars, ChainInv, Fits, FoundInv
  <2>. QED
    BY <2>2, <2>3, <2>4, <2>5, <2>6, <2>7 DEF ChainInv
<1>. QED
  BY <1>1, <1>2

\* Every variable keeps its type through any deaths of the server and of shmtool;
\* the running server only ever follows ids of segments that exist.
THEOREM ShmTypeCorrect == Spec => []TypeOK
<1>1. RingInv => TypeOK
  BY DEF RingInv
<1>. QED
  BY <1>1, RingInit, RingStep, PTL DEF Spec

\* For any number of cells and lives: unless a death came while the ids made no
\* ring, neither the next server nor shmtool follows the id of a segment that is
\* not there (log.cpp:60, 65; shmtool.cpp:59).
THEOREM ServerStartsAgain == Spec => []StartsAgain
<1>1. RingInv => StartsAgain
  BY DEF RingInv, LeftInv, StartsAgain
<1>. QED
  BY <1>1, RingInit, RingStep, PTL DEF Spec

\* For any size and number of cells, any lives and records: outside lines 259 to 261
\* of log.cpp, and as long as no death fell there or while segments were being
\* removed or created (broken), what follows from *m_pPrstBCShmId leads back to it
\* and holds the end of what was appended, in order (README.md:12); in a life in
\* which fwrite wrote all it was given, together with the log file that is every
\* record, and at most one cell of them twice, only after a death in or after
\* Persist and before ClearBuffer.
THEOREM NothingLost == Spec => []CrashLosesNothing
<1>1. RingInv /\ ChainInv => CrashLosesNothing
  BY ChainFacts DEF ChainInv
<1>. QED
  BY <1>1, RingInit, RingStep, ChainInit, ChainStep, PTL DEF Spec

\* For any size and number of cells, any lives and records: after a death that left
\* a ring (~broken), what a run of shmtool that reached its end and wrote all it
\* found (~toolShort) leaves in its file is the end of what that life appended; if
\* the server's writes were complete too, it is all that the log file lacks, and at
\* most one cell more.
THEOREM LeaveLogCompletes == Spec => []SavedCompletesLog
<1>1. ChainInv => SavedCompletesLog
  BY DEF ChainInv, SavedInv, SavedCompletesLog
<1>. QED
  BY <1>1, RingInit, RingStep, ChainInit, ChainStep, PTL DEF Spec
=============================================================================
