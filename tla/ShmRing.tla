------------------------------- MODULE ShmRing -------------------------------
(***************************************************************************)
(* The log ring as what survives the server: shared memory segments that   *)
(* name each other by m_iNextShmId, and a small segment, *m_pPrstBCShmId,  *)
(* that names the first of them.  The server may die between any two       *)
(* writes; log/shmtool.cpp then saves the records left in the segments to  *)
(* leaveLog.log, and the next server removes the segments (GetPrstCBShmId) *)
(* and builds a new ring.                                                  *)
(*                                                                         *)
(* A segment is the offset of its key from SHMKEY and the life of the      *)
(* server that created it, which stand for its id: the id of a removed     *)
(* segment is not used again.  Records of a life are numbered in the order *)
(* of their appends.  Producers, mutex and time-outs are as in RingLog,    *)
(* below its memory limit; a lock region is one step unless it writes ids. *)
(* fwrite may write less than it was given, which server and tool ignore,  *)
(* and a death may come in its middle: a record of which only a part is in *)
(* the file counts as not written.  A round of the consumer that opens no  *)
(* file (DecisFile) changes nothing here.                                  *)
(***************************************************************************)
EXTENDS Naturals, Sequences

CONSTANTS
  CellCap,     \* records in a cell
  MaxBuffCnt,  \* bound of the model: cells the ring may grow to
  MaxLives,    \* bound of the model: starts of the server
  MaxRecords,  \* bound of the model: records appended in a life
  Zero,        \* what a new small segment holds, and m_iNextShmId = -1: no id
  Absent       \* there is no small segment

Segs == [key : 0 .. MaxBuffCnt - 1, life : 1 .. MaxLives]

ASSUME ShmAssumption ==
  /\ CellCap \in Nat \ {0} /\ MaxBuffCnt \in Nat /\ MaxBuffCnt >= 3
  /\ MaxLives \in Nat /\ MaxRecords \in Nat
  /\ Zero \notin Segs /\ Absent \notin Segs /\ Zero # Absent

VARIABLES
  live,          \* the segments of cells that exist
  m_iNextShmId,  \* segment: the id it holds
  data,          \* segment: the records it holds
  head,          \* *m_pPrstBCShmId, Zero, or Absent
  life,          \* number of the server's current or next life
  spc,           \* server: "down", "walk", "build", "publish", "run"
  walk,          \* server or tool: curCBShmId
  m_pCurBuf, m_pPrstBuf, m_iBuffCnt,
  full,          \* the cells whose status is FULL
  ppc,           \* producers: "idle", "made", "linked" (a cell is being added)
  nextBuf,       \* producers: the local of TryAppendLog
  cpc,           \* consumer: "wait", "persist", "clear", "move"
  tpc,           \* shmtool: "off", "walk", "end"
  IsDel,         \* shmtool: its option -d
  have_data,     \* shmtool: it has found records, and its file is open
  found,         \* shmtool: the records it has given to that file
  leaveLog,      \* leaveLog.log
  appended,      \* records appended in this life
  log,           \* the log file of this life
  short,         \* history: in this life fwrite wrote less than the cell
  toolShort,     \* history: in its last run shmtool wrote less than it found
  again,         \* history: the server died with records in the file and the cell
  broken,        \* history: it died while the ids did not make a ring
  saved,         \* history: shmtool has saved what that life left behind
  failed         \* history: the server or shmtool followed an id of no segment

ringVars == <<live, m_iNextShmId, data>>
procVars == <<m_pCurBuf, m_pPrstBuf, m_iBuffCnt, full, ppc, nextBuf, cpc>>
toolVars == <<tpc, IsDel, have_data, found, leaveLog, saved, toolShort>>
pastVars == <<short, again, broken, failed>>
vars == <<live, m_iNextShmId, data, head, life, spc, walk, m_pCurBuf, m_pPrstBuf,
          m_iBuffCnt, full, ppc, nextBuf, cpc, tpc, IsDel, have_data, found, leaveLog,
          appended, log, short, toolShort, again, broken, saved, failed>>

NoProcess ==
  /\ m_pCurBuf = Zero /\ m_pPrstBuf = Zero /\ m_iBuffCnt = 3
  /\ full = {} /\ ppc = "idle" /\ nextBuf = Zero /\ cpc = "wait"

Init ==
  /\ live = {}
  /\ m_iNextShmId = [s \in Segs |-> Zero]
  /\ data = [s \in Segs |-> <<>>]
  /\ head = Absent
  /\ life = 1
  /\ spc = "down"
  /\ walk = Zero
  /\ NoProcess
  /\ tpc = "off" /\ IsDel = FALSE /\ have_data = FALSE /\ found = <<>> /\ leaveLog = <<>>
  /\ appended = 0 /\ log = <<>> /\ short = FALSE /\ toolShort = FALSE
  /\ again = FALSE /\ broken = FALSE /\ saved = FALSE /\ failed = FALSE
-----------------------------------------------------------------------------
(* The server starts: GetPrstCBShmId *)

Starts(to) ==
  /\ spc = "down" /\ tpc = "off"
  /\ life <= MaxLives
  /\ spc' = to
  /\ UNCHANGED <<ringVars, procVars, toolVars, life, appended, log, pastVars>>

\* There is no small segment: it is created, and holds 0,
StartFirst ==
  /\ head = Absent
  /\ Starts("build")
  /\ head' = Zero
  /\ UNCHANGED walk

\* or there is one, and the ring it names is removed segment by segment.
StartOver ==
  /\ head # Absent
  /\ Starts("walk")
  /\ walk' = head
  /\ UNCHANGED head

\* shmctl(IPC_RMID) of a segment that nobody else has attached
Remove(s) ==
  /\ live' = live \ {s}
  /\ m_iNextShmId' = [m_iNextShmId EXCEPT ![s] = Zero]
  /\ data' = [data EXCEPT ![s] = <<>>]

\* Mutant of RemoveCell: the next id is read after the segment was removed.
RemoveCellThenRead ==
  /\ spc = "walk"
  /\ walk \in live
  /\ Remove(walk)
  /\ walk' = m_iNextShmId'[walk]
  /\ UNCHANGED <<head, life, spc, procVars, toolVars, appended, log, pastVars>>

\* One round of the loop of lines 59-69
RemoveCell ==
  /\ spc = "walk"
  /\ walk \in live
  /\ Remove(walk)
  /\ walk' = m_iNextShmId[walk]
  /\ spc' = IF walk' = head THEN "build" ELSE "walk"
  /\ UNCHANGED <<head, life, procVars, toolVars, appended, log, pastVars>>

Dies ==
  /\ spc' = "down"
  /\ life' = life + 1
  /\ m_pCurBuf' = Zero /\ m_pPrstBuf' = Zero /\ m_iBuffCnt' = 3
  /\ full' = {} /\ ppc' = "idle" /\ nextBuf' = Zero /\ cpc' = "wait"
  /\ walk' = Zero
  /\ UNCHANGED <<ringVars, head, toolVars, appended, short>>

\* shmat answers (void*)-1, which line 61 does not take for a failure.
WalkFails ==
  /\ spc = "walk"
  /\ walk \notin live
  /\ Dies
  /\ failed' = TRUE
  /\ UNCHANGED <<log, again, broken>>

\* The segment with a key, the old one if it exists (lines 27-29)
SegOf(k) ==
  IF \E s \in live : s.key = k THEN CHOOSE s \in live : s.key = k
                               ELSE [key |-> k, life |-> life]

\* CreateCellBuffer of SHMKEY, and of SHMKEY + 1 twice, and their links, which
\* nobody can find before Publish.
Build ==
  /\ spc = "build"
  /\ live' = live \cup {SegOf(0), SegOf(1)}
  /\ m_iNextShmId' = [m_iNextShmId EXCEPT ![SegOf(0)] = SegOf(1), ![SegOf(1)] = SegOf(0)]
  /\ data' = [data EXCEPT ![SegOf(0)] = <<>>, ![SegOf(1)] = <<>>]
  /\ spc' = "publish"
  /\ UNCHANGED <<head, life, walk, procVars, toolVars, appended, log, pastVars>>

\* Lines 117-121; the process has a log file of its own.
Publish ==
  /\ spc = "publish"
  /\ head' = SegOf(0)
  /\ m_pCurBuf' = SegOf(0) /\ m_pPrstBuf' = SegOf(0)
  /\ appended' = 0 /\ log' = <<>>
  /\ saved' = FALSE /\ found' = <<>> /\ again' = FALSE /\ short' = FALSE
  /\ spc' = "run"
  /\ walk' = Zero
  /\ UNCHANGED <<ringVars, life, m_iBuffCnt, full, ppc, nextBuf, cpc, tpc,
                 IsDel, have_data, leaveLog, toolShort, broken, failed>>

-----------------------------------------------------------------------------
(* Producers: TryAppendLog *)

\* The producer has the mutex.
Produces ==
  /\ spc = "run"
  /\ ppc = "idle" /\ cpc # "move"
  /\ appended < MaxRecords

AppendTo(c) ==
  /\ data' = [data EXCEPT ![c] = Append(@, appended + 1)]
  /\ appended' = appended + 1

HasRoom(c) == Len(data[c]) < CellCap

ProducerFrame ==
  UNCHANGED <<head, life, spc, walk, m_pPrstBuf, cpc, toolVars, log, pastVars>>

AppendToCur ==
  /\ Produces
  /\ HasRoom(m_pCurBuf)
  /\ AppendTo(m_pCurBuf)
  /\ UNCHANGED <<live, m_iNextShmId, m_pCurBuf, m_iBuffCnt, full, ppc, nextBuf>>
  /\ ProducerFrame

MoveOn ==
  /\ Produces
  /\ ~HasRoom(m_pCurBuf)
  /\ m_iNextShmId[m_pCurBuf] \notin full
  /\ full' = full \cup {m_pCurBuf}
  /\ m_pCurBuf' = m_iNextShmId[m_pCurBuf]
  /\ AppendTo(m_pCurBuf')
  /\ UNCHANGED <<live, m_iNextShmId, m_iBuffCnt, ppc, nextBuf>>
  /\ ProducerFrame

\* Mutant of MakeCell: m_iBuffCnt grows before the cell is created.
MakeCellCountsFirst ==
  /\ Produces
  /\ ~HasRoom(m_pCurBuf)
  /\ m_iNextShmId[m_pCurBuf] \in full
  /\ m_iBuffCnt < MaxBuffCnt
  /\ full' = full \cup {m_pCurBuf}
  /\ nextBuf' = m_iNextShmId[m_pCurBuf]
  /\ m_iBuffCnt' = m_iBuffCnt + 1
  /\ live' = live \cup {SegOf(m_iBuffCnt')}
  /\ ppc' = "made"
  /\ UNCHANGED <<m_iNextShmId, data, m_pCurBuf, appended>>
  /\ ProducerFrame

\* A new cell, lines 254-255
MakeCell ==
  /\ Produces
  /\ ~HasRoom(m_pCurBuf)
  /\ m_iNextShmId[m_pCurBuf] \in full
  /\ m_iBuffCnt < MaxBuffCnt
  /\ full' = full \cup {m_pCurBuf}
  /\ nextBuf' = m_iNextShmId[m_pCurBuf]
  /\ live' = live \cup {SegOf(m_iBuffCnt)}
  /\ m_iNextShmId' = [m_iNextShmId EXCEPT ![SegOf(m_iBuffCnt)] = Zero]
  /\ data' = [data EXCEPT ![SegOf(m_iBuffCnt)] = <<>>]
  /\ m_iBuffCnt' = m_iBuffCnt + 1
  /\ ppc' = "made"
  /\ UNCHANGED <<m_pCurBuf, appended>>
  /\ ProducerFrame

\* Line 259: from here to line 261 the ring is open.
LinkCell ==
  /\ spc = "run" /\ ppc = "made"
  /\ m_iNextShmId' = [m_iNextShmId EXCEPT ![m_pCurBuf] = SegOf(m_iBuffCnt - 1)]
  /\ ppc' = "linked"
  /\ UNCHANGED <<live, data, m_pCurBuf, m_iBuffCnt, full, nextBuf, appended>>
  /\ ProducerFrame

CloseRing ==
  /\ spc = "run" /\ ppc = "linked"
  /\ m_pCurBuf' = SegOf(m_iBuffCnt - 1)
  /\ m_iNextShmId' = [m_iNextShmId EXCEPT ![m_pCurBuf'] = nextBuf]
  /\ AppendTo(m_pCurBuf')
  /\ ppc' = "idle"
  /\ nextBuf' = Zero
  /\ UNCHANGED <<live, m_iBuffCnt, full>>
  /\ ProducerFrame
-----------------------------------------------------------------------------
(* The consumer: PersistLog *)

ConsumerFrame ==
  UNCHANGED <<live, m_iNextShmId, life, spc, walk, m_iBuffCnt, ppc, nextBuf,
              toolVars, appended, again, broken, failed>>

\* Lines 290-318.  A cell that is not FULL becomes it.
Take ==
  /\ spc = "run" /\ ppc = "idle" /\ cpc = "wait"
  /\ data[m_pPrstBuf] # <<>>
  /\ full' = full \cup {m_pPrstBuf}
  /\ m_pCurBuf' = IF m_pPrstBuf \in full THEN m_pCurBuf ELSE m_iNextShmId[m_pCurBuf]
  /\ cpc' = "persist"
  /\ UNCHANGED <<data, head, m_pPrstBuf, log, short>>
  /\ ConsumerFrame

\* Lines 325-326, the mutex is free: fwrite and fflush write n records of the cell.
Writes(n) ==
  /\ log' = log \o SubSeq(data[m_pPrstBuf], 1, n)
  /\ cpc' = "clear"
  /\ UNCHANGED <<data, head, m_pCurBuf, m_pPrstBuf, full>>
  /\ ConsumerFrame

Persist ==
  /\ spc = "run" /\ cpc = "persist"
  /\ Writes(Len(data[m_pPrstBuf]))
  /\ UNCHANGED short

\* A short write is reported to stderr, and nothing else (log.h:131-134).
PersistShort ==
  /\ spc = "run" /\ cpc = "persist"
  /\ \E n \in 0 .. Len(data[m_pPrstBuf]) - 1 : Writes(n)
  /\ short' = TRUE

Clear ==
  /\ spc = "run" /\ ppc = "idle" /\ cpc = "clear"
  /\ data' = [data EXCEPT ![m_pPrstBuf] = <<>>]
  /\ full' = full \ {m_pPrstBuf}
  /\ m_pPrstBuf' = m_iNextShmId[m_pPrstBuf]
  /\ cpc' = "move"
  /\ UNCHANGED <<head, m_pCurBuf, log, short>>
  /\ ConsumerFrame

\* Mutant of MoveHead: the producers' cell is noted.
MoveHeadToCur ==
  /\ spc = "run" /\ cpc = "move"
  /\ head' = m_pCurBuf
  /\ cpc' = "wait"
  /\ UNCHANGED <<data, m_pCurBuf, m_pPrstBuf, full, log, short>>
  /\ ConsumerFrame

\* Line 332
MoveHead ==
  /\ spc = "run" /\ cpc = "move"
  /\ head' = m_pPrstBuf
  /\ cpc' = "wait"
  /\ UNCHANGED <<data, m_pCurBuf, m_pPrstBuf, full, log, short>>
  /\ ConsumerFrame
-----------------------------------------------------------------------------
(* The end of a life *)

\* No small segment names a ring: from its first removal to Publish, or while a
\* cell is half linked.
RingIsOpen ==
  \/ spc = "walk" /\ head \notin live
  \/ spc \in {"build", "publish"}
  \/ ppc = "linked"

\* A death in the middle of Persist leaves n records of the cell in the file.
Crash ==
  /\ spc # "down"
  /\ Dies
  /\ IF spc = "run" /\ cpc = "persist"
       THEN \E n \in 0 .. Len(data[m_pPrstBuf]) :
              log' = log \o SubSeq(data[m_pPrstBuf], 1, n) /\ again' = (n > 0)
       ELSE again' = (IF spc = "run" THEN cpc = "clear" ELSE again) /\ UNCHANGED log
  /\ broken' = (broken \/ RingIsOpen)
  /\ UNCHANGED failed
-----------------------------------------------------------------------------
(* log/shmtool.cpp *)

ToolFrame == UNCHANGED <<life, spc, procVars, appended, log, short, again>>

ToolOver == tpc' = "off" /\ walk' = Zero /\ IsDel' = FALSE

ToolStart ==
  /\ spc = "down" /\ tpc = "off"
  /\ head # Absent
  /\ walk' = head
  /\ IsDel' \in BOOLEAN
  /\ have_data' = FALSE /\ found' = <<>>
  /\ saved' = FALSE /\ toolShort' = FALSE
  /\ tpc' = "walk"
  /\ UNCHANGED <<ringVars, head, leaveLog, broken, failed>>
  /\ ToolFrame

\* cf->Persist of the cell it looks at, the file being opened at the first record
ToolWrites ==
  IF data[walk] = <<>> THEN UNCHANGED <<have_data, found, leaveLog, toolShort>>
  ELSE /\ have_data' = TRUE
       /\ leaveLog' = IF have_data THEN leaveLog ELSE <<>>
       /\ \E n \in 0 .. Len(data[walk]) :
            /\ found' = found \o SubSeq(data[walk], 1, n)
            /\ toolShort' = (toolShort \/ n < Len(data[walk]))

\* Mutant of ToolCell: the loop ends at the first cell.
ToolCellOnce ==
  /\ tpc = "walk"
  /\ walk \in live
  /\ ToolWrites
  /\ IF IsDel THEN Remove(walk) ELSE UNCHANGED ringVars
  /\ walk' = m_iNextShmId[walk]
  /\ tpc' = "end"
  /\ UNCHANGED <<head, IsDel, saved, broken, failed>>
  /\ ToolFrame

\* One round of the loop: with -d the segment goes whatever was written of it.
ToolCell ==
  /\ tpc = "walk"
  /\ walk \in live
  /\ ToolWrites
  /\ IF IsDel THEN Remove(walk) ELSE UNCHANGED ringVars
  /\ walk' = m_iNextShmId[walk]
  /\ tpc' = IF walk' = head THEN "end" ELSE "walk"
  /\ UNCHANGED <<head, IsDel, saved, broken, failed>>
  /\ ToolFrame

\* fclose, which may be short as well, and the small segment goes too
ToolEnd ==
  /\ tpc = "end"
  /\ \E n \in 0 .. Len(found) :
       /\ leaveLog' = IF have_data THEN SubSeq(found, 1, n) ELSE leaveLog
       /\ toolShort' = (toolShort \/ n < Len(found))
  /\ head' = IF IsDel THEN Absent ELSE head
  /\ saved' = TRUE
  /\ ToolOver
  /\ UNCHANGED <<ringVars, have_data, found, broken, failed>>
  /\ ToolFrame

\* shmtool dies with part of what it has found in the file,
ToolDies ==
  /\ \E n \in 0 .. Len(found) :
       leaveLog' = IF have_data THEN SubSeq(found, 1, n) ELSE leaveLog
  /\ found' = <<>>
  /\ ToolOver
  /\ UNCHANGED <<ringVars, head, have_data, saved, toolShort>>
  /\ ToolFrame

\* because it follows no segment,
ToolFails ==
  /\ tpc = "walk"
  /\ walk \notin live
  /\ ToolDies
  /\ failed' = TRUE
  /\ UNCHANGED broken

\* because leaveLog.log cannot be opened and it writes to a null file (line 68),
ToolNoFile ==
  /\ tpc = "walk"
  /\ walk \in live
  /\ data[walk] # <<>> /\ ~have_data
  /\ ToolDies
  /\ broken' = (broken \/ head \notin live)
  /\ UNCHANGED failed

\* or because it is killed.
ToolKilled ==
  /\ tpc # "off"
  /\ ToolDies
  /\ broken' = (broken \/ head \notin live)
  /\ UNCHANGED failed
-----------------------------------------------------------------------------
Start == StartFirst \/ StartOver \/ RemoveCell \/ WalkFails \/ Build \/ Publish

Run ==
  \/ AppendToCur \/ MoveOn \/ MakeCell \/ LinkCell \/ CloseRing
  \/ Take \/ Persist \/ PersistShort \/ Clear \/ MoveHead

Tool == ToolStart \/ ToolCell \/ ToolEnd \/ ToolFails \/ ToolNoFile \/ ToolKilled

Next == Start \/ Run \/ Crash \/ Tool

Spec == Init /\ [][Next]_vars
-----------------------------------------------------------------------------
(* Properties *)

Ids == Segs \cup {Zero}
Records == 1 .. MaxRecords

RingTypeOK ==
  /\ live \subseteq Segs
  /\ m_iNextShmId \in [Segs -> Ids]
  /\ data \in [Segs -> Seq(Records)]
  /\ head \in Ids \cup {Absent}
  /\ walk \in Ids
  /\ life \in 1 .. MaxLives + 1

ProcTypeOK ==
  /\ spc \in {"down", "walk", "build", "publish", "run"}
  /\ m_pCurBuf \in Ids /\ m_pPrstBuf \in Ids /\ nextBuf \in Ids
  /\ m_iBuffCnt \in 3 .. MaxBuffCnt
  /\ full \subseteq Segs
  /\ ppc \in {"idle", "made", "linked"}
  /\ cpc \in {"wait", "persist", "clear", "move"}
  /\ spc # "down" => life <= MaxLives /\ tpc = "off"

PastTypeOK ==
  /\ tpc \in {"off", "walk", "end"} /\ IsDel \in BOOLEAN /\ have_data \in BOOLEAN
  /\ found \in Seq(Records) /\ leaveLog \in Seq(Records) /\ log \in Seq(Records)
  /\ appended \in 0 .. MaxRecords
  /\ short \in BOOLEAN /\ toolShort \in BOOLEAN
  /\ again \in BOOLEAN /\ broken \in BOOLEAN /\ saved \in BOOLEAN /\ failed \in BOOLEAN

TypeOK == RingTypeOK /\ ProcTypeOK /\ PastTypeOK

\* The records s are the end of what was appended in the last life, and without a
\* short write the log file holds what comes before them, in order and once.  Only
\* if the server died during Persist or before ClearBuffer, s begins with records
\* that are in the log file already, with those of one cell at most.
Completes(s) ==
  /\ Len(s) <= appended
  /\ \A i \in DOMAIN s : s[i] = appended - Len(s) + i
  /\ ~short =>
       /\ \A i \in DOMAIN log : log[i] = i
       /\ Len(log) + Len(s) \in
            appended .. appended + (IF again \/ cpc = "clear" THEN CellCap ELSE 0)

\* What a walk from *m_pPrstBCShmId finds in the first n segments
Path[i \in 0 .. MaxBuffCnt] ==
  IF i = 0 THEN head
  ELSE IF Path[i - 1] \in live THEN m_iNextShmId[Path[i - 1]] ELSE Zero

FoundIn[n \in 0 .. MaxBuffCnt] ==
  IF n = 0 THEN <<>> ELSE FoundIn[n - 1] \o data[Path[n - 1]]

\* If the server died now, no record would be lost that fwrite did not lose: the
\* segments that follow from *m_pPrstBCShmId lead back to it and hold, in order,
\* what is not yet in the log file (README.md:12).  The same holds after the death
\* and after any run of shmtool that leaves a ring, even one that wrote too little.
\* Not so from line 259 to line 261 of log.cpp, where the new cell has no
\* successor, and before the constructor's end there is no ring.
CrashLosesNothing ==
  \/ spc = "run" /\ ppc # "linked"
  \/ spc = "down" /\ tpc = "off" /\ ~broken /\ head # Absent
  => \E n \in 1 .. MaxBuffCnt :
       /\ \A i \in 0 .. n - 1 : Path[i] \in live
       /\ Path[n] = head
       /\ Completes(FoundIn[n])

\* What shmtool leaves in its file
Saved == IF have_data THEN leaveLog ELSE <<>>

\* What shmtool has saved after a death that left a ring completes the log file,
\* whether or not it was run before and whatever option it was given, if it could
\* write all that it found (shmtool.cpp:57-76).
SavedCompletesLog == saved /\ ~broken /\ ~toolShort => Completes(Saved)

\* Neither the next server nor shmtool then follows an id of a segment that is not
\* there, which would end them with a segmentation fault (log.cpp:60, 65;
\* shmtool.cpp:59), at this start and at every later one.
StartsAgain == failed => broken
=============================================================================
