------------------------------- MODULE LogFile -------------------------------
(***************************************************************************)
(* The log files of CRingLog (DecisFile, log/log.cpp:147-196), and the     *)
(* consumer's round that uses them (PersistLog).  The dates come from the  *)
(* time cache that the logging threads keep (UtcTime): the consumer reads  *)
(* it between two of their steps.                                          *)
(*                                                                         *)
(* A file is named by a date and a number, 0 for name.log and k for        *)
(* name.log.k.  What is appended is numbered, unit by unit, in the order   *)
(* of the appends; a record has one or more units.  Of the ring between    *)
(* loggers and consumer only the batch the consumer has taken is kept      *)
(* apart; see RingLog for the rest.                                        *)
(***************************************************************************)
EXTENDS UtcTime, Sequences

CONSTANTS
  Lens,             \* lengths of records
  ONELOGFILELIMIT,  \* log.cpp:11
  NULL              \* no file

Dates == [month : Nat, day : Nat]
File(d, i) == [date |-> d, k |-> i]
Null == File(NULL, 0)  \* "/null", for want of a directory
Names == [date : Dates, k : Nat] \cup {Null}

ASSUME FileAssumption ==
  /\ Lens \subseteq Nat \ {0}
  /\ ONELOGFILELIMIT \in Nat \ {0}
  /\ NULL \notin Names /\ NULL \notin Dates

VARIABLES
  m_bEnv,     \* InitLogPath found the directory writable
  m_pFp,      \* the name of the open file, or NULL
  m_date,     \* m_iYear and m_iMon as month, and m_iDay
  m_iLogCnt,
  files,      \* name |-> what the file holds, for the files that exist
  appended,   \* units appended to the ring,
  sealed,     \* of these, taken by the consumer as a FULL cell,
  written,    \* of these, given to fwrite
  cpc,        \* consumer: "wait", "open" (DecisFile), "persist"
  date,       \* consumer: its locals year, mon, day
  trusted,    \* history: all dates were read from a clean cache, not torn
  months      \* history: the months of the dates read

storeVars == <<m_pFp, m_date, m_iLogCnt, files>>
fileVars == <<m_bEnv, m_pFp, m_date, m_iLogCnt, files, appended, sealed, written,
              cpc, date, trusted, months>>
vars == <<timeVars, fileVars>>

Init ==
  /\ TimeInit
  /\ m_bEnv \in BOOLEAN
  /\ m_pFp = NULL
  /\ m_date = [month |-> 0, day |-> 0]
  /\ m_iLogCnt = 0
  /\ files = [n \in {} |-> <<>>]
  /\ appended = 0 /\ sealed = 0 /\ written = 0
  /\ cpc = "wait"
  /\ date = [month |-> 0, day |-> 0]
  /\ trusted = TRUE
  /\ months = {}
-----------------------------------------------------------------------------
(* The loggers *)

Background ==
  /\ SecondPasses \/ \E t \in Threads : GetCurTime(t)
  /\ UNCHANGED fileVars

\* The rest of TryAppendLog
LogLine(t) ==
  /\ Leave(t)
  /\ \E n \in Lens : appended' = appended + n
  /\ UNCHANGED <<m_bEnv, storeVars, sealed, written, cpc, date, trusted, months>>

-----------------------------------------------------------------------------
(* The consumer *)

\* Lines 290-318: there is something to write, the cell of the last round if its
\* file could not be opened; the date is read from the cache.
Wake ==
  /\ cpc = "wait"
  /\ appended > written
  /\ sealed' = IF sealed > written THEN sealed ELSE appended
  /\ date' = [month |-> fields.month, day |-> fields.day]
  /\ trusted' = (trusted /\ clean /\ \A t \in Threads : tpc[t] # "day")
  /\ months' = months \cup {fields.month}
  /\ cpc' = "open"
  /\ UNCHANGED <<timeVars, m_bEnv, storeVars, appended, written>>

Frame == UNCHANGED <<timeVars, m_bEnv, appended, sealed, written, date, trusted, months>>

\* Mutant of FopenW: DecisFile answers true whatever fopen returned.
FopenWUnchecked(fs, n, cnt) ==
  /\ cpc' = "persist"
  /\ \/ /\ m_pFp' = n
        /\ files' = [x \in DOMAIN fs \cup {n} |-> IF x = n THEN <<>> ELSE fs[x]]
        /\ m_iLogCnt' = cnt
     \/ m_pFp' = NULL /\ files' = fs /\ UNCHANGED m_iLogCnt

\* fopen(n, "w") with the files fs: it succeeds and leaves an empty file, and
\* m_iLogCnt becomes cnt, or it fails and PersistLog starts again.
FopenW(fs, n, cnt) ==
  \/ /\ m_pFp' = n
     /\ files' = [x \in DOMAIN fs \cup {n} |-> IF x = n THEN <<>> ELSE fs[x]]
     /\ m_iLogCnt' = cnt
     /\ cpc' = "persist"
  \/ /\ m_pFp' = NULL
     /\ files' = fs
     /\ cpc' = "wait"
     /\ UNCHANGED m_iLogCnt

\* DecisFile.  There is no directory: each call empties "/null",
NoDirectory ==
  /\ cpc = "open"
  /\ ~m_bEnv
  /\ FopenW(files, Null, m_iLogCnt)
  /\ UNCHANGED m_date
  /\ Frame

\* or no file is open,
FirstFile ==
  /\ cpc = "open"
  /\ m_bEnv /\ m_pFp = NULL
  /\ m_date' = date
  /\ FopenW(files, File(date, 0), m_iLogCnt + 1)
  /\ Frame

\* or a new day begins: its file is named after the old month,
NewDay ==
  /\ cpc = "open"
  /\ m_bEnv /\ m_pFp # NULL
  /\ date.day # m_date.day
  /\ m_date' = [m_date EXCEPT !.day = date.day]
  /\ FopenW(files, File(m_date', 0), 1)
  /\ Frame

SameDay == cpc = "open" /\ m_bEnv /\ m_pFp # NULL /\ date.day = m_date.day

\* Mutant of Renamed: the loop starts at m_iLogCnt - 2.
RenamedOneShort(d, cnt) ==
  LET moved == {n \in DOMAIN files : n.date = d /\ (n.k = 0 \/ n.k < cnt - 1)}
      up(n) == File(n.date, n.k + 1)
      down(n) == File(n.date, n.k - 1)
  IN  [n \in (DOMAIN files \ moved) \cup {up(x) : x \in moved} |->
        IF n.k > 0 /\ down(n) \in moved THEN files[down(n)] ELSE files[n]]

\* The loop of lines 182-186 and the rename after it: the files 0 .. cnt - 1 of
\* day d move up by one, the last of them first; a name that does not exist is
\* skipped, one that does is replaced.
Renamed(d, cnt) ==
  LET moved == {n \in DOMAIN files : n.date = d /\ n.k < cnt}
      up(n) == File(n.date, n.k + 1)
      down(n) == File(n.date, n.k - 1)
  IN  [n \in (DOMAIN files \ moved) \cup {up(x) : x \in moved} |->
        IF n.k > 0 /\ down(n) \in moved THEN files[down(n)] ELSE files[n]]

\* or the file is too large and the files of the day are renamed,
Rotate ==
  /\ SameDay
  /\ Len(files[m_pFp]) >= ONELOGFILELIMIT
  /\ FopenW(Renamed(date, m_iLogCnt), File(date, 0), m_iLogCnt + 1)
  /\ UNCHANGED m_date
  /\ Frame

\* or the open file is kept.
KeepFile ==
  /\ SameDay
  /\ Len(files[m_pFp]) < ONELOGFILELIMIT
  /\ cpc' = "persist"
  /\ UNCHANGED storeVars
  /\ Frame

\* Mutant of Persist: the cell is not cleared.
PersistAgain ==
  /\ cpc = "persist"
  /\ files' = [files EXCEPT ![m_pFp] = @ \o [i \in 1 .. sealed - written |-> written + i]]
  /\ cpc' = "wait"
  /\ UNCHANGED <<timeVars, m_bEnv, m_pFp, m_date, m_iLogCnt, appended, sealed,
                 written, date, trusted, months>>

\* Persist and ClearBuffer
Persist ==
  /\ cpc = "persist"
  /\ files' = [files EXCEPT ![m_pFp] = @ \o [i \in 1 .. sealed - written |-> written + i]]
  /\ written' = sealed
  /\ cpc' = "wait"
  /\ UNCHANGED <<timeVars, m_bEnv, m_pFp, m_date, m_iLogCnt, appended, sealed,
                 date, trusted, months>>

Consume ==
  Wake \/ NoDirectory \/ FirstFile \/ NewDay \/ Rotate \/ KeepFile \/ Persist

Next == Background \/ (\E t \in Threads : LogLine(t)) \/ Consume

Spec == Init /\ [][Next]_vars
-----------------------------------------------------------------------------
(* Properties *)

FileTypeOK ==
  /\ m_bEnv \in BOOLEAN
  /\ m_pFp \in Names \cup {NULL}
  /\ m_date \in Dates /\ date \in Dates
  /\ m_iLogCnt \in Nat
  /\ DOMAIN files \subseteq Names
  /\ \A n \in DOMAIN files : files[n] \in Seq(Nat)
  /\ m_pFp # NULL => m_pFp \in DOMAIN files
  /\ appended \in Nat /\ sealed \in Nat /\ written \in Nat
  /\ written <= sealed /\ sealed <= appended
  /\ cpc \in {"wait", "open", "persist"}
  /\ cpc = "persist" => m_pFp # NULL
  /\ trusted \in BOOLEAN
  /\ months \subseteq Nat

TypeOK == TimeTypeOK /\ FileTypeOK

RecordsOf(f) == {f[i] : i \in DOMAIN f}

\* No file that holds records is opened with "w" or replaced by a rename
\* (log.cpp:165, 173, 193): every record that was written is in a file, through
\* rotations, changes of day and failures of fopen.  This is so within one month:
\* line 168 keeps the old one, so that the first of February is written over the
\* first of January; and as long as the cache is clean and the date is not read
\* between the stores of its month and its day, as a day that comes back would be
\* written over too.
EveryRecordInAFile ==
  m_bEnv /\ trusted /\ (\A a, b \in months : a = b) =>
    \A r \in 1 .. written : \E n \in DOMAIN files : r \in RecordsOf(files[n])

\* The files of a day, from the highest number down to name.log, give its records
\* in order, each of them once, whatever the dates and fopen did
\* (log.cpp:182-189).
FilesInOrder ==
  /\ \A n \in DOMAIN files : \A i, j \in DOMAIN files[n] :
       i < j => files[n][i] < files[n][j]
  /\ \A n, o \in DOMAIN files : n.date = o.date /\ n.k > o.k =>
       \A r \in RecordsOf(files[n]), s \in RecordsOf(files[o]) : r < s
=============================================================================
