---------------------------- MODULE LogFileProofs ----------------------------
(* Theorems about UtcTime and LogFile, for any number of threads, any calendar, *)
(* any clock, any lengths and any size of a file.                              *)
EXTENDS LogFile, TLAPS

-----------------------------------------------------------------------------
(* The time cache: UtcTime *)

\* A second belongs to a minute of the model, and its local time is a time.
LEMMA LocalTimeType ==
  ASSUME NEW s \in Seconds
  PROVE  /\ s \div MIN \in Minutes
         /\ s % MIN \in Nat
         /\ LocalTime(s) \in Times
<1>1. s \in Nat /\ MIN \in Nat \ {0}
  BY TimeAssumption DEF Seconds
<1>2. s \div MIN \in Minutes
  BY DEF Minutes
<1>3. s % MIN \in Nat
  BY <1>1
<1>. QED
  BY <1>2, <1>3, TimeAssumption DEF LocalTime, Times

LEMMA TimeTypeInit == TimeInit => TimeTypeOK
<1>. SUFFICES ASSUME TimeInit PROVE TimeTypeOK
  OBVIOUS
<1>1. 0 \in Seconds /\ MIN \in Nat \ {0} /\ 0 \in 0 .. MaxCalls
  BY TimeAssumption DEF Seconds
<1>2. 0 \div MIN = 0
  BY <1>1
<1>3. 0 \in Minutes /\ LocalTime(0) \in Times
  BY <1>1, <1>2, LocalTimeType
<1>. QED
  BY <1>1, <1>3 DEF TimeInit, TimeTypeOK

\* Every step of the cache keeps the types.
LEMMA TimeTypeStep == TimeTypeOK /\ [TimeNext]_timeVars => TimeTypeOK'
<1>. SUFFICES ASSUME TimeTypeOK, [TimeNext]_timeVars PROVE TimeTypeOK'
  OBVIOUS
<1>. USE DEF TimeTypeOK, Goto, Quiet, cacheVars
<1>1. CASE SecondPasses
  BY <1>1, TimeAssumption DEF SecondPasses, Seconds
<1>2. ASSUME NEW t \in Threads, GetCurTime(t) \/ Leave(t) PROVE TimeTypeOK'
  <2>1. tv[t] \in Seconds /\ tm[t] \in Seconds
    OBVIOUS
  <2>2. /\ LocalTime(tm[t]) \in Times /\ m_cache_sec \div MIN \in Minutes
        /\ m_cache_sec % MIN \in Nat
    BY <2>1, LocalTimeType
  <2>3. CASE GetTime(t)
    BY <2>3, TimeAssumption DEF GetTime
  <2>4. CASE SameSecond(t)
    BY <2>4 DEF SameSecond
  <2>5. CASE NewSecond(t)
    BY <2>1, <2>5 DEF NewSecond
  <2>6. CASE SameMinute(t)
    BY <2>2, <2>6 DEF SameMinute, Times
  <2>7. CASE AddTimeSec(t)
    BY <2>7 DEF AddTimeSec, Times
  <2>8. CASE NewMinute(t)
    BY <2>1, <2>8 DEF NewMinute
  <2>9. CASE StoreMinute(t)
    BY <2>2, <2>9 DEF StoreMinute
  <2>10. CASE GetLocalTime(t)
    BY <2>10 DEF GetLocalTime
  <2>11. CASE StoreMonth(t)
    BY <2>2, <2>11 DEF StoreMonth, Times
  <2>12. CASE StoreRest(t)
    BY <2>2, <2>12 DEF StoreRest, Times
  <2>13. CASE AddTimeAll(t)
    BY <2>13 DEF AddTimeAll
  <2>14. CASE Leave(t)
    BY <2>14 DEF Leave
  <2>. QED
    BY <1>2, <2>3, <2>4, <2>5, <2>6, <2>7, <2>8, <2>9, <2>10, <2>11, <2>12,
       <2>13, <2>14 DEF GetCurTime
<1>3. CASE UNCHANGED timeVars
  BY <1>3 DEF timeVars
<1>. QED
  BY <1>1, <1>2, <1>3 DEF TimeNext

-----------------------------------------------------------------------------
(* The cache is exact while calls do not overlap. *)

ExactAt(s) ==
  /\ m_cache_min = s \div MIN
  /\ fields = LocalTime(s)
  /\ m_aTimeCache = LocalTime(s)

\* A thread that has been alone has been so to this day: nobody else is inside.
AloneInv == \A t \in alone, u \in Threads : tpc[u] # "out" => u = t

CleanInv == clean => \A t \in Threads : tpc[t] # "out" => t \in alone

\* What a thread that is alone has renewed so far
SoloInv ==
  \A t \in alone :
    /\ tpc[t] \in {"minute", "local", "month", "day", "text"} => m_cache_sec = tv[t]
    /\ tpc[t] \in {"local", "month", "day", "text"} => m_cache_min = m_cache_sec \div MIN
    /\ tpc[t] \in {"month", "day", "text"} => tm[t] = m_cache_sec
    /\ tpc[t] \in {"day", "text"} => fields.month = LocalTime(tm[t]).month
    /\ tpc[t] = "text" => fields = LocalTime(tm[t])

\* A clean cache is exact, for a former second while a call is at "test".
ExactInv ==
  clean =>
    /\ (\A t \in Threads : tpc[t] \in {"out", "got"}) => ExactAt(m_cache_sec)
    /\ \A t \in Threads :
         /\ tpc[t] = "done" => m_cache_sec = tv[t] /\ ExactAt(m_cache_sec)
         /\ tpc[t] = "test" => m_cache_sec = tv[t] /\ \E s \in Seconds : ExactAt(s)
         /\ tpc[t] = "second" =>
              /\ m_cache_sec = tv[t]
              /\ m_cache_min = m_cache_sec \div MIN
              /\ fields = LocalTime(m_cache_sec)
              /\ m_aTimeCache.month = fields.month
              /\ m_aTimeCache.day = fields.day
              /\ m_aTimeCache.min = fields.min

TimeInv == TimeTypeOK /\ AloneInv /\ CleanInv /\ SoloInv /\ ExactInv

LEMMA SameTime ==
  ASSUME NEW a \in Times, NEW b \in Times,
         a.month = b.month, a.day = b.day, a.min = b.min, a.sec = b.sec
  PROVE  a = b
  BY DEF Times

\* Storing the second of s is enough if the minute is that of s.
LEMMA SecondStored ==
  ASSUME NEW r \in Times, NEW s \in Seconds,
         r.month = LocalTime(s).month, r.day = LocalTime(s).day, r.min = LocalTime(s).min
  PROVE  [r EXCEPT !.sec = s % MIN] = LocalTime(s)
<1>. DEFINE q == [r EXCEPT !.sec = s % MIN]
<1>1. q.month = r.month /\ q.day = r.day /\ q.min = r.min /\ q.sec = s % MIN
  BY DEF Times
<1>2. q \in Times /\ LocalTime(s) \in Times /\ LocalTime(s).sec = s % MIN
  BY LocalTimeType DEF Times, LocalTime
<1>. HIDE DEF q
<1>3. q = LocalTime(s)
  BY <1>1, <1>2, SameTime
<1>. QED
  BY <1>3 DEF q

LEMMA TimeInitInv == TimeInit => TimeInv
<1>. SUFFICES ASSUME TimeInit PROVE TimeInv
  OBVIOUS
<1>1. 0 \div MIN = 0
  BY TimeAssumption
<1>2. ExactAt(m_cache_sec)
  BY <1>1 DEF TimeInit, ExactAt
<1>. QED
  BY <1>2, TimeTypeInit DEF TimeInit, TimeInv, AloneInv, CleanInv, SoloInv, ExactInv

\* Who is alone, and that clean calls are, in every step
LEMMA AloneStep ==
  ASSUME TimeTypeOK, AloneInv, CleanInv, NEW t \in Threads, GetCurTime(t) \/ Leave(t)
  PROVE  AloneInv' /\ CleanInv'
<1>. USE DEF TimeTypeOK, AloneInv, CleanInv, Goto, Quiet
<1>1. CASE GetTime(t)
  BY <1>1 DEF GetTime, Inside
<1>2. ASSUME tpc[t] # "out", alone' = alone, clean' = clean,
             \E pc : tpc' = [tpc EXCEPT ![t] = pc]
      PROVE  AloneInv' /\ CleanInv'
  BY <1>2
<1>3. CASE AddTimeAll(t)
  <2>1. AloneInv'
    BY <1>3 DEF AddTimeAll
  <2>2. CleanInv'
    BY <1>3 DEF AddTimeAll
  <2>. QED
    BY <2>1, <2>2
<1>4. ASSUME \/ SameSecond(t) \/ NewSecond(t) \/ SameMinute(t) \/ AddTimeSec(t)
             \/ NewMinute(t) \/ StoreMinute(t) \/ GetLocalTime(t) \/ StoreMonth(t)
             \/ StoreRest(t) \/ Leave(t)
      PROVE  AloneInv' /\ CleanInv'
  <2>1. tpc[t] # "out" /\ alone' = alone /\ clean' = clean
    BY <1>4 DEF SameSecond, NewSecond, SameMinute, AddTimeSec, NewMinute, StoreMinute,
                GetLocalTime, StoreMonth, StoreRest, Leave
  <2>2. \E pc : tpc' = [tpc EXCEPT ![t] = pc]
    BY <1>4 DEF SameSecond, NewSecond, SameMinute, AddTimeSec, NewMinute, StoreMinute,
                GetLocalTime, StoreMonth, StoreRest, Leave
  <2>. QED
    BY <1>2, <2>1, <2>2
<1>. QED
  BY <1>1, <1>3, <1>4 DEF GetCurTime

\* The thread that is alone renews one field after the other.
LEMMA SoloStep ==
  ASSUME TimeTypeOK, AloneInv, SoloInv, NEW t \in Threads, GetCurTime(t) \/ Leave(t)
  PROVE  SoloInv'
<1>. USE DEF TimeTypeOK, Goto, Quiet
<1>1. CASE GetTime(t)
  <2>1. alone' \subseteq {t} /\ tpc'[t] = "got"
    BY <1>1 DEF GetTime
  <2>. QED
    BY <2>1 DEF SoloInv
<1>2. ASSUME ~GetTime(t) PROVE SoloInv'
  <2>1. tpc[t] # "out" /\ alone' = alone
    BY <1>2 DEF GetCurTime, SameSecond, NewSecond, SameMinute, AddTimeSec, NewMinute,
                StoreMinute, GetLocalTime, StoreMonth, StoreRest, AddTimeAll, Leave
  <2>2. \A u \in alone : u = t
    BY <2>1 DEF AloneInv
  <2>. SUFFICES ASSUME t \in alone
                PROVE  /\ tpc'[t] \in {"minute", "local", "month", "day", "text"} =>
                            m_cache_sec' = tv'[t]
                       /\ tpc'[t] \in {"local", "month", "day", "text"} =>
                            m_cache_min' = m_cache_sec' \div MIN
                       /\ tpc'[t] \in {"month", "day", "text"} => tm'[t] = m_cache_sec'
                       /\ tpc'[t] \in {"day", "text"} =>
                            fields'.month = LocalTime(tm'[t]).month
                       /\ tpc'[t] = "text" => fields' = LocalTime(tm'[t])
    BY <2>1, <2>2 DEF SoloInv
  <2>3. CASE \/ SameSecond(t) \/ NewSecond(t) \/ SameMinute(t) \/ AddTimeSec(t)
             \/ AddTimeAll(t) \/ Leave(t)
    BY <2>3 DEF SameSecond, NewSecond, SameMinute, AddTimeSec, AddTimeAll, Leave
  <2>4. CASE NewMinute(t)
    BY <2>4 DEF NewMinute
  <2>5. CASE StoreMinute(t)
    BY <2>5 DEF StoreMinute, SoloInv
  <2>6. CASE GetLocalTime(t)
    BY <2>6 DEF GetLocalTime, SoloInv, cacheVars
  <2>7. CASE StoreMonth(t)
    <3>1. fields'.month = LocalTime(tm[t]).month
      BY <2>7 DEF StoreMonth, Times
    <3>. QED
      BY <2>7, <3>1 DEF StoreMonth, SoloInv
  <2>8. CASE StoreRest(t)
    <3>1. fields.month = LocalTime(tm[t]).month
      BY <2>8 DEF StoreRest, SoloInv
    <3>2. LocalTime(tm[t]) \in Times
      BY LocalTimeType
    <3>3. [LocalTime(tm[t]) EXCEPT !.month = fields.month] = LocalTime(tm[t])
      BY <3>1, <3>2 DEF Times
    <3>. QED
      BY <2>8, <3>1, <3>3 DEF StoreRest, SoloInv
  <2>. QED
    BY <1>2, <2>3, <2>4, <2>5, <2>6, <2>7, <2>8 DEF GetCurTime
<1>. QED
  BY <1>1, <1>2

\* Steps outside of, and at the beginning of, a call
LEMMA ExactStepEnds ==
  ASSUME TimeInv, NEW t \in Threads,
         GetTime(t) \/ SameSecond(t) \/ NewSecond(t) \/ Leave(t)
  PROVE  ExactInv'
<1>. USE DEF TimeTypeOK, Goto, Quiet, cacheVars
<1>. SUFFICES ASSUME clean' PROVE ExactInv'
  BY DEF ExactInv
<1>1. clean
  BY DEF GetTime, SameSecond, NewSecond, Leave
<1>2. \A u \in Threads : tpc[u] # "out" => u \in alone
  BY <1>1 DEF TimeInv, CleanInv
<1>3. CASE GetTime(t)
  <2>1. \A u \in Threads : tpc[u] = "out"
    BY <1>3, <1>1 DEF GetTime, Inside
  <2>2. ExactAt(m_cache_sec)
    BY <2>1, <1>1 DEF TimeInv, ExactInv
  <2>. QED
    BY <1>3, <2>1, <2>2 DEF GetTime, ExactInv, ExactAt, TimeInv
<1>4. ASSUME tpc[t] # "out" PROVE \A u \in Threads : u # t => tpc[u] = "out"
  BY <1>2, <1>4 DEF TimeInv, AloneInv
<1>5. CASE SameSecond(t)
  <2>1. \A u \in Threads : tpc[u] \in {"out", "got"}
    BY <1>4, <1>5 DEF SameSecond
  <2>2. ExactAt(m_cache_sec)
    BY <2>1, <1>1 DEF TimeInv, ExactInv
  <2>. QED
    BY <1>4, <1>5, <2>2 DEF SameSecond, ExactInv, ExactAt, TimeInv
<1>6. CASE NewSecond(t)
  <2>1. \A u \in Threads : tpc[u] \in {"out", "got"}
    BY <1>4, <1>6 DEF NewSecond
  <2>2. ExactAt(m_cache_sec) /\ m_cache_sec \in Seconds
    BY <2>1, <1>1 DEF TimeInv, ExactInv
  <2>3. \E s \in Seconds : ExactAt(s)'
    BY <2>2, <1>6 DEF NewSecond, ExactAt
  <2>4. \A u \in Threads : tpc'[u] = IF u = t THEN "test" ELSE "out"
    BY <1>4, <1>6 DEF NewSecond, TimeInv
  <2>5. m_cache_sec' = tv'[t]
    BY <1>6 DEF NewSecond
  <2>. QED
    BY <2>3, <2>4, <2>5 DEF ExactInv
<1>7. CASE Leave(t)
  <2>1. ExactAt(m_cache_sec)
    BY <1>1, <1>7 DEF Leave, TimeInv, ExactInv
  <2>. QED
    BY <1>4, <1>7, <2>1 DEF Leave, ExactInv, ExactAt, TimeInv
<1>. QED
  BY <1>3, <1>5, <1>6, <1>7

\* Steps that renew the second, or everything
LEMMA ExactStepStores ==
  ASSUME TimeInv, NEW t \in Threads, GetCurTime(t),
         ~GetTime(t), ~SameSecond(t), ~NewSecond(t)
  PROVE  ExactInv'
<1>. USE DEF TimeTypeOK, Goto, Quiet
<1>. SUFFICES ASSUME clean' PROVE ExactInv'
  BY DEF ExactInv
<1>1. tpc[t] # "out" /\ (clean \/ t \in alone)
  BY DEF GetCurTime, SameMinute, AddTimeSec, NewMinute, StoreMinute, GetLocalTime,
         StoreMonth, StoreRest, AddTimeAll
<1>2. t \in alone
  BY <1>1 DEF TimeInv, CleanInv
<1>3. \A u \in Threads : u # t => tpc[u] = "out"
  BY <1>2 DEF TimeInv, AloneInv
<1>4. \A u \in Threads : u # t => tpc'[u] = "out"
  BY <1>3 DEF GetCurTime, SameMinute, AddTimeSec, NewMinute, StoreMinute, GetLocalTime,
         StoreMonth, StoreRest, AddTimeAll, TimeInv
<1>5. CASE SameMinute(t)
  <2>1. clean /\ tpc[t] = "test" /\ m_cache_sec \in Seconds
    BY <1>5 DEF SameMinute, TimeInv
  <2>2. m_cache_sec = tv[t]
    BY <2>1 DEF TimeInv, ExactInv
  <2>3. PICK s \in Seconds : ExactAt(s)
    BY <2>1 DEF TimeInv, ExactInv
  <2>4. m_cache_min = m_cache_sec \div MIN /\ s \div MIN = m_cache_sec \div MIN
    BY <1>5, <2>3 DEF SameMinute, ExactAt
  <2>5. /\ LocalTime(s).month = LocalTime(m_cache_sec).month
        /\ LocalTime(s).day = LocalTime(m_cache_sec).day
        /\ LocalTime(s).min = LocalTime(m_cache_sec).min
    BY <2>4 DEF LocalTime
  <2>6. fields = LocalTime(s) /\ m_aTimeCache = LocalTime(s) /\ LocalTime(s) \in Times
    BY <2>3, LocalTimeType DEF ExactAt
  <2>7. fields' = LocalTime(m_cache_sec)
    BY <1>5, <2>1, <2>5, <2>6, SecondStored DEF SameMinute
  <2>8. /\ tpc'[t] = "second" /\ m_cache_sec' = m_cache_sec /\ tv' = tv
        /\ m_cache_min' = m_cache_min /\ m_aTimeCache' = m_aTimeCache
    BY <1>5 DEF SameMinute, TimeInv
  <2>. QED
    BY <1>4, <2>2, <2>4, <2>5, <2>6, <2>7, <2>8 DEF ExactInv
<1>6. CASE AddTimeSec(t)
  <2>1. clean /\ tpc[t] = "second" /\ m_cache_sec \in Seconds
    BY <1>6 DEF AddTimeSec, TimeInv
  <2>2. /\ m_cache_sec = tv[t] /\ m_cache_min = m_cache_sec \div MIN
        /\ fields = LocalTime(m_cache_sec)
        /\ m_aTimeCache.month = fields.month /\ m_aTimeCache.day = fields.day
        /\ m_aTimeCache.min = fields.min
    BY <2>1 DEF TimeInv, ExactInv
  <2>3. fields.sec = m_cache_sec % MIN
    BY <2>2 DEF LocalTime
  <2>4. m_aTimeCache' = LocalTime(m_cache_sec)
    BY <1>6, <2>1, <2>2, <2>3, SecondStored DEF AddTimeSec, TimeInv
  <2>5. ExactAt(m_cache_sec)' /\ tpc'[t] = "done" /\ m_cache_sec' = tv'[t]
    BY <1>6, <2>2, <2>4 DEF AddTimeSec, ExactAt, TimeInv
  <2>. QED
    BY <1>4, <2>5 DEF ExactInv
<1>7. CASE AddTimeAll(t)
  <2>1. tpc[t] = "text"
    BY <1>7 DEF AddTimeAll
  <2>2. /\ m_cache_sec = tv[t] /\ m_cache_min = m_cache_sec \div MIN
        /\ fields = LocalTime(m_cache_sec)
    BY <1>2, <2>1 DEF TimeInv, SoloInv
  <2>3. ExactAt(m_cache_sec)' /\ tpc'[t] = "done" /\ m_cache_sec' = tv'[t]
    BY <1>7, <2>2 DEF AddTimeAll, ExactAt, TimeInv
  <2>. QED
    BY <1>4, <2>3 DEF ExactInv
<1>8. CASE \/ NewMinute(t) \/ StoreMinute(t) \/ GetLocalTime(t) \/ StoreMonth(t)
           \/ StoreRest(t)
  <2>1. tpc'[t] \in {"minute", "local", "month", "day", "text"}
    BY <1>8 DEF NewMinute, StoreMinute, GetLocalTime, StoreMonth, StoreRest, TimeInv
  <2>. QED
    BY <1>4, <2>1 DEF ExactInv
<1>. QED
  BY <1>5, <1>6, <1>7, <1>8 DEF GetCurTime

\* Every step of the cache keeps the invariant; LogFile's steps are such steps.
LEMMA TimeInvStep == TimeInv /\ [TimeNext]_timeVars => TimeInv'
<1>. SUFFICES ASSUME TimeInv, [TimeNext]_timeVars PROVE TimeInv'
  OBVIOUS
<1>1. TimeTypeOK'
  BY TimeTypeStep DEF TimeInv
<1>2. CASE SecondPasses
  BY <1>1, <1>2 DEF SecondPasses, cacheVars, TimeInv, AloneInv, CleanInv, SoloInv,
                    ExactInv, ExactAt
<1>3. CASE UNCHANGED timeVars
  BY <1>1, <1>3 DEF timeVars, TimeInv, AloneInv, CleanInv, SoloInv, ExactInv, ExactAt
<1>4. ASSUME NEW t \in Threads, GetCurTime(t) \/ Leave(t) PROVE TimeInv'
  <2>1. AloneInv' /\ CleanInv'
    BY <1>4, AloneStep DEF TimeInv
  <2>2. SoloInv'
    BY <1>4, SoloStep DEF TimeInv
  <2>3. ExactInv'
    BY <1>4, ExactStepEnds, ExactStepStores
  <2>. QED
    BY <1>1, <2>1, <2>2, <2>3 DEF TimeInv
<1>. QED
  BY <1>2, <1>3, <1>4 DEF TimeNext

LEMMA TimeInvExact == TimeInv => CacheExact
  BY DEF TimeInv, ExactInv, ExactAt, CacheExact

\* Every variable of the cache keeps its type.
THEOREM TimeTypeCorrect == TimeSpec => []TimeTypeOK
<1>. QED
  BY TimeTypeInit, TimeTypeStep, PTL DEF TimeSpec

\* For any number of threads the time stamps are right as long as no two calls of
\* GetCurTime overlap (log.h:47).
THEOREM TimeCacheExact == TimeSpec => []CacheExact
<1>. QED
  BY TimeInitInv, TimeInvStep, TimeInvExact, PTL DEF TimeSpec

-----------------------------------------------------------------------------
(* Types *)

\* What the consumer and InitLogPath do leaves the time cache alone.
LEMMA TimeStep == [Next]_vars => [TimeNext]_timeVars
<1>. SUFFICES ASSUME [Next]_vars PROVE [TimeNext]_timeVars
  OBVIOUS
<1>1. CASE Background
  BY <1>1 DEF Background, TimeNext
<1>2. CASE \E t \in Threads : LogLine(t)
  BY <1>2 DEF LogLine, TimeNext
<1>3. CASE Consume
  BY <1>3 DEF Consume, Wake, NoDirectory, FirstFile, NewDay, Rotate, KeepFile, Persist, Frame
<1>4. CASE UNCHANGED vars
  BY <1>4 DEF vars
<1>. QED
  BY <1>1, <1>2, <1>3, <1>4 DEF Next

FilesTyped(fs) == DOMAIN fs \subseteq Names /\ \A n \in DOMAIN fs : fs[n] \in Seq(Nat)

\* A name is its date and its number.
LEMMA NameParts ==
  ASSUME NEW n \in Names
  PROVE  /\ n = File(n.date, n.k) /\ n.k \in Nat
         /\ \A d, i : File(d, i).date = d /\ File(d, i).k = i
         /\ n.date \in Dates \/ n = Null
         /\ Null.date \notin Dates
         /\ \A d \in Dates, i \in Nat : File(d, i) \in Names
  BY FileAssumption DEF Names, File, Null

LEMMA FopenType ==
  ASSUME NEW fs, FilesTyped(fs), NEW n \in Names, NEW cnt \in Nat,
         m_iLogCnt \in Nat, FopenW(fs, n, cnt)
  PROVE  /\ FilesTyped(files') /\ m_pFp' \in Names \cup {NULL} /\ m_iLogCnt' \in Nat
         /\ m_pFp' # NULL => m_pFp' \in DOMAIN files'
         /\ cpc' \in {"wait", "persist"}
         /\ cpc' = "persist" => m_pFp' # NULL
<1>1. n # NULL
  BY FileAssumption
<1>2. <<>> \in Seq(Nat)
  OBVIOUS
<1>3. CASE files' = fs /\ m_pFp' = NULL /\ cpc' = "wait" /\ UNCHANGED m_iLogCnt
  BY <1>3
<1>4. CASE /\ m_pFp' = n
           /\ files' = [x \in DOMAIN fs \cup {n} |-> IF x = n THEN <<>> ELSE fs[x]]
           /\ m_iLogCnt' = cnt
           /\ cpc' = "persist"
  <2>1. DOMAIN files' = DOMAIN fs \cup {n}
    BY <1>4
  <2>2. \A x \in DOMAIN files' : files'[x] = IF x = n THEN <<>> ELSE fs[x]
    BY <1>4
  <2>3. FilesTyped(files')
    BY <2>1, <2>2, <1>2 DEF FilesTyped
  <2>. QED
    BY <1>1, <1>4, <2>1, <2>3
<1>. QED
  BY <1>3, <1>4 DEF FopenW

Moves(n, d, cnt) == n.date = d /\ n.k < cnt

\* Each file is, after the renames, what one file was: one of the day that moved
\* up by one, or the same.
LEMMA RenamedFrom ==
  ASSUME FilesTyped(files), NEW d \in Dates, NEW cnt \in Nat,
         NEW y \in DOMAIN Renamed(d, cnt)
  PROVE  /\ y \in Names
         /\ \E x \in DOMAIN files :
              /\ Renamed(d, cnt)[y] = files[x] /\ y.date = x.date
              /\ IF Moves(x, d, cnt) THEN y.k = x.k + 1 ELSE y = x
<1>. DEFINE moved == {n \in DOMAIN files : n.date = d /\ n.k < cnt}
            up(n) == File(n.date, n.k + 1)
            down(n) == File(n.date, n.k - 1)
            dom == (DOMAIN files \ moved) \cup {up(x) : x \in moved}
<1>1. Renamed(d, cnt) =
        [n \in dom |-> IF n.k > 0 /\ down(n) \in moved THEN files[down(n)] ELSE files[n]]
  BY DEF Renamed
<1>2. /\ y \in dom
      /\ Renamed(d, cnt)[y] = IF y.k > 0 /\ down(y) \in moved THEN files[down(y)] ELSE files[y]
  BY <1>1
<1>3. CASE \E x \in moved : y = up(x)
  <2>1. PICK x \in moved : y = up(x)
    BY <1>3
  <2>2. x \in Names /\ x \in DOMAIN files /\ x.date = d /\ x.k < cnt
    BY DEF FilesTyped
  <2>3. y.date = x.date /\ y.k = x.k + 1 /\ x.k \in Nat /\ x = File(x.date, x.k)
    BY <2>1, <2>2, NameParts DEF File
  <2>4. y.k - 1 = x.k /\ y.k > 0 /\ x.k + 1 \in Nat
    BY <2>3
  <2>5. down(y) = x /\ y \in Names
    BY <2>1, <2>2, <2>3, <2>4, NameParts
  <2>6. Renamed(d, cnt)[y] = files[x]
    BY <1>2, <2>4, <2>5
  <2>. QED
    BY <2>2, <2>3, <2>5, <2>6 DEF Moves
<1>4. CASE y \in DOMAIN files \ moved
  <2>1. y \in Names /\ ~Moves(y, d, cnt)
    BY <1>4 DEF FilesTyped, Moves
  <2>2. CASE y.k > 0 /\ down(y) \in moved
    <3>1. down(y).date = y.date /\ down(y).k = y.k - 1 /\ y.k \in Nat
      BY <2>1, NameParts DEF File
    <3>2. y.k = down(y).k + 1
      BY <3>1
    <3>3. Renamed(d, cnt)[y] = files[down(y)] /\ down(y) \in DOMAIN files
      BY <1>2, <2>2
    <3>4. Moves(down(y), d, cnt)
      BY <2>2 DEF Moves
    <3>. QED
      BY <2>1, <3>1, <3>2, <3>3, <3>4
  <2>3. CASE ~(y.k > 0 /\ down(y) \in moved)
    BY <1>2, <1>4, <2>1, <2>3
  <2>. QED
    BY <2>2, <2>3
<1>. QED
  BY <1>2, <1>3, <1>4

\* No content is lost if the day has no file with the number cnt or a higher one.
LEMMA RenamedKeeps ==
  ASSUME FilesTyped(files), NEW d \in Dates, NEW cnt \in Nat, NEW x \in DOMAIN files,
         x.date = d => x.k < cnt
  PROVE  \E y \in DOMAIN Renamed(d, cnt) :
           Renamed(d, cnt)[y] = files[x] /\ y.date = x.date /\ (x.date = d => y.k > 0)
<1>. DEFINE moved == {n \in DOMAIN files : n.date = d /\ n.k < cnt}
            up(n) == File(n.date, n.k + 1)
            down(n) == File(n.date, n.k - 1)
            dom == (DOMAIN files \ moved) \cup {up(z) : z \in moved}
<1>1. Renamed(d, cnt) =
        [n \in dom |-> IF n.k > 0 /\ down(n) \in moved THEN files[down(n)] ELSE files[n]]
  BY DEF Renamed
<1>2. x \in Names /\ x.k \in Nat /\ x = File(x.date, x.k)
  BY NameParts DEF FilesTyped
<1>3. CASE x.date = d
  <2>1. x \in moved /\ up(x) \in dom
    BY <1>3
  <2>2. up(x).date = x.date /\ up(x).k = x.k + 1
    BY DEF File
  <2>3. up(x).k > 0 /\ up(x).k - 1 = x.k
    BY <1>2, <2>2
  <2>4. down(up(x)) = x
    BY <1>2, <2>2, <2>3
  <2>5. Renamed(d, cnt)[up(x)] = files[x] /\ up(x) \in DOMAIN Renamed(d, cnt)
    BY <1>1, <2>1, <2>3, <2>4
  <2>. QED
    BY <2>2, <2>3, <2>5
<1>4. CASE x.date # d
  <2>1. x \in dom /\ down(x).date # d
    BY <1>4 DEF File
  <2>2. down(x) \notin moved
    BY <2>1
  <2>3. Renamed(d, cnt)[x] = files[x] /\ x \in DOMAIN Renamed(d, cnt)
    BY <1>1, <2>1, <2>2
  <2>. QED
    BY <1>4, <2>3
<1>. QED
  BY <1>3, <1>4

LEMMA RenamedType ==
  ASSUME FilesTyped(files), NEW d \in Dates, NEW cnt \in Nat
  PROVE  FilesTyped(Renamed(d, cnt))
  BY RenamedFrom DEF FilesTyped

LEMMA FileTypeInit == Init => FileTypeOK
<1>. SUFFICES ASSUME Init PROVE FileTypeOK
  OBVIOUS
<1>1. [month |-> 0, day |-> 0] \in Dates
  BY DEF Dates
<1>2. DOMAIN files = {}
  BY DEF Init
<1>. QED
  BY <1>1, <1>2 DEF Init, FileTypeOK

\* What DecisFile leaves, if it opens a file
LEMMA OpenType ==
  ASSUME FileTypeOK, NEW fs, FilesTyped(fs), NEW n \in Names, NEW cnt \in Nat,
         FopenW(fs, n, cnt), m_date' \in Dates, Frame
  PROVE  FileTypeOK'
<1>1. /\ FilesTyped(files') /\ m_pFp' \in Names \cup {NULL} /\ m_iLogCnt' \in Nat
      /\ m_pFp' # NULL => m_pFp' \in DOMAIN files'
      /\ cpc' \in {"wait", "persist"}
      /\ cpc' = "persist" => m_pFp' # NULL
  BY FopenType DEF FileTypeOK
<1>. QED
  BY <1>1 DEF FileTypeOK, FilesTyped, Frame

LEMMA Batch ==
  ASSUME NEW a \in Nat, NEW b \in Nat, a <= b
  PROVE  /\ [i \in 1 .. b - a |-> a + i] \in Seq(Nat)
         /\ Len([i \in 1 .. b - a |-> a + i]) = b - a
<1>1. b - a \in Nat
  OBVIOUS
<1>2. \A i \in 1 .. b - a : a + i \in Nat
  OBVIOUS
<1>. QED
  BY <1>1, <1>2

LEMMA FileTypeStep == TimeTypeOK /\ FileTypeOK /\ [Next]_vars => FileTypeOK'
<1>. SUFFICES ASSUME TimeTypeOK, FileTypeOK, [Next]_vars PROVE FileTypeOK'
  OBVIOUS
<1>1. FilesTyped(files) /\ m_iLogCnt \in Nat /\ date \in Dates /\ m_date \in Dates
  BY DEF FileTypeOK, FilesTyped
<1>2. CASE Background \/ UNCHANGED vars
  BY <1>2 DEF Background, vars, fileVars, FileTypeOK
<1>3. CASE \E t \in Threads : LogLine(t)
  <2>1. \E n \in Lens : appended' = appended + n
    BY <1>3 DEF LogLine
  <2>2. appended' \in Nat /\ appended <= appended'
    BY <2>1, FileAssumption DEF FileTypeOK
  <2>3. sealed' <= appended'
    BY <1>3, <2>2 DEF LogLine, FileTypeOK
  <2>. QED
    BY <1>3, <2>2, <2>3 DEF LogLine, storeVars, FileTypeOK
<1>4. CASE Wake
  <2>1. fields.month \in Nat /\ fields.day \in Nat
    BY DEF TimeTypeOK, Times
  <2>2. date' \in Dates /\ months' \subseteq Nat
    BY <1>4, <2>1 DEF Wake, Dates, FileTypeOK
  <2>3. sealed' \in Nat /\ written <= sealed' /\ sealed' <= appended
    BY <1>4 DEF Wake, FileTypeOK
  <2>4. trusted' \in BOOLEAN
    BY <1>4 DEF Wake
  <2>. QED
    BY <1>4, <2>2, <2>3, <2>4 DEF Wake, storeVars, FileTypeOK
<1>5. CASE NoDirectory
  BY <1>1, <1>5, OpenType DEF NoDirectory, Names
<1>6. CASE FirstFile
  BY <1>1, <1>6, OpenType, NameParts DEF FirstFile, Names
<1>7. CASE NewDay
  <2>1. m_date' \in Dates
    BY <1>1, <1>7 DEF NewDay, Dates
  <2>2. File(m_date', 0) \in Names
    BY <2>1 DEF File, Names
  <2>. QED
    BY <1>1, <1>7, <2>1, <2>2, OpenType DEF NewDay
<1>8. CASE Rotate
  <2>1. FilesTyped(Renamed(date, m_iLogCnt)) /\ File(date, 0) \in Names
    BY <1>1, RenamedType DEF File, Names
  <2>. QED
    BY <1>1, <1>8, <2>1, OpenType DEF Rotate
<1>9. CASE KeepFile
  BY <1>9 DEF KeepFile, SameDay, Frame, storeVars, FileTypeOK
<1>10. CASE Persist
  <2>1. m_pFp # NULL /\ m_pFp \in DOMAIN files /\ files[m_pFp] \in Seq(Nat)
    BY <1>10 DEF Persist, FileTypeOK
  <2>2. [i \in 1 .. sealed - written |-> written + i] \in Seq(Nat)
    BY Batch DEF FileTypeOK
  <2>3. files[m_pFp] \o [i \in 1 .. sealed - written |-> written + i] \in Seq(Nat)
    BY <2>1, <2>2
  <2>4. DOMAIN files' = DOMAIN files
    BY <1>10 DEF Persist
  <2>5. \A n \in DOMAIN files' : files'[n] \in Seq(Nat)
    BY <1>10, <2>1, <2>3, <2>4 DEF Persist, FileTypeOK
  <2>. QED
    BY <1>10, <2>1, <2>4, <2>5 DEF Persist, FileTypeOK
<1>. QED
  BY <1>2, <1>3, <1>4, <1>5, <1>6, <1>7, <1>8, <1>9, <1>10 DEF Next, Consume

\* Every variable keeps its type in every behaviour; a file is open whenever the
\* consumer writes.
THEOREM FileTypeCorrect == Spec => []TypeOK
<1>1. Init => TypeOK
  BY TimeTypeInit, FileTypeInit DEF Init, TypeOK
<1>2. TypeOK /\ [Next]_vars => TypeOK'
  BY TimeStep, TimeTypeStep, FileTypeStep DEF TypeOK
<1>. QED
  BY <1>1, <1>2, PTL DEF Spec

\* The consumer and the files take nothing away from the time cache's exactness.
THEOREM FileCacheExact == Spec => []CacheExact
<1>1. Init => TimeInv
  BY TimeInitInv DEF Init
<1>2. TimeInv /\ [Next]_vars => TimeInv'
  BY TimeStep, TimeInvStep
<1>. QED
  BY <1>1, <1>2, TimeInvExact, PTL DEF Spec

-----------------------------------------------------------------------------
(* The files of a day are in order. *)

\* FilesInOrder of the files fs, which hold nothing that is not written
Ordered(fs) ==
  /\ \A n \in DOMAIN fs : \A i, j \in DOMAIN fs[n] : i < j => fs[n][i] < fs[n][j]
  /\ \A n, o \in DOMAIN fs : n.date = o.date /\ n.k > o.k =>
       \A i \in DOMAIN fs[n], j \in DOMAIN fs[o] : fs[n][i] < fs[o][j]
  /\ \A n \in DOMAIN fs : \A i \in DOMAIN fs[n] : fs[n][i] <= written

\* The open file is the last of its day: its number is 0.
OrderInv == Ordered(files) /\ (m_pFp # NULL => m_pFp.k = 0)

LEMMA OpenOrder ==
  ASSUME NEW fs, Ordered(fs), NEW n, n.k = 0, NEW cnt, FopenW(fs, n, cnt),
         written' = written
  PROVE  OrderInv'
<1>1. CASE files' = fs /\ m_pFp' = NULL
  BY <1>1 DEF OrderInv, Ordered
<1>2. CASE /\ m_pFp' = n
           /\ files' = [x \in DOMAIN fs \cup {n} |-> IF x = n THEN <<>> ELSE fs[x]]
  <2>1. DOMAIN files' = DOMAIN fs \cup {n}
    BY <1>2
  <2>2. \A x \in DOMAIN files' : \A i \in DOMAIN files'[x] :
          x \in DOMAIN fs /\ files'[x] = fs[x]
    <3>1. DOMAIN <<>> = {}
      OBVIOUS
    <3>. QED
      BY <1>2, <3>1
  <2>. QED
    BY <1>2, <2>1, <2>2 DEF OrderInv, Ordered
<1>. QED
  BY <1>1, <1>2 DEF FopenW

\* The renames keep the order: of two files of a day the one with the higher
\* number still has it.
LEMMA RenamedOrder ==
  ASSUME FilesTyped(files), Ordered(files), NEW d \in Dates, NEW cnt \in Nat
  PROVE  Ordered(Renamed(d, cnt))
<1>. DEFINE R == Renamed(d, cnt)
            From(y, x) == /\ x \in DOMAIN files /\ R[y] = files[x] /\ y.date = x.date
                          /\ IF Moves(x, d, cnt) THEN y.k = x.k + 1 ELSE y = x
<1>1. \A y \in DOMAIN R : \E x : From(y, x)
  BY RenamedFrom
<1>2. \A x \in DOMAIN files : x.k \in Nat
  BY NameParts DEF FilesTyped
<1>. HIDE DEF R
<1>3. \A y \in DOMAIN R : \A i, j \in DOMAIN R[y] : i < j => R[y][i] < R[y][j]
  BY <1>1 DEF Ordered
<1>4. \A y \in DOMAIN R : \A i \in DOMAIN R[y] : R[y][i] <= written
  BY <1>1 DEF Ordered
<1>5. ASSUME NEW y \in DOMAIN R, NEW z \in DOMAIN R, y.date = z.date, y.k > z.k,
             NEW i \in DOMAIN R[y], NEW j \in DOMAIN R[z]
      PROVE  R[y][i] < R[z][j]
  <2>1. PICK x : From(y, x)
    BY <1>1
  <2>2. PICK w : From(z, w)
    BY <1>1
  <2>3. x.k \in Nat /\ w.k \in Nat /\ x.date = w.date
    BY <1>2, <1>5, <2>1, <2>2
  <2>4. x.k >= w.k
    BY <1>5, <2>1, <2>2, <2>3 DEF Moves
  <2>5. x.k # w.k
    BY <1>5, <2>1, <2>2, <2>3 DEF Moves
  <2>6. x.k > w.k
    BY <2>3, <2>4, <2>5
  <2>. QED
    BY <2>1, <2>2, <2>3, <2>6 DEF Ordered
<1>6. Ordered(R)
  BY <1>3, <1>4, <1>5 DEF Ordered
<1>. QED
  BY <1>6 DEF R

\* What is appended to the open file is newer than all that is in any file.
LEMMA PersistOrder ==
  ASSUME FileTypeOK, OrderInv, Persist
  PROVE  OrderInv'
<1>. DEFINE a == files[m_pFp]
            b == [i \in 1 .. sealed - written |-> written + i]
<1>1. /\ m_pFp \in DOMAIN files /\ m_pFp.k = 0 /\ m_pFp # NULL
      /\ a \in Seq(Nat) /\ FilesTyped(files)
  BY DEF Persist, FileTypeOK, OrderInv, FilesTyped
<1>2. written \in Nat /\ sealed \in Nat /\ written <= sealed /\ written' = sealed
  BY DEF Persist, FileTypeOK
<1>3. b \in Seq(Nat) /\ Len(b) = sealed - written /\ \A i \in 1 .. Len(b) : b[i] = written + i
  BY <1>2, Batch
<1>. HIDE DEF a, b
<1>4. DOMAIN files' = DOMAIN files /\ files' = [files EXCEPT ![m_pFp] = a \o b]
  BY DEF Persist, a, b
<1>5. files'[m_pFp] = a \o b /\ \A n \in DOMAIN files : n # m_pFp => files'[n] = files[n]
  BY <1>1, <1>4
<1>6. \A i \in DOMAIN a : i \in 1 .. Len(a) /\ a[i] \in Nat /\ a[i] <= written
  BY <1>1 DEF OrderInv, Ordered, a
<1>7. \A i \in DOMAIN (a \o b) :
        /\ i \in 1 .. Len(a) + Len(b)
        /\ (a \o b)[i] = IF i <= Len(a) THEN a[i] ELSE b[i - Len(a)]
  BY <1>1, <1>3
<1>8. ASSUME NEW i \in DOMAIN (a \o b)
      PROVE  /\ i \in Nat /\ Len(a) \in Nat
             /\ i <= Len(a) => i \in DOMAIN a /\ (a \o b)[i] = a[i] /\ a[i] <= written
             /\ i > Len(a) => (a \o b)[i] = written + (i - Len(a)) /\ i - Len(a) \in 1 .. sealed - written
  <2>1. i \in Nat /\ Len(a) \in Nat /\ 1 <= i /\ i <= Len(a) + Len(b)
    BY <1>1, <1>3, <1>7
  <2>2. CASE i <= Len(a)
    <3>1. i \in DOMAIN a
      BY <1>1, <2>1, <2>2
    <3>. QED
      BY <1>6, <1>7, <2>1, <2>2, <3>1
  <2>3. CASE i > Len(a)
    <3>1. i - Len(a) \in 1 .. Len(b)
      BY <1>3, <2>1, <2>3
    <3>2. b[i - Len(a)] = written + (i - Len(a))
      BY <1>3, <3>1
    <3>. QED
      BY <1>3, <1>7, <2>1, <2>3, <3>1, <3>2
  <2>. QED
    BY <2>1, <2>2, <2>3
<1>9. \A i \in DOMAIN (a \o b) : (a \o b)[i] <= sealed
  BY <1>2, <1>6, <1>8
<1>10. \A i, j \in DOMAIN (a \o b) : i < j => (a \o b)[i] < (a \o b)[j]
  <2>1. \A i, j \in DOMAIN a : i < j => a[i] < a[j]
    BY <1>1 DEF OrderInv, Ordered, a
  <2>2. TAKE i \in DOMAIN (a \o b), j \in DOMAIN (a \o b)
  <2>3. CASE j <= Len(a)
    BY <1>8, <2>1, <2>3
  <2>4. CASE j > Len(a)
    BY <1>2, <1>6, <1>8, <2>4
  <2>. QED
    BY <1>8, <2>3, <2>4
<1>11. \A n \in DOMAIN files : n # m_pFp => \A i \in DOMAIN files[n] : files[n][i] \in Nat /\ files[n][i] <= written
  BY <1>1 DEF OrderInv, Ordered, FilesTyped
<1>12. \A n, o \in DOMAIN files : n.date = o.date /\ n.k > o.k =>
         \A i \in DOMAIN files'[n], j \in DOMAIN files'[o] : files'[n][i] < files'[o][j]
  <2>. SUFFICES ASSUME NEW n \in DOMAIN files, NEW o \in DOMAIN files,
                       n.date = o.date, n.k > o.k,
                       NEW i \in DOMAIN files'[n], NEW j \in DOMAIN files'[o]
                PROVE  files'[n][i] < files'[o][j]
    OBVIOUS
  <2>1. n.k \in Nat /\ o.k \in Nat
    BY <1>1, NameParts DEF FilesTyped
  <2>2. n # m_pFp
    BY <1>1, <2>1
  <2>3. files'[n] = files[n] /\ files[n][i] \in Nat /\ files[n][i] <= written
    BY <1>5, <1>11, <2>2
  <2>4. CASE o # m_pFp
    BY <1>5, <2>3, <2>4 DEF OrderInv, Ordered
  <2>5. CASE o = m_pFp /\ j <= Len(a)
    <3>1. j \in DOMAIN a /\ files'[o][j] = a[j]
      BY <1>5, <1>8, <2>5
    <3>. QED
      BY <2>3, <2>5, <3>1 DEF OrderInv, Ordered, a
  <2>6. CASE o = m_pFp /\ j > Len(a)
    <3>1. files'[o][j] = written + (j - Len(a)) /\ j - Len(a) \in 1 .. sealed - written
      BY <1>5, <1>8, <2>6
    <3>. QED
      BY <1>2, <2>3, <3>1
  <2>7. o = m_pFp => j \in Nat /\ Len(a) \in Nat
    BY <1>5, <1>8
  <2>. QED
    BY <2>4, <2>5, <2>6, <2>7
<1>13. \A n \in DOMAIN files : \A i, j \in DOMAIN files'[n] : i < j => files'[n][i] < files'[n][j]
  BY <1>5, <1>10 DEF OrderInv, Ordered
<1>14. \A n \in DOMAIN files : \A i \in DOMAIN files'[n] : files'[n][i] <= written'
  <2>. SUFFICES ASSUME NEW n \in DOMAIN files, NEW i \in DOMAIN files'[n]
                PROVE  files'[n][i] <= sealed
    BY <1>2
  <2>1. CASE n = m_pFp
    BY <1>5, <1>9, <2>1
  <2>2. CASE n # m_pFp
    <3>1. files'[n] = files[n] /\ files[n][i] \in Nat /\ files[n][i] <= written
      BY <1>5, <1>11, <2>2
    <3>. QED
      BY <1>2, <3>1
  <2>. QED
    BY <2>1, <2>2
<1>15. m_pFp' = m_pFp /\ DOMAIN files' = DOMAIN files
  BY <1>4 DEF Persist
<1>16. Ordered(files)'
  BY <1>12, <1>13, <1>14, <1>15 DEF Ordered
<1>. QED
  BY <1>1, <1>15, <1>16 DEF OrderInv

LEMMA OrderStep == TimeTypeOK /\ FileTypeOK /\ OrderInv /\ [Next]_vars => OrderInv'
<1>. SUFFICES ASSUME FileTypeOK, OrderInv, [Next]_vars PROVE OrderInv'
  OBVIOUS
<1>1. FilesTyped(files) /\ m_iLogCnt \in Nat /\ date \in Dates
  BY DEF FileTypeOK, FilesTyped
<1>2. Ordered(files)
  BY DEF OrderInv
<1>3. File(date, 0).k = 0 /\ File(m_date', 0).k = 0 /\ Null.k = 0
  BY DEF File, Null
<1>4. CASE Background \/ UNCHANGED vars \/ (\E t \in Threads : LogLine(t)) \/ Wake \/ KeepFile
  BY <1>4 DEF Background, vars, fileVars, LogLine, Wake, KeepFile, Frame, storeVars,
              OrderInv, Ordered
<1>5. CASE NoDirectory
  BY <1>2, <1>3, <1>5, OpenOrder DEF NoDirectory, Frame
<1>6. CASE FirstFile
  BY <1>2, <1>3, <1>6, OpenOrder DEF FirstFile, Frame
<1>7. CASE NewDay
  BY <1>2, <1>3, <1>7, OpenOrder DEF NewDay, Frame
<1>8. CASE Rotate
  <2>1. Ordered(Renamed(date, m_iLogCnt))
    BY <1>1, <1>2, RenamedOrder
  <2>. QED
    BY <1>3, <1>8, <2>1, OpenOrder DEF Rotate, Frame
<1>9. CASE Persist
  BY <1>9, PersistOrder
<1>. QED
  BY <1>4, <1>5, <1>6, <1>7, <1>8, <1>9 DEF Next, Consume

\* In every behaviour, whatever fopen and the dates do, the files of a day hold its
\* records in order and once, the file with the highest number first.
THEOREM FilesStayInOrder == Spec => []FilesInOrder
<1>1. Init => TypeOK /\ OrderInv
  <2>. SUFFICES ASSUME Init PROVE TypeOK /\ OrderInv
    OBVIOUS
  <2>1. DOMAIN files = {} /\ m_pFp = NULL
    BY DEF Init
  <2>. QED
    BY <2>1, TimeTypeInit, FileTypeInit DEF Init, TypeOK, OrderInv, Ordered
<1>2. TypeOK /\ OrderInv /\ [Next]_vars => TypeOK' /\ OrderInv'
  BY TimeStep, TimeTypeStep, FileTypeStep, OrderStep DEF TypeOK
<1>3. OrderInv => FilesInOrder
  BY DEF OrderInv, Ordered, FilesInOrder, RecordsOf
<1>. QED
  BY <1>1, <1>2, <1>3, PTL DEF Spec

-----------------------------------------------------------------------------
(* The dates the consumer reads do not go back. *)

DateAt(s) == [month |-> MonthOf[s \div MIN], day |-> DayOf[s \div MIN]]
FieldsDate == [month |-> fields.month, day |-> fields.day]
Untorn == clean /\ \A t \in Threads : tpc[t] # "day"

\* No thread has taken a time after the clock's.
ClockInv == \A t \in Threads : tv[t] <= now

\* What a thread that is alone is going to store, and an untorn date in the cache,
\* are of lo or later.
ReadInv(lo) ==
  /\ lo <= now
  /\ \A t \in alone : tpc[t] # "out" => lo <= tv[t]
  /\ Untorn =>
       \E s \in Seconds :
         /\ lo <= s /\ s <= now /\ FieldsDate = DateAt(s)
         /\ \A t \in alone : tpc[t] # "out" => s <= tv[t]

LEMMA LocalDate ==
  ASSUME NEW s \in Seconds
  PROVE  DateAt(s) = [month |-> LocalTime(s).month, day |-> LocalTime(s).day]
  BY DEF DateAt, LocalTime

LEMMA ClockStep == TimeTypeOK /\ ClockInv /\ [TimeNext]_timeVars => ClockInv'
<1>. SUFFICES ASSUME TimeTypeOK, ClockInv, [TimeNext]_timeVars PROVE ClockInv'
  OBVIOUS
<1>. USE DEF TimeTypeOK, ClockInv, Goto, Quiet
<1>1. now \in Nat /\ \A t \in Threads : tv[t] \in Nat
  BY TimeAssumption DEF Seconds
<1>2. CASE SecondPasses
  <2>1. now' = now + 1 /\ tv' = tv
    BY <1>2 DEF SecondPasses
  <2>. QED
    BY <1>1, <2>1
<1>3. ASSUME NEW t \in Threads, GetTime(t) PROVE ClockInv'
  <2>1. tv' = [tv EXCEPT ![t] = now] /\ now' = now
    BY <1>3 DEF GetTime
  <2>. QED
    BY <1>1, <2>1
<1>4. CASE UNCHANGED <<now, tv>>
  BY <1>4
<1>5. ASSUME NEW t \in Threads, GetCurTime(t) \/ Leave(t), ~GetTime(t)
      PROVE  UNCHANGED <<now, tv>>
  BY <1>5 DEF GetCurTime, SameSecond, NewSecond, SameMinute, AddTimeSec, NewMinute,
              StoreMinute, GetLocalTime, StoreMonth, StoreRest, AddTimeAll, Leave
<1>6. CASE UNCHANGED timeVars
  BY <1>4, <1>6 DEF timeVars
<1>. QED
  BY <1>2, <1>3, <1>4, <1>5, <1>6 DEF TimeNext

\* Each step of a thread keeps ReadInv.
LEMMA ReadStepThread ==
  ASSUME TimeInv, ClockInv, NEW lo \in Seconds, ReadInv(lo), NEW t \in Threads,
         GetCurTime(t) \/ Leave(t)
  PROVE  ReadInv(lo)'
<1>. USE DEF TimeTypeOK, Goto, Quiet
<1>1. /\ now \in Nat /\ lo \in Nat /\ TimeTypeOK
      /\ \A u \in Threads : tv[u] \in Seconds /\ tv[u] \in Nat /\ tv[u] <= now
  BY TimeAssumption DEF Seconds, TimeInv, ClockInv
<1>2. CASE GetTime(t)
  <2>1. /\ now' = now /\ fields' = fields /\ alone' \subseteq {t}
        /\ tv' = [tv EXCEPT ![t] = now] /\ tpc' = [tpc EXCEPT ![t] = "got"]
        /\ clean' => clean
    BY <1>2 DEF GetTime, cacheVars
  <2>2. tv'[t] = now
    BY <1>1, <2>1
  <2>3. Untorn' => Untorn
    <3>1. clean' => \A u \in Threads : tpc[u] = "out"
      BY <1>2 DEF GetTime, Inside
    <3>. QED
      BY <2>1, <3>1 DEF Untorn
  <2>4. FieldsDate' = FieldsDate
    BY <2>1 DEF FieldsDate
  <2>. QED
    BY <1>1, <2>1, <2>2, <2>3, <2>4 DEF ReadInv
<1>3. ASSUME ~GetTime(t)
      PROVE  now' = now /\ tv' = tv /\ alone' = alone /\ tpc[t] # "out"
  BY <1>3 DEF GetCurTime, SameSecond, NewSecond, SameMinute, AddTimeSec, NewMinute,
              StoreMinute, GetLocalTime, StoreMonth, StoreRest, AddTimeAll, Leave
<1>4. \E pc : tpc' = [tpc EXCEPT ![t] = pc]
  BY DEF GetCurTime, GetTime, SameSecond, NewSecond, SameMinute, AddTimeSec, NewMinute,
         StoreMinute, GetLocalTime, StoreMonth, StoreRest, AddTimeAll, Leave
<1>5. ASSUME ~GetTime(t), NEW u \in alone, tpc'[u] # "out" PROVE tpc[u] # "out"
  BY <1>1, <1>3, <1>4, <1>5
<1>6. CASE \/ SameSecond(t) \/ NewSecond(t) \/ SameMinute(t) \/ AddTimeSec(t)
           \/ NewMinute(t) \/ StoreMinute(t) \/ GetLocalTime(t) \/ Leave(t)
  <2>1. ~GetTime(t) /\ clean' = clean /\ tpc[t] # "day"
    BY <1>6 DEF SameSecond, NewSecond, SameMinute, AddTimeSec, NewMinute, StoreMinute,
                GetLocalTime, Leave, GetTime
  <2>2. fields'.month = fields.month /\ fields'.day = fields.day
    BY <1>1, <1>6 DEF SameSecond, NewSecond, SameMinute, AddTimeSec, NewMinute, StoreMinute,
                GetLocalTime, Leave, Times, cacheVars
  <2>3. Untorn' => Untorn
    BY <1>1, <1>4, <2>1 DEF Untorn
  <2>4. FieldsDate' = FieldsDate
    BY <2>2 DEF FieldsDate
  <2>. QED
    BY <1>1, <1>3, <1>5, <2>1, <2>3, <2>4 DEF ReadInv
<1>7. CASE StoreMonth(t)
  <2>1. ~GetTime(t) /\ tpc'[t] = "day"
    BY <1>1, <1>7 DEF StoreMonth, GetTime
  <2>2. ~Untorn'
    BY <2>1 DEF Untorn
  <2>. QED
    BY <1>1, <1>3, <1>5, <2>1, <2>2 DEF ReadInv
<1>8. ASSUME t \in alone, ~GetTime(t), fields'.month = LocalTime(tv[t]).month,
             fields'.day = LocalTime(tv[t]).day
      PROVE  ReadInv(lo)'
  <2>1. FieldsDate' = DateAt(tv[t])
    BY <1>1, <1>8, LocalDate DEF FieldsDate
  <2>2. \A u \in alone : u = t
    BY <1>3, <1>8 DEF TimeInv, AloneInv
  <2>3. lo <= tv[t]
    BY <1>3, <1>8 DEF ReadInv
  <2>4. DateAt(tv[t])' = DateAt(tv[t])
    BY <1>3, <1>8 DEF DateAt
  <2>. QED
    BY <1>1, <1>3, <1>5, <1>8, <2>1, <2>2, <2>3 DEF ReadInv
<1>9. CASE StoreRest(t)
  <2>1. ~GetTime(t) /\ tpc[t] = "day" /\ clean' = clean
    BY <1>9 DEF StoreRest, GetTime
  <2>2. CASE clean
    <3>1. t \in alone
      BY <2>1, <2>2 DEF TimeInv, CleanInv
    <3>2. tm[t] = tv[t] /\ fields.month = LocalTime(tm[t]).month
      BY <2>1, <3>1 DEF TimeInv, SoloInv
    <3>3. LocalTime(tm[t]) \in Times
      BY <1>1, LocalTimeType
    <3>4. fields'.month = fields.month /\ fields'.day = LocalTime(tm[t]).day
      BY <1>9, <3>3 DEF StoreRest, Times
    <3>. QED
      BY <1>8, <2>1, <3>1, <3>2, <3>4
  <2>3. CASE ~clean
    BY <1>1, <1>3, <1>5, <2>1, <2>3 DEF ReadInv, Untorn
  <2>. QED
    BY <2>2, <2>3
<1>10. CASE AddTimeAll(t)
  <2>1. ~GetTime(t) /\ tpc[t] = "text" /\ clean' = (clean \/ t \in alone) /\ fields' = fields
    BY <1>10 DEF AddTimeAll, GetTime
  <2>2. CASE t \in alone
    <3>1. tm[t] = tv[t] /\ fields = LocalTime(tm[t])
      BY <2>1, <2>2 DEF TimeInv, SoloInv
    <3>. QED
      BY <1>8, <2>1, <2>2, <3>1
  <2>3. CASE t \notin alone
    <3>1. ~clean'
      BY <2>1, <2>3 DEF TimeInv, CleanInv
    <3>. QED
      BY <1>1, <1>3, <1>5, <2>1, <3>1 DEF ReadInv, Untorn
  <2>. QED
    BY <2>2, <2>3
<1>. QED
  BY <1>2, <1>6, <1>7, <1>9, <1>10 DEF GetCurTime

LEMMA ReadStep ==
  ASSUME TimeInv, ClockInv, NEW lo \in Seconds, ReadInv(lo), [TimeNext]_timeVars
  PROVE  ReadInv(lo)'
<1>1. CASE SecondPasses
  <2>1. now \in Nat /\ now' = now + 1 /\ lo \in Nat
    BY <1>1, TimeAssumption DEF SecondPasses, Seconds, TimeInv, TimeTypeOK
  <2>2. \A s \in Seconds : s <= now => s <= now'
    BY <2>1, TimeAssumption DEF Seconds
  <2>3. UNCHANGED <<fields, tpc, tv, alone, clean>>
    BY <1>1 DEF SecondPasses, cacheVars
  <2>. QED
    BY <2>1, <2>2, <2>3 DEF ReadInv, Untorn, FieldsDate
<1>2. CASE UNCHANGED timeVars
  BY <1>2 DEF timeVars, ReadInv, Untorn, FieldsDate
<1>. QED
  BY <1>1, <1>2, ReadStepThread DEF TimeNext

\* Later seconds are in later minutes, and within a month on later days.
LEMMA DaysPass ==
  ASSUME NEW s \in Seconds, NEW u \in Seconds, s <= u, DateAt(s).month = DateAt(u).month
  PROVE  DateAt(s).day <= DateAt(u).day
<1>. DEFINE a == s \div MIN
            b == u \div MIN
<1>1. s \in Nat /\ u \in Nat /\ MIN \in Nat /\ MIN > 0
  BY TimeAssumption DEF Seconds
<1>2. a <= b
  BY <1>1
<1>3. a \in Minutes /\ b \in Minutes
  BY DEF Minutes
<1>. HIDE DEF a, b
<1>4. MonthOf[a] = MonthOf[b] => DayOf[a] <= DayOf[b]
  BY <1>2, <1>3, TimeAssumption
<1>. QED
  BY <1>4 DEF DateAt, a, b

-----------------------------------------------------------------------------
(* No record is written over. *)

OneMonth == \A a, b \in months : a = b
Good == m_bEnv /\ trusted /\ OneMonth

\* The last date read is that of a second lo, before which nothing will be read.
DateInv ==
  trusted => \E lo \in Seconds : ReadInv(lo) /\ (months # {} => date = DateAt(lo))

Held(fs, r) == \E n \in DOMAIN fs : r \in RecordsOf(fs[n])

\* Files are of days up to m_date.day; those of m_date have the numbers below
\* m_iLogCnt, or 1 .. m_iLogCnt while none is open and name.log is free.
StoreInv ==
  /\ m_pFp # NULL => m_pFp = File(m_date, 0)
  /\ m_pFp # NULL \/ DOMAIN files # {} => m_date.month \in months
  /\ months = {} => m_date.day = 0
  /\ m_date.day <= date.day
  /\ months # {} => date.month \in months
  /\ cpc = "open" => months # {}
  /\ \A n \in DOMAIN files :
       /\ n.date \in Dates /\ n.date.month \in months /\ n.date.day <= m_date.day
       /\ n.date = m_date => IF m_pFp = NULL THEN n.k \in 1 .. m_iLogCnt
                                             ELSE n.k < m_iLogCnt
  /\ \A r \in 1 .. written : Held(files, r)

EveryInv == Good => StoreInv

\* A date read is the date of a second, and no earlier than the last one.
LEMMA WakeDate ==
  ASSUME TimeInv, DateInv, Wake, trusted'
  PROVE  /\ DateInv'
         /\ months # {} /\ date.month = date'.month => date.day <= date'.day
<1>1. /\ trusted /\ Untorn /\ date' = FieldsDate
      /\ UNCHANGED <<now, fields, tpc, tv, alone, clean>>
  BY DEF Wake, Untorn, FieldsDate, timeVars
<1>2. PICK lo \in Seconds : ReadInv(lo) /\ (months # {} => date = DateAt(lo))
  BY <1>1 DEF DateInv
<1>3. PICK s \in Seconds :
        /\ lo <= s /\ s <= now /\ FieldsDate = DateAt(s)
        /\ \A t \in alone : tpc[t] # "out" => s <= tv[t]
  BY <1>1, <1>2 DEF ReadInv
<1>4. s <= s
  BY TimeAssumption DEF Seconds
<1>5. ReadInv(s)'
  BY <1>1, <1>3, <1>4 DEF ReadInv, FieldsDate
<1>6. DateInv'
  BY <1>1, <1>3, <1>5 DEF DateInv
<1>7. months # {} /\ date.month = date'.month => date.day <= date'.day
  BY <1>1, <1>2, <1>3, DaysPass
<1>. QED
  BY <1>6, <1>7

LEMMA DateStep == TimeInv /\ ClockInv /\ DateInv /\ [Next]_vars => DateInv'
<1>. SUFFICES ASSUME TimeInv, ClockInv, DateInv, [Next]_vars PROVE DateInv'
  OBVIOUS
<1>1. CASE Wake
  <2>1. CASE trusted'
    BY <1>1, <2>1, WakeDate
  <2>2. CASE ~trusted'
    BY <2>2 DEF DateInv
  <2>. QED
    BY <2>1, <2>2
<1>2. ASSUME UNCHANGED <<date, trusted, months>> PROVE DateInv'
  <2>. SUFFICES ASSUME trusted PROVE DateInv'
    BY <1>2 DEF DateInv
  <2>1. PICK lo \in Seconds : ReadInv(lo) /\ (months # {} => date = DateAt(lo))
    BY DEF DateInv
  <2>2. ReadInv(lo)'
    BY <2>1, TimeStep, ReadStep
  <2>. QED
    BY <1>2, <2>1, <2>2 DEF DateInv
<1>3. Wake \/ UNCHANGED <<date, trusted, months>>
  BY DEF Next, Consume, Background, fileVars, LogLine, NoDirectory, FirstFile, NewDay,
         Rotate, KeepFile, Persist, Frame, vars
<1>. QED
  BY <1>1, <1>2, <1>3

LEMMA WakeStore ==
  ASSUME TimeInv, FileTypeOK, DateInv, StoreInv, Wake, Good'
  PROVE  StoreInv'
<1>1. /\ trusted' /\ months' = months \cup {date'.month} /\ cpc' = "open"
      /\ UNCHANGED <<m_pFp, m_date, m_iLogCnt, files, written>>
  BY DEF Wake, Good, storeVars
<1>2. date'.month \in months'
  BY <1>1
<1>3. date \in Dates /\ date' \in Dates /\ m_date \in Dates
  BY DEF Wake, FileTypeOK, TimeInv, TimeTypeOK, Times, Dates
<1>4. m_date.day <= date'.day
  <2>1. CASE months = {}
    BY <1>3, <2>1 DEF StoreInv, Dates
  <2>2. CASE months # {}
    <3>1. date.month = date'.month
      BY <1>1, <1>2, <2>2 DEF StoreInv, Good, OneMonth
    <3>2. date.day <= date'.day
      BY <1>1, <2>2, <3>1, WakeDate
    <3>. QED
      BY <1>3, <3>2 DEF StoreInv, Dates
  <2>. QED
    BY <2>1, <2>2
<1>. QED
  BY <1>1, <1>2, <1>4 DEF StoreInv

\* Opening a name that is free loses nothing.
LEMMA OpenHeld ==
  ASSUME NEW fs, NEW n, n \notin DOMAIN fs, NEW cnt, FopenW(fs, n, cnt),
         NEW r, Held(fs, r)
  PROVE  Held(files', r)
<1>1. CASE files' = fs
  BY <1>1
<1>2. CASE files' = [x \in DOMAIN fs \cup {n} |-> IF x = n THEN <<>> ELSE fs[x]]
  BY <1>2 DEF Held
<1>. QED
  BY <1>1, <1>2 DEF FopenW

\* The names that exist after fopen, and what is then open
LEMMA OpenNames ==
  ASSUME NEW fs, NEW n, n # NULL, NEW cnt, FopenW(fs, n, cnt)
  PROVE  \/ /\ DOMAIN files' = DOMAIN fs \cup {n} /\ m_pFp' = n /\ m_pFp' # NULL
            /\ m_iLogCnt' = cnt /\ cpc' = "persist"
         \/ /\ DOMAIN files' = DOMAIN fs /\ m_pFp' = NULL
            /\ m_iLogCnt' = m_iLogCnt /\ cpc' = "wait"
  BY DEF FopenW

LEMMA DateName ==
  ASSUME NEW d \in Dates
  PROVE  File(d, 0) \in Names /\ File(d, 0) # NULL
<1>1. File(d, 0) = [date |-> d, k |-> 0] /\ 0 \in Nat
  BY DEF File
<1>2. [date |-> d, k |-> 0] \in [date : Dates, k : Nat]
  BY <1>1
<1>3. File(d, 0) \in Names
  BY <1>1, <1>2 DEF Names
<1>. QED
  BY <1>3, FileAssumption

LEMMA FirstFileStore ==
  ASSUME FileTypeOK, Good, StoreInv, FirstFile
  PROVE  StoreInv'
<1>1. /\ cpc = "open" /\ m_pFp = NULL /\ m_date' = date
      /\ FopenW(files, File(date, 0), m_iLogCnt + 1)
      /\ UNCHANGED <<written, date, months>>
  BY DEF FirstFile, Frame
<1>2. /\ date \in Dates /\ m_date \in Dates /\ m_iLogCnt \in Nat /\ FilesTyped(files)
      /\ date.month \in months /\ months # {}
  BY <1>1 DEF FileTypeOK, FilesTyped, StoreInv
<1>3. File(date, 0) # NULL /\ File(date, 0) \in Names
  BY <1>2, DateName
<1>4. ASSUME NEW n \in DOMAIN files, n.date = date PROVE n.k \in 1 .. m_iLogCnt
  <2>1. date.day = m_date.day
    BY <1>2, <1>4 DEF StoreInv, Dates
  <2>2. date.month = m_date.month
    BY <1>2, <1>4 DEF StoreInv, Good, OneMonth
  <2>3. n.date = m_date
    BY <1>2, <1>4, <2>1, <2>2 DEF Dates
  <2>. QED
    BY <1>1, <2>3 DEF StoreInv
<1>5. File(date, 0) \notin DOMAIN files
  BY <1>4 DEF File
<1>6. \A r \in 1 .. written' : Held(files', r)
  BY <1>1, <1>5, OpenHeld DEF StoreInv
<1>7. File(date, 0).date = date /\ File(date, 0).k = 0 /\ date.day <= date.day
  BY <1>2 DEF File, Dates
<1>8. \A n \in DOMAIN files : n.date \in Dates /\ n.date.month \in months /\ n.date.day <= date.day
  BY <1>2 DEF StoreInv, Dates
<1>9. CASE /\ DOMAIN files' = DOMAIN files \cup {File(date, 0)} /\ m_pFp' = File(date, 0)
           /\ m_pFp' # NULL /\ m_iLogCnt' = m_iLogCnt + 1 /\ cpc' = "persist"
  <2>1. \A n \in DOMAIN files' : n.date = date => n.k < m_iLogCnt'
    BY <1>2, <1>4, <1>7, <1>9
  <2>2. \A n \in DOMAIN files' : n.date \in Dates /\ n.date.month \in months /\ n.date.day <= date.day
    BY <1>2, <1>7, <1>8, <1>9
  <2>. QED
    BY <1>1, <1>2, <1>6, <1>7, <1>9, <2>1, <2>2 DEF StoreInv
<1>10. CASE /\ DOMAIN files' = DOMAIN files /\ m_pFp' = NULL /\ m_iLogCnt' = m_iLogCnt
            /\ cpc' = "wait"
  BY <1>1, <1>2, <1>4, <1>6, <1>7, <1>8, <1>10 DEF StoreInv
<1>. QED
  BY <1>1, <1>3, <1>9, <1>10, OpenNames

LEMMA NewDayStore ==
  ASSUME FileTypeOK, Good, StoreInv, NewDay
  PROVE  StoreInv'
<1>1. /\ cpc = "open" /\ m_pFp # NULL /\ date.day # m_date.day
      /\ m_date' = [m_date EXCEPT !.day = date.day]
      /\ FopenW(files, File(m_date', 0), 1)
      /\ UNCHANGED <<written, date, months>>
  BY DEF NewDay, Frame
<1>2. /\ date \in Dates /\ m_date \in Dates /\ FilesTyped(files)
      /\ date.month \in months /\ months # {} /\ m_date.month \in months
  BY <1>1 DEF FileTypeOK, FilesTyped, StoreInv
<1>3. m_date' = date
  <2>1. m_date.month = date.month
    BY <1>2 DEF Good, OneMonth
  <2>. QED
    BY <1>1, <1>2, <2>1 DEF Dates
<1>4. File(date, 0) # NULL /\ File(date, 0) \in Names
  BY <1>2, DateName
<1>5. m_date.day < date.day
  BY <1>1, <1>2 DEF StoreInv, Dates
<1>6. \A n \in DOMAIN files : n.date # date
  BY <1>2, <1>5 DEF StoreInv, Dates
<1>7. File(date, 0).date = date /\ File(date, 0).k = 0 /\ date.day <= date.day
  BY <1>2 DEF File, Dates
<1>8. \A r \in 1 .. written' : Held(files', r)
  BY <1>1, <1>3, <1>6, <1>7, OpenHeld DEF StoreInv
<1>9. \A n \in DOMAIN files : n.date \in Dates /\ n.date.month \in months /\ n.date.day <= date.day
  BY <1>2, <1>5 DEF StoreInv, Dates
<1>10. CASE /\ DOMAIN files' = DOMAIN files \cup {File(date, 0)} /\ m_pFp' = File(date, 0)
            /\ m_pFp' # NULL /\ m_iLogCnt' = 1 /\ cpc' = "persist"
  BY <1>1, <1>2, <1>3, <1>6, <1>7, <1>8, <1>9, <1>10 DEF StoreInv
<1>11. CASE /\ DOMAIN files' = DOMAIN files /\ m_pFp' = NULL /\ m_iLogCnt' = m_iLogCnt
            /\ cpc' = "wait"
  BY <1>1, <1>2, <1>3, <1>6, <1>7, <1>8, <1>9, <1>11 DEF StoreInv
<1>. QED
  BY <1>1, <1>3, <1>4, <1>10, <1>11, OpenNames

LEMMA RotateStore ==
  ASSUME FileTypeOK, Good, StoreInv, Rotate
  PROVE  StoreInv'
<1>. DEFINE R == Renamed(date, m_iLogCnt)
<1>1. /\ cpc = "open" /\ m_pFp # NULL /\ date.day = m_date.day /\ m_date' = m_date
      /\ FopenW(R, File(date, 0), m_iLogCnt + 1)
      /\ UNCHANGED <<written, date, months>>
  BY DEF Rotate, SameDay, Frame
<1>2. /\ date \in Dates /\ m_date \in Dates /\ FilesTyped(files) /\ m_iLogCnt \in Nat
      /\ date.month \in months /\ months # {} /\ m_date.month \in months
  BY <1>1 DEF FileTypeOK, FilesTyped, StoreInv
<1>3. m_date = date
  <2>1. m_date.month = date.month
    BY <1>2 DEF Good, OneMonth
  <2>. QED
    BY <1>1, <1>2, <2>1 DEF Dates
<1>4. File(date, 0) # NULL /\ File(date, 0) \in Names
  BY <1>2, DateName
<1>5. \A x \in DOMAIN files : x.k \in Nat /\ (x.date = date => x.k < m_iLogCnt)
  BY <1>1, <1>2, <1>3, NameParts DEF StoreInv, FilesTyped
<1>6. ASSUME NEW y \in DOMAIN R
      PROVE  /\ y.date \in Dates /\ y.date.month \in months /\ y.date.day <= date.day
             /\ y.date = date => y.k \in 1 .. m_iLogCnt
  <2>1. PICK x \in DOMAIN files :
          y.date = x.date /\ IF Moves(x, date, m_iLogCnt) THEN y.k = x.k + 1 ELSE y = x
    BY <1>2, RenamedFrom
  <2>2. y.date = date => x.k < m_iLogCnt /\ y.k = x.k + 1
    BY <1>5, <2>1 DEF Moves
  <2>3. y.date = date => y.k \in 1 .. m_iLogCnt
    BY <1>2, <1>5, <2>2
  <2>4. x.date \in Dates /\ x.date.month \in months /\ x.date.day <= date.day
    BY <1>3 DEF StoreInv
  <2>. QED
    BY <2>1, <2>3, <2>4
<1>7. ASSUME NEW r \in 1 .. written PROVE Held(R, r)
  <2>1. PICK x \in DOMAIN files : r \in RecordsOf(files[x])
    BY <1>7 DEF StoreInv, Held
  <2>2. \E y \in DOMAIN R : R[y] = files[x]
    BY <1>2, <1>5, RenamedKeeps
  <2>. QED
    BY <2>1, <2>2 DEF Held
<1>. HIDE DEF R
<1>8. File(date, 0).date = date /\ File(date, 0).k = 0 /\ date.day <= date.day
  BY <1>2 DEF File, Dates
<1>9. File(date, 0) \notin DOMAIN R
  BY <1>6, <1>8
<1>10. \A r \in 1 .. written' : Held(files', r)
  BY <1>1, <1>7, <1>9, OpenHeld
<1>11. CASE /\ DOMAIN files' = DOMAIN R \cup {File(date, 0)} /\ m_pFp' = File(date, 0)
            /\ m_pFp' # NULL /\ m_iLogCnt' = m_iLogCnt + 1 /\ cpc' = "persist"
  <2>1. \A n \in DOMAIN files' : n.date = date => n.k < m_iLogCnt'
    BY <1>2, <1>6, <1>8, <1>11
  <2>2. \A n \in DOMAIN files' : n.date \in Dates /\ n.date.month \in months /\ n.date.day <= date.day
    BY <1>2, <1>6, <1>8, <1>11
  <2>. QED
    BY <1>1, <1>2, <1>3, <1>8, <1>10, <1>11, <2>1, <2>2 DEF StoreInv
<1>12. CASE /\ DOMAIN files' = DOMAIN R /\ m_pFp' = NULL /\ m_iLogCnt' = m_iLogCnt
            /\ cpc' = "wait"
  BY <1>1, <1>2, <1>3, <1>6, <1>8, <1>10, <1>12 DEF StoreInv
<1>. QED
  BY <1>1, <1>4, <1>11, <1>12, OpenNames

LEMMA PersistStore ==
  ASSUME FileTypeOK, StoreInv, Persist
  PROVE  StoreInv'
<1>. DEFINE a == files[m_pFp]
            b == [i \in 1 .. sealed - written |-> written + i]
<1>1. /\ m_pFp \in DOMAIN files /\ a \in Seq(Nat)
      /\ written \in Nat /\ sealed \in Nat /\ written <= sealed
  BY DEF Persist, FileTypeOK
<1>2. b \in Seq(Nat) /\ Len(b) = sealed - written /\ \A i \in 1 .. Len(b) : b[i] = written + i
  BY <1>1, Batch
<1>3. /\ files' = [files EXCEPT ![m_pFp] = a \o b] /\ written' = sealed /\ cpc' = "wait"
      /\ UNCHANGED <<m_pFp, m_date, m_iLogCnt, date, months>>
  BY DEF Persist
<1>. HIDE DEF a, b
<1>4. DOMAIN files' = DOMAIN files /\ files'[m_pFp] = a \o b
      /\ \A n \in DOMAIN files : n # m_pFp => files'[n] = files[n]
  BY <1>1, <1>3
<1>5. /\ \A i \in DOMAIN a : i \in DOMAIN (a \o b) /\ (a \o b)[i] = a[i]
      /\ \A i \in 1 .. Len(b) : Len(a) + i \in DOMAIN (a \o b) /\ (a \o b)[Len(a) + i] = b[i]
  BY <1>1, <1>2
<1>6. ASSUME NEW r \in 1 .. sealed PROVE Held(files', r)
  <2>1. CASE r <= written
    <3>1. r \in 1 .. written
      BY <1>1, <2>1
    <3>2. PICK n \in DOMAIN files : r \in RecordsOf(files[n])
      BY <3>1 DEF StoreInv, Held
    <3>3. CASE n # m_pFp
      BY <1>4, <3>2, <3>3 DEF Held
    <3>4. CASE n = m_pFp
      BY <1>4, <1>5, <3>2, <3>4 DEF Held, RecordsOf, a
    <3>. QED
      BY <3>3, <3>4
  <2>2. CASE r > written
    <3>1. r - written \in 1 .. Len(b)
      BY <1>1, <1>2, <2>2
    <3>2. b[r - written] = written + (r - written) /\ written + (r - written) = r
      BY <1>1, <1>2, <3>1
    <3>3. r \in RecordsOf(a \o b)
      BY <1>5, <3>1, <3>2 DEF RecordsOf
    <3>. QED
      BY <1>1, <1>4, <3>3 DEF Held
  <2>. QED
    BY <1>1, <2>1, <2>2
<1>. QED
  BY <1>3, <1>4, <1>6 DEF StoreInv

LEMMA EveryStep ==
  TimeInv /\ FileTypeOK /\ DateInv /\ EveryInv /\ [Next]_vars => EveryInv'
<1>. SUFFICES ASSUME TimeInv, FileTypeOK, DateInv, EveryInv, [Next]_vars, Good'
              PROVE  StoreInv'
  BY DEF EveryInv
<1>1. Good
  BY DEF Good, OneMonth, Next, Consume, Background, fileVars, LogLine, Wake, NoDirectory,
         FirstFile, NewDay, Rotate, KeepFile, Persist, Frame, vars
<1>2. StoreInv
  BY <1>1 DEF EveryInv
<1>3. CASE Background \/ UNCHANGED vars \/ (\E t \in Threads : LogLine(t)) \/ KeepFile
  BY <1>2, <1>3 DEF Background, vars, fileVars, LogLine, KeepFile, Frame, storeVars, StoreInv
<1>4. ~NoDirectory
  BY <1>1 DEF NoDirectory, Good
<1>. QED
  BY <1>1, <1>2, <1>3, <1>4, WakeStore, FirstFileStore, NewDayStore, RotateStore,
     PersistStore DEF Next, Consume

\* For any number of threads, any calendar, any interleaving and any failures of
\* fopen: as long as the dates were read whole from a clean cache and are of one
\* month, no rotation and no change of day writes over a file that holds records.
THEOREM NoRecordOverwritten == Spec => []EveryRecordInAFile
<1>. DEFINE IInv == TimeInv /\ ClockInv /\ FileTypeOK /\ DateInv /\ EveryInv
<1>1. Init => IInv
  <2>. SUFFICES ASSUME Init PROVE IInv
    OBVIOUS
  <2>1. TimeInv /\ FileTypeOK
    BY TimeInitInv, FileTypeInit DEF Init
  <2>2. 0 \in Seconds /\ now = 0 /\ 0 <= 0 /\ 0 \div MIN = 0
    BY TimeAssumption DEF Init, TimeInit, Seconds
  <2>3. ClockInv
    BY <2>2 DEF Init, TimeInit, ClockInv
  <2>4. FieldsDate = DateAt(0)
    BY <2>2, LocalDate DEF Init, TimeInit, FieldsDate
  <2>5. ReadInv(0)
    BY <2>2, <2>4 DEF ReadInv, Init, TimeInit
  <2>6. DateInv
    BY <2>2, <2>5 DEF DateInv, Init
  <2>7. DOMAIN files = {} /\ 1 .. written = {} /\ m_date.day = 0 /\ date.day = 0
    BY DEF Init
  <2>8. EveryInv
    BY <2>2, <2>7 DEF EveryInv, StoreInv, Init
  <2>. QED
    BY <2>1, <2>3, <2>6, <2>8
<1>2. IInv /\ [Next]_vars => IInv'
  BY TimeStep, TimeInvStep, ClockStep, FileTypeStep, DateStep, EveryStep DEF TimeInv
<1>3. IInv => EveryRecordInAFile
  BY DEF EveryInv, Good, OneMonth, StoreInv, Held, EveryRecordInAFile
<1>. QED
  BY <1>1, <1>2, <1>3, PTL DEF Spec
=============================================================================
