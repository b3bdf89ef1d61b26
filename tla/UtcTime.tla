------------------------------- MODULE UtcTime -------------------------------
(***************************************************************************)
(* UTC_Time of log/log.h: the cached second, minute and text of the time,  *)
(* one object that every thread that logs updates without a lock.  Each    *)
(* step reads or writes what another thread can see in between.            *)
(*                                                                         *)
(* A time is a number of seconds.  localtime_r is the calendar MonthOf,    *)
(* DayOf, MinuteOf on numbers of minutes: the month stands for year and    *)
(* month, the minute for hour and minute.                                  *)
(***************************************************************************)
EXTENDS Naturals, FiniteSets

CONSTANTS
  Threads,    \* the threads that log
  MIN,        \* seconds in a minute
  MonthOf,    \* minute |-> its year and month
  DayOf,      \* minute |-> its day of the month
  MinuteOf,   \* minute |-> its hour and minute
  MaxCalls,   \* bound of the model: calls of GetCurTime
  MaxNow      \* bound of the model: the last second

Seconds == 0 .. MaxNow
Minutes == {s \div MIN : s \in Seconds}

ASSUME TimeAssumption ==
  /\ MIN \in Nat \ {0}
  /\ MaxCalls \in Nat /\ MaxNow \in Nat
  /\ MonthOf \in [Minutes -> Nat] /\ DayOf \in [Minutes -> Nat]
  /\ MinuteOf \in [Minutes -> Nat]
  /\ \A a, b \in Minutes : a <= b /\ MonthOf[a] = MonthOf[b] => DayOf[a] <= DayOf[b]

VARIABLES
  now,           \* the clock gettimeofday reads
  m_cache_sec,
  m_cache_min,
  fields,        \* m_year .. m_sec
  m_aTimeCache,  \* the text: the fields it was printed from
  tpc,           \* thread: where it is in GetCurTime
  tv,            \* thread: its local tv
  tm,            \* thread: its local cur_tm, as a time
  calls,         \* the number of calls so far
  alone,         \* history: the threads that have been alone since their call began
  clean          \* history: the last calls overlapped no other, back to one that
                 \* renewed all the fields

cacheVars == <<m_cache_sec, m_cache_min, fields, m_aTimeCache>>
timeVars == <<now, m_cache_sec, m_cache_min, fields, m_aTimeCache, tpc, tv, tm,
              calls, alone, clean>>

Times == [month : Nat, day : Nat, min : Nat, sec : Nat]

\* localtime_r
LocalTime(s) ==
  [month |-> MonthOf[s \div MIN], day |-> DayOf[s \div MIN],
   min |-> MinuteOf[s \div MIN], sec |-> s % MIN]

\* The constructor renews everything.
TimeInit ==
  /\ now = 0
  /\ m_cache_sec = 0
  /\ m_cache_min = 0
  /\ fields = LocalTime(0)
  /\ m_aTimeCache = LocalTime(0)
  /\ tpc = [t \in Threads |-> "out"]
  /\ tv = [t \in Threads |-> 0]
  /\ tm = [t \in Threads |-> 0]
  /\ calls = 0
  /\ alone = {}
  /\ clean = TRUE

Goto(t, from, to) ==
  /\ tpc[t] = from
  /\ tpc' = [tpc EXCEPT ![t] = to]

Inside == {t \in Threads : tpc[t] # "out"}
Quiet == UNCHANGED <<now, tv, tm, calls, alone, clean>>

SecondPasses ==
  /\ now < MaxNow
  /\ now' = now + 1
  /\ UNCHANGED <<cacheVars, tpc, tv, tm, calls, alone, clean>>

\* gettimeofday
GetTime(t) ==
  /\ calls < MaxCalls
  /\ Goto(t, "out", "got")
  /\ calls' = calls + 1
  /\ tv' = [tv EXCEPT ![t] = now]
  /\ alone' = IF Inside = {} THEN {t} ELSE {}
  /\ clean' = (clean /\ Inside = {})
  /\ UNCHANGED <<now, cacheVars, tm>>

\* The second is cached already,
SameSecond(t) ==
  /\ Goto(t, "got", "done")
  /\ tv[t] = m_cache_sec
  /\ UNCHANGED cacheVars
  /\ Quiet

\* or it is stored first,
NewSecond(t) ==
  /\ Goto(t, "got", "test")
  /\ tv[t] # m_cache_sec
  /\ m_cache_sec' = tv[t]
  /\ UNCHANGED <<m_cache_min, fields, m_aTimeCache>>
  /\ Quiet

\* Mutant of SameMinute: the minute is not compared.
SameMinuteAlways(t) ==
  /\ Goto(t, "test", "second")
  /\ fields' = [fields EXCEPT !.sec = m_cache_sec % MIN]
  /\ UNCHANGED <<m_cache_sec, m_cache_min, m_aTimeCache>>
  /\ Quiet

\* and if the minute is the cached one, only the second is renewed,
SameMinute(t) ==
  /\ Goto(t, "test", "second")
  /\ m_cache_sec \div MIN = m_cache_min
  /\ fields' = [fields EXCEPT !.sec = m_cache_sec % MIN]
  /\ UNCHANGED <<m_cache_sec, m_cache_min, m_aTimeCache>>
  /\ Quiet

AddTimeSec(t) ==
  /\ Goto(t, "second", "done")
  /\ m_aTimeCache' = [m_aTimeCache EXCEPT !.sec = fields.sec]
  /\ UNCHANGED <<m_cache_sec, m_cache_min, fields>>
  /\ Quiet

\* otherwise UpdateTime and AddTimeAll renew everything.
NewMinute(t) ==
  /\ Goto(t, "test", "minute")
  /\ m_cache_sec \div MIN # m_cache_min
  /\ m_cache_sec' = tv[t]
  /\ UNCHANGED <<m_cache_min, fields, m_aTimeCache>>
  /\ Quiet

StoreMinute(t) ==
  /\ Goto(t, "minute", "local")
  /\ m_cache_min' = m_cache_sec \div MIN
  /\ UNCHANGED <<m_cache_sec, fields, m_aTimeCache>>
  /\ Quiet

GetLocalTime(t) ==
  /\ Goto(t, "local", "month")
  /\ tm' = [tm EXCEPT ![t] = m_cache_sec]
  /\ UNCHANGED <<cacheVars, now, tv, calls, alone, clean>>

StoreMonth(t) ==
  /\ Goto(t, "month", "day")
  /\ fields' = [fields EXCEPT !.month = LocalTime(tm[t]).month]
  /\ UNCHANGED <<m_cache_sec, m_cache_min, m_aTimeCache>>
  /\ Quiet

StoreRest(t) ==
  /\ Goto(t, "day", "text")
  /\ fields' = [LocalTime(tm[t]) EXCEPT !.month = fields.month]
  /\ UNCHANGED <<m_cache_sec, m_cache_min, m_aTimeCache>>
  /\ Quiet

AddTimeAll(t) ==
  /\ Goto(t, "text", "done")
  /\ m_aTimeCache' = fields
  /\ clean' = (clean \/ t \in alone)
  /\ UNCHANGED <<m_cache_sec, m_cache_min, fields, now, tv, tm, calls, alone>>

\* The caller prints m_aTimeCache into its line.
Leave(t) ==
  /\ Goto(t, "done", "out")
  /\ UNCHANGED cacheVars
  /\ Quiet

\* The steps of GetCurTime up to its end
GetCurTime(t) ==
  \/ GetTime(t) \/ SameSecond(t) \/ NewSecond(t) \/ SameMinute(t) \/ AddTimeSec(t)
  \/ NewMinute(t) \/ StoreMinute(t) \/ GetLocalTime(t) \/ StoreMonth(t)
  \/ StoreRest(t) \/ AddTimeAll(t)

TimeNext == SecondPasses \/ \E t \in Threads : GetCurTime(t) \/ Leave(t)

TimeSpec == TimeInit /\ [][TimeNext]_timeVars
-----------------------------------------------------------------------------
(* Properties *)

TimeTypeOK ==
  /\ now \in Seconds /\ m_cache_sec \in Seconds /\ m_cache_min \in Minutes
  /\ fields \in Times /\ m_aTimeCache \in Times
  /\ tpc \in [Threads -> {"out", "got", "test", "second", "minute", "local",
                          "month", "day", "text", "done"}]
  /\ tv \in [Threads -> Seconds] /\ tm \in [Threads -> Seconds]
  /\ calls \in 0 .. MaxCalls
  /\ alone \subseteq Threads
  /\ clean \in BOOLEAN

\* The text a thread puts in front of its record (log.cpp:212) is the time of its
\* call, though GetCurTime mostly renews two digits of it, as long as no two calls
\* overlap.  After calls that did overlap this is so again from the first call on
\* that begins a new minute by itself (log.h:47).
CacheExact ==
  \A t \in Threads :
    clean /\ tpc[t] = "done" =>
      m_cache_sec = tv[t] /\ m_aTimeCache = LocalTime(tv[t])
=============================================================================
