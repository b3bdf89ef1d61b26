------------------------------ MODULE EventLoop ------------------------------
(***************************************************************************)
(* The server of main.cpp: one event loop on an epoll descriptor, one      *)
(* CHttp, SClientData and CHeapTimer per connection (http/http.cpp,        *)
(* http/timer.cpp), and the thread pool that runs CHttp::HttpParse.        *)
(*                                                                         *)
(* A connection is its descriptor f: https[f], clientDatas[f] and the      *)
(* epoll registration of f.  The pool is TaskQueue, which ThreadPool       *)
(* implements.  The timer heap is the set of timers it holds, with the     *)
(* seconds each has left (0: expired), so that time needs no bound.        *)
(* Whether data arrives, what a request turns out to be, how far writev    *)
(* gets and when a client hangs up is the environment's choice.  The       *)
(* arrays of the model have FdLimit entries, those of main.cpp MAX_FD.     *)
(*                                                                         *)
(* HttpParse is taken apart where the loop's thread may come in between.   *)
(* A handler of the loop is one step: that no worker uses the same CHttp   *)
(* beside it is OwnedOnce, which needs a prompt pool (SpecPrompt).  What   *)
(* is checked for a pool of any speed (Spec) does not look at the CHttp.   *)
(***************************************************************************)
EXTENDS Naturals, Sequences, FiniteSets

CONSTANTS
  FirstFd,   \* the descriptors below it are the server's own
  FdLimit,   \* RLIMIT_NOFILE: every descriptor is below it
  listenFd, pipeFd, \* two of the server's own, pipeFd is pipeFd[0]
  MAX_FD,    \* main.cpp:18, the size of https and clientDatas
  TIMESLOT,  \* main.cpp:20, seconds between two alarms
  TASK_NUM,  \* threadpool.h:12
  MaxConns,  \* bound of the model: how many connections are ever made
  NULL       \* no timer, no task, no alarm

ASSUME LoopAssumption ==
  /\ FirstFd \in Nat /\ FdLimit \in Nat /\ MAX_FD \in Nat
  /\ listenFd \in 0 .. FirstFd - 1 /\ pipeFd \in 0 .. FirstFd - 1
  /\ listenFd # pipeFd
  /\ TIMESLOT \in Nat \ {0}
  /\ TASK_NUM \in Nat /\ MaxConns \in Nat
  /\ NULL \notin Nat

Fds == FirstFd .. FdLimit - 1
Timers == 1 .. MaxConns
Lifetime == 3 * TIMESLOT

VARIABLES
  reg,        \* f: "closed", or open and registered for "in", "out" or nothing
              \* ("off": the one-shot event was delivered)
  batch,      \* the events of the current epoll_wait not yet looked at
  mpc,        \* event loop: "wait" (in epoll_wait), "batch", "append" (in Append,
              \* before its Lock), "stopped"
  cur,        \* the descriptor whose Append is under way, or NULL
  m_qTasks, parsing, \* the pool's queue, and the descriptor in HttpParse or NULL
  hpc,        \* HttpParse: "idle", "parse", "size" (mapped, m_iDataLen not stored),
              \* "arm" (before ModFd), "return" (after it)
  made,       \* how many timers were made
  heap,       \* the timers in cTimerHeap
  timer,      \* f: clientDatas[f].timer
  owner,      \* timer: the descriptor its m_sClientData belongs to
  callback,   \* timer: callback_func is not null
  left,       \* timer: seconds until m_iExpireTime
  m_iHttpCnt, \* CHttp::m_iHttpCnt
  timeout, stop_server, \* main's flags
  alarm,      \* seconds until SIGALRM, or NULL
  pipe,       \* the signals in the pipe
  response,   \* f: "none", "text" (in m_aWriteData alone, m_iDataLen = 0) or
              \* "file" (header and mapped file, m_iDataLen > 0)
  mapped      \* f: m_pFileAddr is not null

pool == <<m_qTasks, parsing, hpc>>
timers == <<made, heap, timer, owner, callback, left>>
signals == <<timeout, stop_server, alarm, pipe>>
https == <<response, mapped>>
vars == <<reg, batch, mpc, cur, pool, timers, m_iHttpCnt, signals, https>>

Pool == INSTANCE TaskQueue WITH
  Tasks <- Fds, Limit <- TASK_NUM, queue <- m_qTasks

Init ==
  /\ reg = [f \in Fds |-> "closed"]
  /\ batch = {}
  /\ mpc = "wait"
  /\ cur = NULL
  /\ Pool!Init
  /\ hpc = "idle"
  /\ made = 0
  /\ heap = {}
  /\ timer = [f \in Fds |-> NULL]
  /\ owner = [n \in Timers |-> NULL]
  /\ callback = [n \in Timers |-> FALSE]
  /\ left = [n \in Timers |-> 0]
  /\ m_iHttpCnt = 0
  /\ timeout = FALSE
  /\ stop_server = FALSE
  /\ alarm = TIMESLOT
  /\ pipe = {}
  /\ response = [f \in Fds |-> "none"]
  /\ mapped = [f \in Fds |-> FALSE]

-----------------------------------------------------------------------------
(* epoll *)

\* AddFd, ModFd: no effect on a descriptor that is not registered any more
Arm(f, kind) == reg' = [reg EXCEPT ![f] = IF @ = "closed" THEN @ ELSE kind]

\* The events of an open connection: the one it is registered for, or an error
\* or hang-up, which epoll reports besides.
Ready(f) ==
  IF reg[f] \in {"in", "out"} THEN {<<f, reg[f]>>, <<f, "hup">>} ELSE {}

\* Mutant of EpollWait: without EPOLLONESHOT the registration stays.
EpollWaitNoOneShot ==
  /\ mpc = "wait"
  /\ batch' \in SUBSET ((UNION {Ready(f) : f \in Fds})
                          \cup {<<listenFd, "in">>, <<pipeFd, "in">>})
  /\ batch' # {}
  /\ \A e, d \in batch' : e[1] = d[1] => e = d
  /\ <<pipeFd, "in">> \in batch' <=> pipe # {}
  /\ <<listenFd, "in">> \in batch' => made < MaxConns
  /\ mpc' = "batch"
  /\ UNCHANGED <<reg, cur, pool, timers, m_iHttpCnt, signals, https>>

\* One event per connection at most; the pipe is level triggered and reports
\* every time it holds a signal.
EpollWait ==
  /\ mpc = "wait"
  /\ batch' \in SUBSET ((UNION {Ready(f) : f \in Fds})
                          \cup {<<listenFd, "in">>, <<pipeFd, "in">>})
  /\ batch' # {}
  /\ \A e, d \in batch' : e[1] = d[1] => e = d
  /\ <<pipeFd, "in">> \in batch' <=> pipe # {}
  /\ <<listenFd, "in">> \in batch' => made < MaxConns
  /\ reg' = [f \in Fds |-> IF \E e \in batch' : e[1] = f THEN "off" ELSE reg[f]]
  /\ mpc' = "batch"
  /\ UNCHANGED <<cur, pool, timers, m_iHttpCnt, signals, https>>

\* The loop takes event e.
Takes(e) == mpc = "batch" /\ e \in batch /\ batch' = batch \ {e}

-----------------------------------------------------------------------------
(* Timers *)

\* Mutant of Close: the connection is counted twice.
CloseTwice(f) ==
  /\ reg' = [reg EXCEPT ![f] = "closed"]
  /\ m_iHttpCnt' = m_iHttpCnt - 2

\* CallBackFunc
Close(f) ==
  /\ reg' = [reg EXCEPT ![f] = "closed"]
  /\ m_iHttpCnt' = m_iHttpCnt - 1

\* Mutant of DelTimer: the callback stays.
DelTimerKeeps(n) == UNCHANGED timers

\* DelTimer: the timer stays in the heap.
DelTimer(n) ==
  /\ callback' = [callback EXCEPT ![n] = FALSE]
  /\ UNCHANGED <<made, heap, timer, owner, left>>

\* Adjust, after m_iExpireTime was moved
Refresh(n) ==
  /\ left' = [left EXCEPT ![n] = Lifetime]
  /\ UNCHANGED <<made, heap, timer, owner, callback>>

AddTimer(f) ==
  LET n == made + 1
  IN  /\ made' = n
      /\ heap' = heap \cup {n}
      /\ timer' = [timer EXCEPT ![f] = n]
      /\ owner' = [owner EXCEPT ![n] = f]
      /\ callback' = [callback EXCEPT ![n] = TRUE]
      /\ left' = [left EXCEPT ![n] = Lifetime]

Expired == {n \in heap : left[n] = 0}

\* Mutant of Tick: the connections it closes are not counted.
TickUncounted ==
  LET due == {n \in Expired : callback[n]}
  IN  /\ heap' = heap \ Expired
      /\ reg' = [f \in Fds |-> IF \E n \in due : owner[n] = f THEN "closed" ELSE reg[f]]
      /\ UNCHANGED <<m_iHttpCnt, made, timer, owner, callback, left>>

\* CTimerHeap::Tick: every expired timer leaves the heap; those with a callback
\* close their connection.
Tick ==
  LET due == {n \in Expired : callback[n]}
  IN  /\ heap' = heap \ Expired
      /\ reg' = [f \in Fds |-> IF \E n \in due : owner[n] = f THEN "closed" ELSE reg[f]]
      /\ m_iHttpCnt' = m_iHttpCnt - Cardinality(due)
      /\ UNCHANGED <<made, timer, owner, callback, left>>

-----------------------------------------------------------------------------
(* A new connection *)

FreeFds == {f \in Fds : reg[f] = "closed"}

\* accept fails: the client has gone, or no descriptor is free.
AcceptFails ==
  /\ Takes(<<listenFd, "in">>)
  /\ UNCHANGED <<reg, mpc, cur, pool, timers, m_iHttpCnt, signals, https>>

\* Too many connections: SendInfo tells the client and closes.
AcceptBusy ==
  /\ Takes(<<listenFd, "in">>)
  /\ FreeFds # {}
  /\ m_iHttpCnt >= MAX_FD
  /\ UNCHANGED <<reg, mpc, cur, pool, timers, m_iHttpCnt, signals, https>>

\* accept returns the lowest free descriptor; CHttp::Init, which leaves
\* m_pFileAddr alone; the timer.
Accept ==
  /\ Takes(<<listenFd, "in">>)
  /\ made < MaxConns
  /\ m_iHttpCnt < MAX_FD
  /\ \E f \in FreeFds :
       /\ \A g \in FreeFds : f <= g
       /\ reg' = [reg EXCEPT ![f] = "in"]
       /\ response' = [response EXCEPT ![f] = "none"]
       /\ AddTimer(f)
  /\ m_iHttpCnt' = m_iHttpCnt + 1
  /\ UNCHANGED <<mpc, cur, pool, signals, mapped>>

-----------------------------------------------------------------------------
(* Events of a connection *)

\* EPOLLRDHUP, EPOLLHUP or EPOLLERR
HangUp ==
  \E f \in Fds :
    /\ Takes(<<f, "hup">>)
    /\ Close(f)
    /\ DelTimer(timer[f])
    /\ UNCHANGED <<mpc, cur, pool, signals, https>>

\* Read fails: the peer has closed, an error, or m_aReadData is full.
ReadFails ==
  \E f \in Fds :
    /\ Takes(<<f, "in">>)
    /\ callback[timer[f]]
    /\ Close(f)
    /\ DelTimer(timer[f])
    /\ UNCHANGED <<mpc, cur, pool, signals, https>>

\* Read succeeds and Append sees room; its push follows.
ReadOk ==
  \E f \in Fds :
    /\ Takes(<<f, "in">>)
    /\ Pool!MaySeeRoom
    /\ mpc' = "append"
    /\ cur' = f
    /\ UNCHANGED <<reg, pool, timers, m_iHttpCnt, signals, https>>

\* Read succeeds and Append sees a full queue: its result is not looked at.
ReadRejected ==
  \E f \in Fds :
    /\ Takes(<<f, "in">>)
    /\ Pool!MaySeeFull
    /\ Refresh(timer[f])
    /\ UNCHANGED <<reg, mpc, cur, pool, m_iHttpCnt, signals, https>>

\* The rest of Append, which waits for the mutex, and the timer
AppendTask ==
  /\ mpc = "append"
  /\ Pool!Put(cur)
  /\ UNCHANGED hpc
  /\ Refresh(timer[cur])
  /\ mpc' = "batch"
  /\ cur' = NULL
  /\ UNCHANGED <<reg, batch, m_iHttpCnt, signals, https>>

\* Write with m_iDataLen = 0: everything is reset, and on to the next request.
WriteNothing ==
  \E f \in Fds :
    /\ Takes(<<f, "out">>)
    /\ response[f] # "file"
    /\ Arm(f, "in")
    /\ response' = [response EXCEPT ![f] = "none"]
    /\ Refresh(timer[f])
    /\ UNCHANGED <<mpc, cur, pool, m_iHttpCnt, signals, mapped>>

\* Mutant of WriteBlocked: unmmap before errno is looked at.
WriteBlockedUnmaps ==
  \E f \in Fds :
    /\ Takes(<<f, "out">>)
    /\ response[f] = "file"
    /\ Arm(f, "out")
    /\ mapped' = [mapped EXCEPT ![f] = FALSE]
    /\ Refresh(timer[f])
    /\ UNCHANGED <<mpc, cur, pool, m_iHttpCnt, signals, response>>

\* Write stops at EAGAIN, some bytes later or none.
WriteBlocked ==
  \E f \in Fds :
    /\ Takes(<<f, "out">>)
    /\ response[f] = "file"
    /\ Arm(f, "out")
    /\ Refresh(timer[f])
    /\ UNCHANGED <<mpc, cur, pool, m_iHttpCnt, signals, https>>

\* Write ends, with everything written or with an error: m_bLinger is never set,
\* so that it returns false either way and the connection is closed.
WriteEnds ==
  \E f \in Fds, complete \in BOOLEAN :
    /\ Takes(<<f, "out">>)
    /\ response[f] = "file"
    /\ mapped' = [mapped EXCEPT ![f] = FALSE]
    /\ response' = [response EXCEPT ![f] = IF complete THEN "none" ELSE @]
    /\ Close(f)
    /\ DelTimer(timer[f])
    /\ UNCHANGED <<mpc, cur, pool, signals>>

-----------------------------------------------------------------------------
(* Signals *)

\* SIGTERM, sent from outside.  One that comes in the middle of a batch has the
\* effect of one that came before it or of one that comes after it.
Terminate ==
  /\ mpc = "wait"
  /\ "TERM" \notin pipe
  /\ pipe' = pipe \cup {"TERM"}
  /\ UNCHANGED <<reg, batch, mpc, cur, pool, timers, m_iHttpCnt,
                 timeout, stop_server, alarm, https>>

\* Mutant of ReadPipe: TimerHandler runs at once, in the middle of the batch.
ReadPipeTicks ==
  /\ Takes(<<pipeFd, "in">>)
  /\ stop_server' = (stop_server \/ "TERM" \in pipe)
  /\ pipe' = {}
  /\ IF "ALRM" \in pipe
       THEN Tick /\ alarm' = TIMESLOT
       ELSE UNCHANGED <<reg, timers, m_iHttpCnt, alarm>>
  /\ UNCHANGED <<mpc, cur, pool, timeout, https>>

\* The loop reads the pipe.
ReadPipe ==
  /\ Takes(<<pipeFd, "in">>)
  /\ timeout' = (timeout \/ "ALRM" \in pipe)
  /\ stop_server' = (stop_server \/ "TERM" \in pipe)
  /\ pipe' = {}
  /\ UNCHANGED <<reg, mpc, cur, pool, timers, m_iHttpCnt, alarm, https>>

\* Mutant of EndBatch: the alarm is not set again.
EndBatchNoAlarm ==
  /\ mpc = "batch"
  /\ batch = {}
  /\ mpc' = IF stop_server THEN "stopped" ELSE "wait"
  /\ IF timeout THEN Tick ELSE UNCHANGED <<reg, timers, m_iHttpCnt>>
  /\ timeout' = FALSE
  /\ UNCHANGED <<batch, cur, pool, stop_server, alarm, pipe, https>>

\* The batch is done, with TimerHandler if the alarm rang.  Signals interrupt
\* epoll_wait, which leaves nothing to do, and leave the other system calls alone.
EndBatch ==
  /\ mpc = "batch"
  /\ batch = {}
  /\ mpc' = IF stop_server THEN "stopped" ELSE "wait"
  /\ IF timeout
       THEN Tick /\ alarm' = TIMESLOT
       ELSE UNCHANGED <<reg, timers, m_iHttpCnt, alarm>>
  /\ timeout' = FALSE
  /\ UNCHANGED <<batch, cur, pool, stop_server, pipe, https>>

-----------------------------------------------------------------------------
(* The pool's threads *)

StartParse ==
  /\ Pool!Take
  /\ hpc' = "parse"
  /\ UNCHANGED <<reg, batch, mpc, cur, timers, m_iHttpCnt, signals, https>>

\* HttpParse goes on from one of its points to another.
Goes(from, to) ==
  /\ hpc = from /\ hpc' = to
  /\ UNCHANGED <<batch, mpc, cur, m_qTasks, parsing, timers, m_iHttpCnt, signals>>

\* Mutant of ParseOpen: no ModFd.
ParseOpenNoArm ==
  /\ Goes("parse", "return")
  /\ UNCHANGED <<reg, https>>

\* The request is incomplete.
ParseOpen ==
  /\ Goes("parse", "return")
  /\ Arm(parsing, "in")
  /\ UNCHANGED https

\* ParseWrite builds an error's text, which m_iDataLen does not tell of.  It
\* cannot fail, the texts being shorter than m_aWriteData.
BuildText ==
  /\ Goes("parse", "arm")
  /\ response' = [response EXCEPT ![parsing] = IF @ = "file" THEN @ ELSE "text"]
  /\ UNCHANGED <<reg, mapped>>

\* ParseWrite maps the file, and stores the length after the header is written.
MapFile ==
  /\ Goes("parse", "size")
  /\ mapped' = [mapped EXCEPT ![parsing] = TRUE]
  /\ UNCHANGED <<reg, response>>

StoreLen ==
  /\ Goes("size", "arm")
  /\ response' = [response EXCEPT ![parsing] = "file"]
  /\ UNCHANGED <<reg, mapped>>

\* The last HttpParse does with the CHttp; its thread keeps the mutex a little
\* longer.
ArmOut ==
  /\ Goes("arm", "return")
  /\ Arm(parsing, "out")
  /\ UNCHANGED https

Return ==
  /\ hpc = "return" /\ hpc' = "idle"
  /\ Pool!Done
  /\ UNCHANGED <<reg, batch, mpc, cur, timers, m_iHttpCnt, signals, https>>

-----------------------------------------------------------------------------
(* Time *)

\* f waits for HttpParse, or HttpParse is not done with its CHttp.
Parsing(f) == parsing = f /\ hpc # "return"
Outstanding(f) == Parsing(f) \/ \E i \in DOMAIN m_qTasks : m_qTasks[i] = f

\* A second passes.  When the alarm rings, SigHandler writes to the pipe.
ClockTick ==
  /\ alarm # NULL \/ \E n \in heap : left[n] # 0
  /\ left' = [n \in Timers |-> IF left[n] = 0 THEN 0 ELSE left[n] - 1]
  /\ alarm' = IF alarm \in {NULL, 1} THEN NULL ELSE alarm - 1
  /\ pipe' = pipe \cup (IF alarm = 1 THEN {"ALRM"} ELSE {})
  /\ UNCHANGED <<reg, batch, mpc, cur, pool, made, heap, timer, owner, callback,
                 m_iHttpCnt, timeout, stop_server, https>>

\* A second in which no timer expires whose connection waits for the pool
PromptTick ==
  /\ ClockTick
  /\ \A n \in heap : left[n] = 1 /\ callback[n] => ~Outstanding(owner[n])

-----------------------------------------------------------------------------
NextButTime ==
  \/ EpollWait \/ AcceptFails \/ AcceptBusy \/ Accept
  \/ HangUp \/ ReadFails \/ ReadOk \/ ReadRejected \/ AppendTask
  \/ WriteNothing \/ WriteBlocked \/ WriteEnds
  \/ Terminate \/ ReadPipe \/ EndBatch
  \/ StartParse \/ ParseOpen \/ BuildText \/ MapFile \/ StoreLen \/ ArmOut \/ Return

Next == NextButTime \/ ClockTick
NextPrompt == NextButTime \/ PromptTick

\* All behaviours, and those in which the pool is done with a request within the
\* 3 * TIMESLOT seconds its connection's timer allows.
Spec == Init /\ [][Next]_vars
SpecPrompt == Init /\ [][NextPrompt]_vars

\* The threads keep running and time passes; nothing is promised of the clients,
\* so that epoll_wait is only sure to return when the pipe holds a signal.
Fairness ==
  /\ WF_vars(EpollWait /\ pipe # {})
  /\ WF_vars(AcceptFails \/ AcceptBusy \/ Accept \/ HangUp \/ ReadFails \/ ReadOk
             \/ ReadRejected \/ WriteNothing \/ WriteBlocked \/ WriteEnds
             \/ ReadPipe \/ EndBatch)
  /\ WF_vars(AppendTask)
  /\ WF_vars(StartParse)
  /\ WF_vars(ParseOpen \/ BuildText \/ MapFile \/ StoreLen \/ ArmOut \/ Return)
  /\ WF_vars(PromptTick)

LivePrompt == SpecPrompt /\ Fairness

-----------------------------------------------------------------------------
(* Properties *)

LoopTypeOK ==
  /\ reg \in [Fds -> {"closed", "off", "in", "out"}]
  /\ batch \subseteq Nat \X {"in", "out", "hup"}
  /\ mpc \in {"wait", "batch", "append", "stopped"}
  /\ cur \in Fds \cup {NULL} /\ (cur # NULL <=> mpc = "append")
  /\ m_iHttpCnt \in Nat

PoolTypeOK ==
  /\ m_qTasks \in Seq(Fds) /\ parsing \in Fds \cup {NULL}
  /\ hpc \in {"idle", "parse", "size", "arm", "return"}
  /\ parsing = NULL <=> hpc = "idle"

TimersTypeOK ==
  /\ made \in 0 .. MaxConns
  /\ heap \subseteq 1 .. made
  /\ timer \in [Fds -> Timers \cup {NULL}]
  /\ owner \in [Timers -> Fds \cup {NULL}]
  /\ callback \in [Timers -> BOOLEAN]
  /\ left \in [Timers -> 0 .. Lifetime]

SignalsTypeOK ==
  /\ timeout \in BOOLEAN /\ stop_server \in BOOLEAN
  /\ alarm \in 1 .. TIMESLOT \cup {NULL}
  /\ pipe \subseteq {"ALRM", "TERM"}

HttpsTypeOK ==
  /\ response \in [Fds -> {"none", "text", "file"}]
  /\ mapped \in [Fds -> BOOLEAN]

TypeOK ==
  LoopTypeOK /\ PoolTypeOK /\ TimersTypeOK /\ SignalsTypeOK /\ HttpsTypeOK

Open(f) == reg[f] # "closed"
Live(n) == n \in heap /\ callback[n]

\* Every open connection is watched by exactly one timer that can still close
\* it, the one clientDatas knows.  A closed descriptor is watched by none: when
\* it is given to another connection, no old timer closes that one.
OneLiveTimer ==
  \A f \in Fds :
    {n \in Timers : Live(n) /\ owner[n] = f} = IF Open(f) THEN {timer[f]} ELSE {}

\* m_iHttpCnt is the number of open connections, though accept, hang-ups,
\* failures of Read and Write and the timers all change it (main.cpp:66).
CountsOpen == m_iHttpCnt = Cardinality({f \in Fds : Open(f)})

\* An event the loop has yet to look at, or a connection it is handing to the
\* pool, was not closed by another event or a timer: its callback can be called
\* (main.cpp:217 calls it unconditionally) and its descriptor is its own.
EventsAreLive ==
  \A f \in Fds :
    (\E e \in batch : e[1] = f) \/ cur = f => Open(f) /\ Live(timer[f])

InBatch(f) == \E e \in batch : e[1] = f
Owned(f) == reg[f] \in {"in", "out"} \/ InBatch(f) \/ cur = f \/ Outstanding(f)

\* A CHttp belongs to one of: epoll, the event loop, the pool, from its place in the
\* queue to HttpParse's ModFd.  So Read, Write and Init of the loop never run beside
\* HttpParse on the same CHttp, though epoll reports it before HttpParse returns; no
\* request is queued twice, and a closed CHttp may be used for another connection
\* (main.cpp:64).  With a prompt pool; one whose request outlives the timer works on
\* a closed CHttp, or on that of the next connection.
OwnedOnce ==
  \A f \in Fds :
    /\ Owned(f) => Open(f)
    /\ reg[f] \in {"in", "out"} => ~InBatch(f) /\ cur # f /\ ~Outstanding(f)
    /\ InBatch(f) => cur # f /\ ~Outstanding(f)
    /\ cur = f => ~Outstanding(f)
    /\ Parsing(f) => \A i \in DOMAIN m_qTasks : m_qTasks[i] # f
    /\ \A i, j \in DOMAIN m_qTasks : m_qTasks[i] = f /\ m_qTasks[j] = f => i = j

\* An open connection is left to nobody, waiting for its timer, only because the
\* pool's queue was full: main.cpp:256 ignores what Append returns.
NeverAbandoned ==
  [][\A f \in Fds :
       Owned(f) /\ ~Owned(f)' /\ Open(f)' => <<f, "in">> \in batch /\ Pool!MaySeeFull]_vars

\* With a prompt pool Write finds the mapping of the file it has to send
\* (http.cpp:530): the worker's mmap, length and ModFd (http.cpp:676, 685, 711) come
\* before it and the unmmap of the response before (http.cpp:544) earlier still.
\* With a slow pool that unmmap, or Init, may come between them.
SendsFromMapping ==
  \A f \in Fds : Open(f) /\ response[f] = "file" => mapped[f]

\* When EPOLLOUT comes, Write writes the response that was built (http.h:106,
\* http.h:108): it takes m_iDataLen = 0 for an answer with nothing to send.
WriteHasData == \A f \in Fds : reg[f] = "out" => response[f] = "file"

\* A connection whose time is up is closed or used again: SIGALRM comes again and
\* again, and the loop is never stuck in Append (until SIGTERM stops it).
IdleIsClosed ==
  \A n \in Timers :
    (Live(n) /\ left[n] = 0) ~> (~Live(n) \/ left[n] # 0 \/ mpc = "stopped")
=============================================================================
