# WSlyh: TLA+ models and proofs

WSlyh is a small web server for Linux in C++: one event loop on epoll, a pool of
worker threads that parse requests, a timer heap that closes idle connections, and
an asynchronous log. This directory holds TLA+ modules that model it, TLC
configurations that check them on small instances and TLAPS proofs of the most
important invariants for all values of the constants. Line numbers refer to the
sources under `src/`.

## 1. Inventory

| Part | Source | State | Operations | Talks to |
|---|---|---|---|---|
| Event loop | `main.cpp` | epoll registrations, `clientDatas`, `timeout`, `stop_server`, `m_iHttpCnt` | accept, hang-up, read, write, signals, TimerHandler | CHttp (calls), pool (`Append`), timer heap (calls; it calls back `CallBackFunc`), signals through a pipe |
| Connection, `CHttp` | `http/http.cpp` | buffers and lengths, `m_sIv`, the mapping | `Init`, `Read`, `Write`, `HttpParse` | the loop calls Read and Write, a worker HttpParse; both arm the descriptor |
| Parser, `SHttpRequest` | `http/http.cpp:23-349` | state, position, fields | `ParseInternal` | CHttp |
| Timer heap | `http/timer.cpp` | array, `m_iPos`, expiry times | `AddTimer`, `Adjust`, `DelTimer`, `Tick` | the loop only |
| Thread pool | `threadpool/threadpool.h` | `m_qTasks`, mutex, condition variable | `Append`, `Work` | loop pushes, workers call HttpParse |
| Log ring | `log/log.cpp:200-335` | ring of cells, `m_pCurBuf`, `m_pPrstBuf`, fail time, mutex | `TryAppendLog`, `PersistLog` | every thread appends, one thread writes the file |
| Log files | `log/log.cpp:130-196` | open file, its day, number of files | `DecisFile` | the log's consumer |
| Log recovery | `log/log.cpp:46-126`, `log/shmtool.cpp` | shared memory segments and the ids in them | start over an old ring, `shmtool`, `shmtool -d` | the segments survive the process |
| Time cache | `log/log.h:32-95` | cached second, minute, fields, text | `GetCurTime` | every thread that logs; the log's consumer reads its date |
| Lock wrappers | `lock/locker.h` | | | pool, log |

What is hard here, and what makes each part correct:

* *Pool.* `Append` tests the size of the queue without the mutex and signals after
  Unlock. No task may be lost, doubled or overtaken, no wake-up lost, the limit kept.
* *Event loop.* Three parties hold a connection in turn, epoll, the loop and the
  pool, and a fourth, the timer, closes it at any time. Descriptors are reused at
  once. A CHttp must have one owner, an event or timer must never act on a connection
  that is gone, and the count of connections must stay right.
* *Write.* writev takes any number of bytes any number of times; the client must get
  exactly the response.
* *Parser.* A request comes in any number of parts.
* *Timer heap.* Order and back pointers through sifts, pops and growth; each timer
  fires once, in time.
* *Log ring.* The consumer reads a cell without the mutex, the ring grows meanwhile,
  the fail time is unprotected. Records must reach the file in order and once.
* *Log files.* A record that was written must stay in a file, in order, through
  rotations, changes of day and failures of fopen after half of the work is done.
* *Log recovery.* The server may die between any two of its writes to shared memory, or
  in the middle of an fwrite, and a write may be short. What it leaves must complete the
  log file, and the next start must find a ring.
* *Time cache.* Unlocked, so that a time stamp or a date can be torn.

`PROJECT.json` lists 40 hazards at their lines, with the properties that watch them or
the reason why none does: the code falls into some of them (section 5), and the properties
then state the condition under which it does not.

## 2. Modules

| Module | What it is |
|---|---|
| `ThreadPool` | the pool, one action per step another thread can observe |
| `TaskQueue` | what the pool promises: a bounded queue, one task parsed at a time |
| `EventLoop` | the loop with its connections, over `TaskQueue` (INSTANCE) |
| `TimerHeap` | the array heap |
| `TimerSet` | what the heap promises: a set of timers with the seconds they have left |
| `HttpParser` | Read, the parser's state machine, ParseRead's verdict |
| `WriteResponse` | Write's loop over writev, with int arithmetic |
| `RingLog` | the ring of cells with producers and consumer |
| `BatchLog` | what the ring promises: batches of records, written whole and in order |
| `UtcTime` | the time cache, one action per access another thread can observe |
| `LogFile` | DecisFile and the consumer's round, over `UtcTime` (EXTENDS) |
| `ShmRing` | the ring as shared memory, with deaths of the server, its next start, and shmtool |
| `*Proofs` | theorems of `ThreadPool`, `EventLoop`, `WriteResponse`, `RingLog`, `TimerHeap`, `HttpParser`, `LogFile` with `UtcTime`, `ShmRing` |
| `MC*` | constants for TLC |

How they fit together: `EventLoop` does not see threads; it uses `TaskQueue`, which
`ThreadPool` is proved to implement. It keeps the heap as a set of timers with the
seconds left, which is how `TimerHeap` is checked to behave (`ImplementsTimerSet`).
It chooses freely whether a request is complete and how a write ends; `HttpParser`
and `WriteResponse` say what decides that.

The log is seen three times, each module keeping what the others leave out. `RingLog`
has the threads, the mutex and the status of the cells, and takes DecisFile as a
success or a failure. `LogFile` has what DecisFile does to the files, with the dates
`UtcTime` gives it, and keeps of the ring only the batch the consumer has taken.
`ShmRing` has what survives the process; its producers and consumer are those of
RingLog below the memory limit, with steps of their own for the writes of ids.

### ThreadPool
`wpc[w]` is where a worker is in `Work`, `mpc` where the event loop is in `Append`.
A worker between `empty()` and the end of `pop` is in "pop": while it is there the
unlocked `size()` of line 76 may return anything (`SeesRoom`). `WorkWait` and
`WorkTake` are the acquisition of the mutex with the while test, `SpuriousWake` is a
wait that returns unasked. `accepted` and `parsed` are histories.

### EventLoop
A connection is its descriptor `f`. `reg[f]` is its epoll registration; "off" is a
one-shot event delivered and not armed again. `batch` are the events of the current
epoll_wait, taken in any order. Each branch of the loop is an action: `Accept`,
`AcceptBusy`, `AcceptFails`, `HangUp`, `ReadOk` and `AppendTask` (Append may wait for
the mutex), `ReadRejected`, `ReadFails`, `WriteNothing`, `WriteBlocked`, `WriteEnds`,
`ReadPipe`, `EndBatch` with `Tick`. The pool takes a task (`StartParse`) and goes through
HttpParse, where `hpc` says how far it is: `ParseOpen` arms the descriptor for more data
(http.cpp:701); an answer is `BuildText`, or `MapFile` (mmap, http.cpp:676) and `StoreLen`
(m_iDataLen, http.cpp:685), then `ArmOut` (http.cpp:711); `Return` frees the worker. The
loop's steps may come between any two of these, on the same CHttp when the pool is slow.
Write is one step of the loop, which is what it amounts to where nobody else has the
CHttp (`OwnedOnce`); what is claimed for a slow pool does not depend on it. `left[n]` counts the seconds a timer has, so that no clock has to be
bounded. `response[f]` tells a file (`m_iDataLen > 0`) from an error text, `mapped[f]`
whether m_pFileAddr is a mapping.

### TimerHeap
A sift is the path of nodes it looks at (`DownPath`, `UpPath`, recursive functions)
and one shift along that path (`Shifted`), in which the moved timers learn their new
index. `Tick` pops as long as the top is due. main.cpp makes every timer with the same
delay; the model also makes shorter ones, as the unit test does, so that `UpPath` has
work. Calls come only as main.cpp makes them: a timer is adjusted while its connection
is open, which `EventsAreLive` of EventLoop justifies.

### HttpParser
A character is a class of characters, a name one character. `Edges` is the state
machine as data. `TokenOf` says which token a state is in the middle of: a step into
it sets `m_pBegin`, a step out sets `m_pEnd`, and the values of section "The values"
are stored on the way out. The text to be sent is chosen first; `Read` delivers any
part of it, `Scan` is one iteration of the loop, `Parsed` the end of ParseRead and
HttpParse. `cut` remembers where parts ended. The body is `bodyLength` characters from its
first one on, received or not ("nul" behind what was); as far as m_aWriteData reaches that
is memory of the CHttp, and behind it the read may end the process (`Faults`) or go well.
`HugeLength` is a Content-Length that reaches there.

### WriteResponse
`base0`, `len0`, `base1`, `len1` are `m_sIv`; `Wrap` is the conversion to int;
`Taken(k)` the bytes writev takes. `sent` is what the client got.

### RingLog
A cell is the offset of its key from SHMKEY. The lock regions of TryAppendLog are
actions; `GatePass`, `ResetFailTime` and the second test of the fail time in
`TailAppend`/`TailDrop` are separate because they are outside the mutex, or read what
is written outside it. Of the consumer, `Persist` (one fwrite, possibly short) and
`Clear` are separate; the cell is read without the mutex between them. `fullQ` is
auxiliary: the FULL cells in the order they were filled.

### UtcTime
`tpc[t]` is where a thread is in GetCurTime: each read or write of `m_cache_sec`, of
`m_cache_min`, of the fields and of the text is a step. A time is a number of seconds
and localtime_r the calendar `MonthOf`, `DayOf`, `MinuteOf`. Two histories say how well
things can go: `alone`, the threads whose call has overlapped no other so far, and
`clean`, that the last calls overlapped none, back to one that renewed every field.

### LogFile
A file is a date and a number, `name.log` having 0; `files` is what each holds. What is
appended is numbered unit by unit, a record having one or more units. The consumer
takes a batch and the date (`Wake`), goes through the branches of DecisFile
(`NoDirectory`, `FirstFile`, `NewDay`, `Rotate`, `KeepFile`), and writes (`Persist`).
`FopenW` is fopen with "w", which may fail; in `Rotate` it comes after the renames
(`Renamed`), which stay. `trusted` and `months` remember whether every date was read
whole from a clean cache, and in which months.

### ShmRing
A segment is its key's offset and the life of the server that created it, which stand
for its id. `m_iNextShmId` and `data` are in the segments, `head` is
`*m_pPrstBCShmId`. `StartOver` and `RemoveCell` are GetPrstCBShmId on an old ring,
`Build` and `Publish` the rest of the constructor. `LinkCell` and `CloseRing` are the
two writes of ids that insert a cell (log.cpp:259, 261); `Clear` and `MoveHead` the two
writes after a batch. `Crash` may come after any step and keeps nothing but the
segments; one in the middle of Persist leaves any number of the cell's records in the
file, a record of which only a part is there counting as not written. `PersistShort` is an
fwrite or fflush that writes too little, after which the cell is cleared all the same (what
stdio would keep and write with the next cell is taken as lost). shmtool runs while there
is no server; it may write too little at each cell and at the end (`ToolWrites`,
`ToolEnd`), fail to open its file (`ToolNoFile`), or be killed (`ToolKilled`). `have_data`
is its variable of that name, and says that its file is open too. `again` and `broken`
remember deaths in or after Persist and before ClearBuffer, and deaths that left no ring;
`short` and `toolShort` the short writes.

## 3. Runs

| Run | Question | Instance |
|---|---|---|
| `pool` | tasks, limit, wake-ups, refinement of TaskQueue, every accepted task is parsed | 4 workers, limit 2, 5 calls |
| `ring` | structure of the ring at and below the memory limit, short writes | 2 producers, 3 calls each, ring of 2 growing to 3 cells |
| `ring_good` | contents of the file, stability of FULL cells, refinement of BatchLog, everything reaches the file | 2 producers, 2 calls, two lengths, up to 5 cells |
| `loop` | timers, count, events, with any speed of the pool | 3 descriptors, 2 connections at a time, 3 in all |
| `loop_prompt` | one owner, Write finds the mapping, nobody abandoned, idle connections closed, with a prompt pool | 2 descriptors, 2 connections |
| `loop_error` | *violated*: EPOLLOUT finds a response to write | 1 connection |
| `write` | the stream is the response | headers of 1 to 4, files of 0 to 4 bytes, INT_MAX = 7 |
| `heap` | order and back pointers (`HeapSound`), refinement of TimerSet | 4 timers, array of 1 doubling twice |
| `parser` | no crash unless the Content-Length reaches behind the buffers, fields, verdict | 18 requests, 200 malformed texts, every division into parts |
| `parser_split` | *violated*: no crash whatever the parts | as `parser` |
| `files` | time stamps, nothing written is lost, the files of a day are in order | 2 loggers, 3 calls, lengths 1 and 2, 3 days in 2 months, files of 2 units |
| `shm` | what a death leaves completes the log, shmtool saves it, the next start finds a ring | 3 lives, ring of 2 growing to 3 cells of 2 records, 5 records in a life |

Why the bounds are enough. The pool needs more workers than the queue has room and
more calls than the queue holds, and waiters besides the worker that is woken. The
ring needs one expansion and a wrap-around while a cell is being written, and two
producers for the race on the fail time. The loop needs a descriptor that is reused
while its old timer is in the heap and while its old task is in the pool: three
connections, two at a time, do that; `MAX_FD = 2` makes AcceptBusy happen. The heap needs
a node with two children and both kinds of growth. In the parser every token is cut in
front, behind and between name and value; the limit of the buffer (30) is below the
longest request, and `HugeLength` (40) reaches behind both buffers (30 and 8) from any
place. INT_MAX = 7 makes the longest response overflow. The files need two
rotations in a day, a second day in the same month and a first day of the next; two
calls that overlap at a change of minute tear the cache. The shared ring needs a cell
inserted between two others, a wrap-around, cells of two records, so that a death or a
short write can leave a part of one, and a life after a life that was cut short:
the third life starts over what a death during the second start has left.

The runs keep the deadlock check off: the bounds on calls, connections or timers and
the end after SIGTERM let the models stop.

Fairness. Threads run (weak fairness of a thread's next step). A mutex that is free
again and again goes to some waiting worker (pool), or to each thread that keeps
asking (log, strong fairness); fopen that may succeed again and again does. Time
passes. Nothing is assumed of clients, of calls of Append or TryAppendLog, of spurious
wake-ups or SIGTERM. `LivePrompt` also assumes that no connection's timer runs out
while its request is in the pool (`PromptTick`), 15 seconds in the server; see number 3
of section 5 for what happens otherwise. `UtcTime`, `LogFile` and `ShmRing` state safety
only.

## 4. Proofs

All are for arbitrary constants that satisfy the assumptions named in the modules
(`PoolAssumption`, `RingAssumption`, `LoopAssumption`, `WriteAssumption`, `HeapAssumption`,
`ParserAssumption`, `TimeAssumption`, `FileAssumption`, `ShmAssumption`): any number of workers,
descriptors, producers, cells, loggers, lives, any lengths, any well-formed requests in
any parts, and any calendar whose days do not go back within a month.

* `ThreadPoolProofs`. `TypeInv` = TypeOK and ParseHoldsLock is inductive. On it rest
  the limit (`QueueBounded`: when the test said "room", the queue has room or a worker
  is about to pop), `WakeupKept`, `FifoOrder` (accepted = parsed, in flight, queued)
  and `PoolImplementsTaskQueue`, a step simulation in which the torn size test is a
  stutter.
* `EventLoopProofs`. No invariant of the loop is inductive alone: the count is right
  because a connection is closed only when it is open, which holds because an event of
  the batch belongs to an open connection with a live timer, which holds because Tick
  runs only with an empty batch. `LoopInv` combines types, OneLiveTimer, CountsOpen and
  EventsAreLive with the shape of a batch; there is one lemma per group of actions,
  and the cardinality of the open descriptors is handled in `CloseOwners`.
  Who may use a CHttp. `OwnedOnce` needs the pool to be prompt. `Unexpired` says what
  that comes to: the timer of an open connection that is in the pool is never found
  expired, so that Tick closes none of these. `OwnerInv` is `LoopInv` with both.
  `NobodyAbandoned` goes through the actions with `OwnerInv`: whoever had an open
  connection has it after the step or hands it to one of the others (`KeepsOwner`).
  `MappingIsThere` is about a prompt pool as well: `MappingInv` adds that the worker
  between its mmap and its store of the length has the mapping, which the loop's unmmap
  and Init leave alone because the CHttp is the worker's.
* `WriteResponseProofs`. `SendInv` describes `m_sIv` between two writevs as long as at
  most one of them ended inside the header and the length fits an int; `TakenIs` says
  that the next bytes are the right ones. `StreamCorrect`, `WholeCorrect` and
  `BoundsCorrect` all have these two conditions; without the first they are false of the
  code, and without the second the lengths wrap (numbers 5 and 6 of section 5).
* `RingLogProofs`. `RingInv` combines types, FullRun and PartialIsCur with the
  positions of consumer and producers: sealing a cell extends `fullQ`, clearing
  shortens it. `BelowInv` adds that below the memory limit m_pCurBuf is FREE and no
  fail time is set. The refinement of BatchLog maps Accept, Seal and Write to the
  append, the seal and the Persist. `OrderInv` (behind `DiskOrder`) follows the records
  on their way: of each producer those in the file come before those in the cells not
  yet written, cell by cell, and these before those in m_pCurBuf; a producer inside
  TryAppendLog still has its latest record in its hands.
* `TimerHeapProofs`. `HeapInv` is the heap as a whole (`Sound`: order, back pointers, and
  which timers are in it) with `Fresh` (a timer not made yet is not in the heap) and
  `Soon` (no timer expires later than one refreshed now, so that `Adjust` need not sift
  up). A sift moves the timers of one path by one node (`ShiftPlaces`); the two recursive
  definitions of a path are covered by one lemma, on nodes with a rank (`PathExists`).
  `DownOrder` and `UpOrder` give the order after a sift, node by node, from order
  everywhere but at the node that was changed. `PopsTakeDue` says what Tick takes out:
  each pop takes a timer that expires first, hence the pops that find theirs due take
  out all that are. The refinement of TimerSet follows with what each operation leaves
  in the heap (`AddTimerAdds`, `RefreshKeeps`, `TickTakes`).
* `HttpParserProofs`. The invariant has four parts. `TypeInv` adds to TypeOK that no token
  is marked between two calls of ParseInternal (`Unmarked`). `MarkInv` says where the state
  machine can be: `Place(r, s, p)` lists the states s it may be in after p characters of
  request r, by the piece of the text p lies in (`InStart`, `InParam`, `InProtocol`,
  `InHeader`, `InEnd`), and a scan moves from place to place (`ScanMoves`, from the edges
  read off in `UriMoves`, `VersionMoves`, `HeaderMoves`). With whole lines a part ends in
  a state without a token (`LineStates`), so that none is forgotten half-way. `LengthInv`
  bounds the body: `bodyLength` is what the Content-Length declares or at most what was
  received, from a place inside m_aReadData (`BodyIsNear`). `SurvivesWholeLines` follows
  from both. `RequestInv` gives every field as a function of the position: a
  mark is null or where the token was sent (`Marks`), and the strings and maps are those
  whose tokens have ended (`FieldInv`); `EndInv` says what ParseRead sees at the end of
  the text. Where the pieces are found in the text is `JointChars`, for any number of
  parameters and headers.
* `LogFileProofs`, the time cache. A call that overlaps no other finds the cache as the last one left it
  and leaves it exact. `AloneInv` says that while a call in `alone` runs nobody else is
  inside, `CleanInv` that as long as the cache is clean whoever is inside is in `alone`,
  `SoloInv` what such a call has renewed at each of its steps, and `ExactInv` that a clean
  cache is exact, but for the second while a call is renewing it.
  The files. `OrderInv` (behind `FilesStayInOrder`, without any condition) says that
  the files of a day follow each other, that no file holds a record after `written`, and
  that the file open for writing has the number 0. `StoreInv` (behind
  `NoRecordOverwritten`) says that all files are of days up to that of `m_date`, that those
  of `m_date` have numbers below `m_iLogCnt` (1 to `m_iLogCnt` while none is open, so that
  the next fopen finds the name free), and that every record written is in a file. It
  rests on `DateInv`: dates read whole from a clean cache never go back.
* `ShmRingProofs`. `RunInv`: the running server has a set of segments linked among
  themselves, no two to the same one, with all its pointers in it; `LeftInv`: unless a
  death came while there was no ring, a dead server leaves such a set behind, and a walk
  that removes it (`Removing`) stays inside, because nothing left is linked to a segment
  removed but the first, where the walk ends. `OneOfAKey` is what shmget ensures.
  `ChainInv` (behind `NothingLost` and `LeaveLogCompletes`) says what the segments hold:
  there is a round P of segments from the saved head and a count B of records before each
  of them, P[i] holds exactly the records from B[i] + 1 to B[i + 1], and, in a life
  without a short write, the log file those before the first. Server, consumer,
  constructor and shmtool each keep such a round, but for the writes between which they
  are; `WalkFinds` says that the walk the properties make along the ids finds P. After a
  death in Persist the file may reach into P[0], by one cell at most (`Fits`).

Induction over data. The induction theorems of the library are of no use here, their
parameter being an operator, but `WFMin` with `NatLessThanWellFounded` is a statement
about sets: every set of numbers has a least element (`LeastOf`), and what holds of 0,
and of i + 1 if of i, holds up to n (`Count`). A recursive function is shown to satisfy
its equation by building one that does, number by number (`FoundInIs`, `PathExists`,
`PopsExist`, `JointIs`); nothing is proved about RECURSIVE operators, and the modules have none.

Every safety invariant, action property and refinement the runs check is proved. Only
model-checked: liveness (AcceptedIsParsed, RecordsReachDisk, IdleIsClosed), which is out of
the prover's reach, and the two violations of section 5.

## 5. Where code and documentation disagree

Shown by runs:
1. Error responses (400, 403, 404, 500) are built but never sent, m_iDataLen being 0
   (`loop_error`, http.cpp:649, 517).
2. A request cut inside a token ends the server with an exception (`parser_split`,
   http.cpp:40).

Met while modelling; the properties state the condition under which they do not
matter:

3. A timer closes a connection whose task is still in the pool; the CHttp may be given
   to another client while a worker uses it (main.cpp:64). Between the worker's mmap,
   m_iDataLen and ModFd (http.cpp:676, 685, 711) the loop's unmmap or Init may then come,
   and m_iDataLen > 0 meets a null m_pFileAddr. OwnedOnce and SendsFromMapping are about
   `SpecPrompt`.
4. At the memory limit a producer may append to a FULL cell (log.cpp:271). FullIsStable
   is checked below the limit.
5. Two writes that end inside the header make Write skip bytes (http.cpp:569):
   StreamIsResponse has `short <= 1`. The rest may be taken from in front of the mapping
   (http.cpp:564).
6. A response longer than an int holds is cut (http.cpp:685): `Fits`.
7. A request with Content-Length 0 or with a body of one character is complete, but
   ParseRead answers OPEN (http.cpp:581-593): CompleteIsAnswered has `Recognised`.
8. A part that ends between a header's name and value, or before the body, loses the
   header, or the body (http.cpp:52, 282): FieldsAreSent has `cut`.
9. The mapping of a file stays behind when a connection is closed before Write is done
   (main.cpp:217, http.cpp:676).
10. MAX_FD sizes arrays indexed by descriptor but limits the number of connections
    (main.cpp:18, 170).
11. The ring starts with two cells, the constructor attaching one segment twice, while
    m_iBuffCnt says three (log.cpp:101).
12. A new day renews m_iDay but not the month (log.cpp:168-171): the first of February
    gets the name of the first of January, whose file fopen empties. EveryRecordInAFile
    is about one month.
13. The consumer reads year, month and day of the time cache without a lock, possibly
    between the stores of month and day (log.cpp:316-318, log.h:88-90), and a torn day is
    a change of day for DecisFile: `trusted`.
14. A time stamp may be another call's, or torn, when two calls of GetCurTime overlap
    (log.h:47): CacheExact has `alone` and `clean`.
15. A server that dies between log.cpp:259 and 261, or between the first removal of an
    old segment and the store of the new head (log.cpp:67-121), leaves ids of no segment;
    the test `!CB` (log.cpp:61) does not catch the (void*)-1 of shmat, and shmtool and
    every later server end with a segmentation fault until the small segment is removed
    by hand: `broken`.
16. shmtool opens leaveLog.log with "w" at the first cell that holds records
    (shmtool.cpp:67): a later run that finds any writes the file anew, and one that is
    killed leaves part of it. If the file cannot be opened it writes to a null pointer
    (shmtool.cpp:68): `ToolNoFile`.
17. A short fwrite is reported to stderr and nothing else (log.h:131-134). The consumer
    clears the cell all the same (log.cpp:330), and shmtool -d removes the segment whatever
    fwrite and fclose answered (shmtool.cpp:74, 79): the records are gone. Completes has
    `short`, SavedCompletesLog `toolShort`.
18. A body is taken when its first byte is there, with the length the Content-Length
    declares, whether the rest has come or not (http.cpp:341); what lies behind is taken
    for it, and a length beyond the buffers reads memory that is not CHttp's, or throws.
    NoCrash is about lengths up to the size of m_aWriteData, FieldsAreSent about bodies
    that come with their headers.

## 6. Not modelled

Start and end of the server (main frees https, clientDatas and the pool while detached
workers may still run), edge-triggered mode (switched off by main.cpp:22, and
main.cpp:175 passes 0), the branch of Write for keep-alive (m_bLinger is never set),
CloseHttp (ParseWrite cannot fail), failures of new, mmap, open, pthread_create and of
shmget at a start, formatting of responses and records, the level test of the log
macros, the unused CSem, Broadcast and GetTop. Of the log: files that somebody else
creates, removes or renames; failures of rename; a clock that goes back; ids and process
numbers the system gives out again; what stdio keeps of a short write and writes later; shmtool beside a living server; the back links of
the cells, which nobody follows.

## 7. Plan

Done: 1 ThreadPool and TaskQueue, 2 RingLog and BatchLog, 3 EventLoop,
4 WriteResponse, each with its proofs; 5 TimerHeap and TimerSet, with its proofs; 6 HttpParser,
with its proofs; 7 UtcTime and LogFile, 8 ShmRing, with their proofs; 9 the owners of a CHttp.

Next:
* The end of the server: what SIGTERM leaves to threads that still run.
* EventLoop with its timers as an instance of TimerSet.
