------------------------------ MODULE ThreadPool ------------------------------
(***************************************************************************)
(* CThreadPool<T> of threadpool/threadpool.h: detached worker threads that *)
(* take tasks from one bounded queue guarded by one mutex (CLocker) and    *)
(* one condition variable (CCond) of lock/locker.h.                        *)
(*                                                                         *)
(* Only the event loop of main.cpp calls Append.  A task is the number of  *)
(* the Append call that carried it, so that a task handed over twice, lost *)
(* or overtaken is visible.  Steps between a Lock and the matching Unlock  *)
(* that no other thread can observe are one action; HttpParse is not: it   *)
(* runs with the mutex held and the other threads block meanwhile.         *)
(***************************************************************************)
EXTENDS Naturals, Sequences

CONSTANTS
  Workers,     \* the worker threads, main.cpp:90 starts 4
  TASK_NUM,    \* threadpool.h:12, the most tasks Append leaves in the queue
  MaxAppends,  \* bound of the model: how often the event loop calls Append
  Main,        \* the event loop's thread
  NULL         \* no thread, no task

ASSUME PoolAssumption ==
  /\ TASK_NUM \in Nat
  /\ MaxAppends \in Nat
  /\ Workers # {}
  /\ Main \notin Workers
  /\ NULL \notin Workers \cup {Main}
  /\ NULL \notin Nat

Tasks == 1..MaxAppends

VARIABLES
  m_qTasks,   \* the queue
  m_cLock,    \* the thread that holds the mutex, or NULL
  wpc,        \* worker: "lock" (before Lock), "wait" (in pthread_cond_wait),
              \* "relock" (woken, reacquiring the mutex), "pop" (in front and
              \* pop, mutex held), "parse" (in HttpParse, mutex held)
  m_task,     \* worker: the local variable m_task
  mpc,        \* event loop: "loop", "push" (size test passed), "signal" (pushed)
  calls,      \* how often Append was called
  accepted,   \* history: the tasks pushed, in order
  parsed      \* history: the tasks whose HttpParse returned, in order

vars == <<m_qTasks, m_cLock, wpc, m_task, mpc, calls, accepted, parsed>>

Init ==
  /\ m_qTasks = <<>>
  /\ m_cLock = NULL
  /\ wpc = [w \in Workers |-> "lock"]
  /\ m_task = [w \in Workers |-> NULL]
  /\ mpc = "loop"
  /\ calls = 0
  /\ accepted = <<>>
  /\ parsed = <<>>

-----------------------------------------------------------------------------
(* The event loop: Append *)

\* Mutant of SeesRoom: the limit is off by one.
SeesRoomOffByOne ==
  IF \E w \in Workers : wpc[w] = "pop"
    THEN BOOLEAN
    ELSE {Len(m_qTasks) <= TASK_NUM}

\* What the test of line 76 may answer.  It reads m_qTasks.size() without the
\* mutex: while a worker is inside pop the read is torn (std::deque computes its
\* size from several pointers), and the answer may be anything.
SeesRoom ==
  IF \E w \in Workers : wpc[w] = "pop"
    THEN BOOLEAN
    ELSE {Len(m_qTasks) < TASK_NUM}

\* A queue seen full makes Append return false.  The queue may change between
\* the test and the push.
AppendTest ==
  /\ mpc = "loop"
  /\ calls < MaxAppends
  /\ calls' = calls + 1
  /\ \E room \in SeesRoom : mpc' = IF room THEN "push" ELSE "loop"
  /\ UNCHANGED <<m_qTasks, m_cLock, wpc, m_task, accepted, parsed>>

\* Mutant of AppendPush: the Unlock is forgotten.
AppendPushKeepsLock ==
  /\ mpc = "push"
  /\ m_cLock = NULL
  /\ m_cLock' = Main
  /\ m_qTasks' = Append(m_qTasks, calls)
  /\ accepted' = Append(accepted, calls)
  /\ mpc' = "signal"
  /\ UNCHANGED <<wpc, m_task, calls, parsed>>

\* Mutant of AppendPush: nobody is signalled.
AppendPushNoSignal ==
  /\ mpc = "push"
  /\ m_cLock = NULL
  /\ m_qTasks' = Append(m_qTasks, calls)
  /\ accepted' = Append(accepted, calls)
  /\ mpc' = "loop"
  /\ UNCHANGED <<m_cLock, wpc, m_task, calls, parsed>>

\* Lock, push, Unlock
AppendPush ==
  /\ mpc = "push"
  /\ m_cLock = NULL
  /\ m_qTasks' = Append(m_qTasks, calls)
  /\ accepted' = Append(accepted, calls)
  /\ mpc' = "signal"
  /\ UNCHANGED <<m_cLock, wpc, m_task, calls, parsed>>

\* pthread_cond_signal, after the Unlock: wakes one waiter, if there is one.
AppendSignal ==
  /\ mpc = "signal"
  /\ mpc' = "loop"
  /\ \/ \E w \in Workers : wpc[w] = "wait" /\ wpc' = [wpc EXCEPT ![w] = "relock"]
     \/ (\A w \in Workers : wpc[w] # "wait") /\ UNCHANGED wpc
  /\ UNCHANGED <<m_qTasks, m_cLock, m_task, calls, accepted, parsed>>

-----------------------------------------------------------------------------
(* A worker: Work *)

\* The worker gets the mutex, at the top of the loop or inside
\* pthread_cond_wait, and evaluates the while condition.
Gets(w) == wpc[w] \in {"lock", "relock"} /\ m_cLock = NULL

\* The queue is empty: pthread_cond_wait releases the mutex and blocks.
WorkWait(w) ==
  /\ Gets(w)
  /\ m_qTasks = <<>>
  /\ wpc' = [wpc EXCEPT ![w] = "wait"]
  /\ UNCHANGED <<m_qTasks, m_cLock, m_task, mpc, calls, accepted, parsed>>

\* The queue is not empty: the worker enters front and pop.
WorkTake(w) ==
  /\ Gets(w)
  /\ m_qTasks # <<>>
  /\ m_cLock' = w
  /\ wpc' = [wpc EXCEPT ![w] = "pop"]
  /\ UNCHANGED <<m_qTasks, m_task, mpc, calls, accepted, parsed>>

\* Mutant of WorkPop: the mutex is released before HttpParse, so that two
\* workers may parse at a time.
WorkPopUnlocks(w) ==
  /\ wpc[w] = "pop"
  /\ m_task' = [m_task EXCEPT ![w] = Head(m_qTasks)]
  /\ m_qTasks' = Tail(m_qTasks)
  /\ m_cLock' = NULL
  /\ wpc' = [wpc EXCEPT ![w] = "parse"]
  /\ UNCHANGED <<mpc, calls, accepted, parsed>>

\* pop is complete and HttpParse starts; the mutex stays locked.
WorkPop(w) ==
  /\ wpc[w] = "pop"
  /\ m_task' = [m_task EXCEPT ![w] = Head(m_qTasks)]
  /\ m_qTasks' = Tail(m_qTasks)
  /\ wpc' = [wpc EXCEPT ![w] = "parse"]
  /\ UNCHANGED <<m_cLock, mpc, calls, accepted, parsed>>

\* HttpParse returns, Unlock, next iteration.
WorkDone(w) ==
  /\ wpc[w] = "parse"
  /\ parsed' = Append(parsed, m_task[w])
  /\ m_cLock' = NULL
  /\ m_task' = [m_task EXCEPT ![w] = NULL]
  /\ wpc' = [wpc EXCEPT ![w] = "lock"]
  /\ UNCHANGED <<m_qTasks, mpc, calls, accepted>>

\* pthread_cond_wait may return without a signal.
SpuriousWake(w) ==
  /\ wpc[w] = "wait"
  /\ wpc' = [wpc EXCEPT ![w] = "relock"]
  /\ UNCHANGED <<m_qTasks, m_cLock, m_task, mpc, calls, accepted, parsed>>

Work(w) == WorkWait(w) \/ WorkTake(w) \/ WorkPop(w) \/ WorkDone(w)

Next ==
  \/ AppendTest
  \/ AppendPush
  \/ AppendSignal
  \/ \E w \in Workers : WorkWait(w)
  \/ \E w \in Workers : WorkTake(w)
  \/ \E w \in Workers : WorkPop(w)
  \/ \E w \in Workers : WorkDone(w)
  \/ \E w \in Workers : SpuriousWake(w)

Spec == Init /\ [][Next]_vars

\* Threads keep running (the scheduler is fair to a thread that can step), and
\* a mutex that is free again and again is obtained by some worker that wants
\* it, though not by a particular one.  Append calls and spurious wake-ups are
\* never promised.
Fairness ==
  /\ WF_vars(AppendPush)
  /\ WF_vars(AppendSignal)
  /\ WF_vars(\E w \in Workers : Work(w))

LiveSpec == Spec /\ Fairness

-----------------------------------------------------------------------------
(* Properties *)

\* Types; between two steps only a worker holds the mutex.
TypeOK ==
  /\ m_qTasks \in Seq(Tasks)
  /\ m_cLock \in Workers \cup {NULL}
  /\ wpc \in [Workers -> {"lock", "wait", "relock", "pop", "parse"}]
  /\ m_task \in [Workers -> Tasks \cup {NULL}]
  /\ mpc \in {"loop", "push", "signal"}
  /\ calls \in 0..MaxAppends
  /\ mpc # "loop" => calls \in Tasks
  /\ accepted \in Seq(Tasks)
  /\ parsed \in Seq(Tasks)

\* pop and HttpParse run with the mutex held (threadpool.h:60-68): at most one
\* worker is inside them, on a task of its own.
ParseHoldsLock ==
  \A w \in Workers :
    /\ wpc[w] \in {"pop", "parse"} <=> m_cLock = w
    /\ wpc[w] = "pop" => m_qTasks # <<>>
    /\ wpc[w] = "parse" => m_task[w] \in Tasks

\* The task inside HttpParse, if a worker is there
InFlightOf(pc, task) ==
  IF \E w \in Workers : pc[w] = "parse"
    THEN <<task[CHOOSE w \in Workers : pc[w] = "parse"]>>
    ELSE <<>>

InFlight == InFlightOf(wpc, m_task)

\* Append tests the size before it locks (threadpool.h:76), so the answer may be
\* stale or torn when it pushes.  The queue still never exceeds TASK_NUM: only
\* the event loop pushes, and a pop that tears the answer also makes room before
\* the mutex is free again.
QueueWithinLimit ==
  /\ Len(m_qTasks) <= TASK_NUM
  /\ mpc = "push" =>
       \/ Len(m_qTasks) < TASK_NUM
       \/ \E w \in Workers : wpc[w] = "pop"

\* Every accepted task is in exactly one place: parsed, in HttpParse or queued,
\* and tasks are parsed in the order of the Append calls, whichever workers run
\* (threadpool.h:65-68 calls HttpParse before Unlock).
FifoExactlyOnce == accepted = parsed \o InFlight \o m_qTasks

\* A queued task always has a thread that will look at the queue: a worker that
\* does not wait, or the event loop about to signal.  This is the dead lock
\* threadpool/README.md describes and the while of threadpool.h:62 removes.
NoLostWakeup ==
  m_qTasks # <<>> => mpc = "signal" \/ \E w \in Workers : wpc[w] # "wait"

\* Every accepted task is parsed eventually.
AcceptedIsParsed ==
  \A t \in Tasks :
    (\E i \in DOMAIN accepted : accepted[i] = t)
      ~> (\E i \in DOMAIN parsed : parsed[i] = t)

\* The task inside HttpParse, or NULL
ParsedNowOf(pc, task) ==
  IF \E w \in Workers : pc[w] = "parse"
    THEN task[CHOOSE w \in Workers : pc[w] = "parse"]
    ELSE NULL

Queue == INSTANCE TaskQueue WITH
  Limit <- TASK_NUM, queue <- m_qTasks, parsing <- ParsedNowOf(wpc, m_task)

\* The pool is a TaskQueue: the threads, the condition variable and the size test
\* outside the mutex do not show (threadpool.h:56-85).
ImplementsTaskQueue == Queue!Spec
=============================================================================
