----------------------------- MODULE TaskQueue -----------------------------
(***************************************************************************)
(* What CThreadPool promises the event loop: one bounded first-in,         *)
(* first-out queue whose tasks are parsed one at a time, whatever the      *)
(* number of threads.  ThreadPool implements it; EventLoop is built on it. *)
(***************************************************************************)
EXTENDS Naturals, Sequences

CONSTANTS
  Tasks,   \* what can be queued
  Limit,   \* the most tasks in the queue, TASK_NUM
  NULL     \* no task

VARIABLES
  queue,   \* the tasks that wait
  parsing  \* the task inside HttpParse, or NULL

vars == <<queue, parsing>>

Init == queue = <<>> /\ parsing = NULL

\* A task enters while no task is being parsed: HttpParse keeps the mutex.
Put(t) ==
  /\ parsing = NULL
  /\ Len(queue) < Limit
  /\ queue' = Append(queue, t)
  /\ UNCHANGED parsing

Take ==
  /\ parsing = NULL
  /\ queue # <<>>
  /\ parsing' = Head(queue)
  /\ queue' = Tail(queue)

Done ==
  /\ parsing # NULL
  /\ parsing' = NULL
  /\ UNCHANGED queue

\* A size test without the mutex may answer anything while a task is taken out.
TakeUnderWay == parsing = NULL /\ queue # <<>>
MaySeeRoom == Len(queue) < Limit \/ TakeUnderWay
MaySeeFull == Len(queue) >= Limit \/ TakeUnderWay

Next == (\E t \in Tasks : Put(t)) \/ Take \/ Done

Spec == Init /\ [][Next]_vars
=============================================================================
