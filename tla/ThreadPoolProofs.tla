-------------------------- MODULE ThreadPoolProofs --------------------------
(***************************************************************************)
(* Safety of the thread pool for any number of workers, any queue limit    *)
(* and any number of Append calls.                                         *)
(***************************************************************************)
EXTENDS ThreadPool, SequenceTheorems, TLAPS

\* TypeOK alone is not inductive: that HttpParse finishes on a task needs
\* ParseHoldsLock.
TypeInv == TypeOK /\ ParseHoldsLock

LEMMA TypeInvInit == Init => TypeInv
BY PoolAssumption DEF Init, TypeInv, TypeOK, ParseHoldsLock, Tasks

LEMMA TypeInvStep == TypeInv /\ [Next]_vars => TypeInv'
<1>. SUFFICES ASSUME TypeInv, [Next]_vars
              PROVE  TypeInv'
  OBVIOUS
<1>. USE PoolAssumption DEF TypeInv, TypeOK, ParseHoldsLock, Tasks
<1>1. CASE AppendTest
  BY <1>1 DEF AppendTest
<1>2. CASE AppendPush
  BY <1>2 DEF AppendPush
<1>3. CASE AppendSignal
  BY <1>3 DEF AppendSignal
<1>4. ASSUME NEW w \in Workers, WorkWait(w)
      PROVE  TypeInv'
  BY <1>4 DEF WorkWait, Gets
<1>5. ASSUME NEW w \in Workers, WorkTake(w)
      PROVE  TypeInv'
  <2>1. TypeOK'
    BY <1>5 DEF WorkTake, Gets
  <2>2. ParseHoldsLock'
    BY <1>5 DEF WorkTake, Gets
  <2>. QED
    BY <2>1, <2>2
<1>9. ASSUME NEW w \in Workers, WorkPop(w)
      PROVE  TypeInv'
  <2>1. m_qTasks \in Seq(1..MaxAppends) /\ m_qTasks # <<>>
    BY <1>9 DEF WorkPop
  <2>2. Head(m_qTasks) \in 1..MaxAppends /\ Tail(m_qTasks) \in Seq(1..MaxAppends)
    BY <2>1
  <2>3. TypeOK'
    BY <1>9, <2>2 DEF WorkPop
  <2>4. ParseHoldsLock'
    BY <1>9, <2>2 DEF WorkPop
  <2>. QED
    BY <2>3, <2>4
<1>6. ASSUME NEW w \in Workers, WorkDone(w)
      PROVE  TypeInv'
  <2>1. m_task[w] \in 1..MaxAppends
    BY <1>6 DEF WorkDone
  <2>2. TypeOK'
    BY <1>6, <2>1 DEF WorkDone
  <2>3. ParseHoldsLock'
    BY <1>6 DEF WorkDone
  <2>. QED
    BY <2>2, <2>3
<1>7. ASSUME NEW w \in Workers, SpuriousWake(w)
      PROVE  TypeInv'
  BY <1>7 DEF SpuriousWake
<1>8. CASE UNCHANGED vars
  BY <1>8 DEF vars
<1>. QED
  BY <1>1, <1>2, <1>3, <1>4, <1>5, <1>6, <1>7, <1>8, <1>9 DEF Next

\* Type correctness of CThreadPool's state in every execution.
THEOREM TypeCorrect == Spec => []TypeOK
<1>1. TypeInv => TypeOK
  BY DEF TypeInv
<1>. QED
  BY TypeInvInit, TypeInvStep, <1>1, PTL DEF Spec

\* However many workers run, HttpParse is never executed by two of them.
THEOREM ParseExclusive == Spec => []ParseHoldsLock
<1>1. TypeInv => ParseHoldsLock
  BY DEF TypeInv
<1>. QED
  BY TypeInvInit, TypeInvStep, <1>1, PTL DEF Spec

-----------------------------------------------------------------------------
\* The size test of Append is outside the mutex, yet the queue never exceeds
\* TASK_NUM: the queue can only shrink between the test and the push.
THEOREM QueueBounded == Spec => []QueueWithinLimit
<1>1. Init => QueueWithinLimit
  BY PoolAssumption DEF Init, QueueWithinLimit
<1>2. TypeInv /\ QueueWithinLimit /\ [Next]_vars => QueueWithinLimit'
  <2>. SUFFICES ASSUME TypeInv, QueueWithinLimit, [Next]_vars
                PROVE  QueueWithinLimit'
    OBVIOUS
  <2>. USE PoolAssumption DEF QueueWithinLimit
  <2>0. m_qTasks \in Seq(Tasks) /\ Len(m_qTasks) \in Nat
    BY DEF TypeInv, TypeOK
  <2>1. CASE AppendTest
    <3>1. mpc' = "push" => Len(m_qTasks) < TASK_NUM \/ \E w \in Workers : wpc[w] = "pop"
      BY <2>1 DEF AppendTest, SeesRoom
    <3>. QED
      BY <2>0, <2>1, <3>1 DEF AppendTest
  <2>2. CASE AppendPush
    <3>1. calls \in Tasks
      BY <2>2 DEF AppendPush, TypeInv, TypeOK
    <3>2. Len(m_qTasks') = Len(m_qTasks) + 1
      BY <2>0, <2>2, <3>1 DEF AppendPush
    <3>. QED
      <4>1. \A w \in Workers : wpc[w] # "pop"
        BY <2>2 DEF AppendPush, TypeInv, ParseHoldsLock
      <4>. QED
        BY <2>0, <2>2, <3>2, <4>1 DEF AppendPush
  <2>3. CASE AppendSignal
    BY <2>3 DEF AppendSignal
  <2>4. ASSUME NEW w \in Workers, WorkWait(w)
        PROVE  QueueWithinLimit'
    BY <2>4 DEF WorkWait, Gets, TypeInv, TypeOK, ParseHoldsLock
  <2>5. ASSUME NEW w \in Workers, WorkTake(w)
        PROVE  QueueWithinLimit'
    <3>1. mpc = "push" => Len(m_qTasks) < TASK_NUM
      BY <2>5 DEF WorkTake, Gets, TypeInv, ParseHoldsLock
    <3>. QED
      BY <2>5, <3>1 DEF WorkTake
  <2>9. ASSUME NEW w \in Workers, WorkPop(w)
        PROVE  QueueWithinLimit'
    <3>1. m_qTasks # <<>>
      BY <2>9 DEF WorkPop, TypeInv, ParseHoldsLock
    <3>2. Len(m_qTasks') = Len(m_qTasks) - 1
      BY <2>0, <2>9, <3>1 DEF WorkPop
    <3>. QED
      BY <2>0, <2>9, <3>2 DEF WorkPop
  <2>6. ASSUME NEW w \in Workers, WorkDone(w)
        PROVE  QueueWithinLimit'
    BY <2>6 DEF WorkDone, TypeInv, TypeOK, ParseHoldsLock
  <2>7. ASSUME NEW w \in Workers, SpuriousWake(w)
        PROVE  QueueWithinLimit'
    BY <2>7 DEF SpuriousWake, TypeInv, TypeOK, ParseHoldsLock
  <2>8. CASE UNCHANGED vars
    BY <2>8 DEF vars
  <2>. QED
    BY <2>1, <2>2, <2>3, <2>4, <2>5, <2>6, <2>7, <2>8, <2>9 DEF Next
<1>. QED
  BY <1>1, <1>2, TypeInvInit, TypeInvStep, PTL DEF Spec

-----------------------------------------------------------------------------
\* No lost wake-up: a worker goes to sleep only when it has seen the queue
\* empty under the mutex, and every push is followed by a signal.
THEOREM WakeupKept == Spec => []NoLostWakeup
<1>1. Init => NoLostWakeup
  BY DEF Init, NoLostWakeup
<1>2. TypeInv /\ NoLostWakeup /\ [Next]_vars => NoLostWakeup'
  <2>. SUFFICES ASSUME TypeInv, NoLostWakeup, [Next]_vars
                PROVE  NoLostWakeup'
    OBVIOUS
  <2>. USE DEF NoLostWakeup, TypeInv, TypeOK
  <2>1. CASE AppendTest
    BY <2>1 DEF AppendTest
  <2>2. CASE AppendPush
    BY <2>2 DEF AppendPush
  <2>3. CASE AppendSignal
    <3>1. PICK w \in Workers : wpc'[w] # "wait"
      BY <2>3, PoolAssumption DEF AppendSignal
    <3>. QED
      BY <3>1
  <2>4. ASSUME NEW w \in Workers, WorkWait(w)
        PROVE  NoLostWakeup'
    BY <2>4 DEF WorkWait
  <2>5. ASSUME NEW w \in Workers, WorkTake(w)
        PROVE  NoLostWakeup'
    BY <2>5 DEF WorkTake
  <2>9. ASSUME NEW w \in Workers, WorkPop(w)
        PROVE  NoLostWakeup'
    BY <2>9 DEF WorkPop
  <2>6. ASSUME NEW w \in Workers, WorkDone(w)
        PROVE  NoLostWakeup'
    BY <2>6 DEF WorkDone
  <2>7. ASSUME NEW w \in Workers, SpuriousWake(w)
        PROVE  NoLostWakeup'
    BY <2>7 DEF SpuriousWake
  <2>8. CASE UNCHANGED vars
    BY <2>8 DEF vars
  <2>. QED
    BY <2>1, <2>2, <2>3, <2>4, <2>5, <2>6, <2>7, <2>8, <2>9 DEF Next
<1>. QED
  BY <1>1, <1>2, TypeInvInit, TypeInvStep, PTL DEF Spec

-----------------------------------------------------------------------------
\* What is in flight: the CHOOSE of InFlightOf has at most one candidate.
LEMMA NoneInFlight ==
  ASSUME NEW pc, NEW task, \A w \in Workers : pc[w] # "parse"
  PROVE  InFlightOf(pc, task) = <<>>
BY DEF InFlightOf

LEMMA OneInFlight ==
  ASSUME NEW pc, NEW task, NEW w \in Workers, pc[w] = "parse",
         \A v \in Workers : pc[v] = "parse" => v = w
  PROVE  InFlightOf(pc, task) = <<task[w]>>
<1>1. (CHOOSE v \in Workers : pc[v] = "parse") = w
  OBVIOUS
<1>. QED
  BY <1>1 DEF InFlightOf

\* A step that starts and ends no HttpParse leaves the task in flight alone.
LEMMA SameInFlight ==
  ASSUME NEW pc, NEW task, NEW pd, NEW tasd,
         \A v, w \in Workers : pc[v] = "parse" /\ pc[w] = "parse" => v = w,
         \A w \in Workers : pd[w] = "parse" <=> pc[w] = "parse",
         \A w \in Workers : pc[w] = "parse" => tasd[w] = task[w]
  PROVE  InFlightOf(pd, tasd) = InFlightOf(pc, task)
<1>1. CASE \A w \in Workers : pc[w] # "parse"
  BY <1>1, NoneInFlight
<1>2. ASSUME NEW w \in Workers, pc[w] = "parse"
      PROVE  InFlightOf(pd, tasd) = InFlightOf(pc, task)
  <2>1. InFlightOf(pc, task) = <<task[w]>>
    BY <1>2, OneInFlight
  <2>2. InFlightOf(pd, tasd) = <<tasd[w]>>
    BY <1>2, OneInFlight
  <2>. QED
    BY <1>2, <2>1, <2>2
<1>. QED
  BY <1>1, <1>2

LEMMA InFlightType == TypeInv => InFlight \in Seq(Tasks)
<1>1. ASSUME TypeInv, NEW w \in Workers, wpc[w] = "parse"
      PROVE  InFlight \in Seq(Tasks)
  <2>1. InFlight = <<m_task[w]>>
    BY <1>1, OneInFlight DEF TypeInv, ParseHoldsLock, InFlight
  <2>. QED
    BY <1>1, <2>1 DEF TypeInv, ParseHoldsLock
<1>2. ASSUME \A w \in Workers : wpc[w] # "parse"
      PROVE  InFlight \in Seq(Tasks)
  <2>1. InFlight = <<>>
    BY <1>2, NoneInFlight DEF InFlight
  <2>. QED
    BY <2>1, EmptySeq
<1>. QED
  BY <1>1, <1>2

\* The head of the queue moves to the place between parsed and queue.
LEMMA ConcatHead ==
  ASSUME NEW S, NEW p \in Seq(S), NEW q \in Seq(S), q # <<>>
  PROVE  p \o <<>> \o q = p \o <<Head(q)>> \o Tail(q)
<1>1. q = <<Head(q)>> \o Tail(q)
  <2>. DEFINE r == <<Head(q)>> \o Tail(q)
  <2>1. Head(q) \in S /\ Tail(q) \in Seq(S) /\ Head(q) = q[1]
    OBVIOUS
  <2>2. r \in Seq(S) /\ Len(r) = Len(q)
    BY <2>1
  <2>3. \A i \in 1..Len(r) : r[i] = q[i]
    BY <2>1
  <2>. HIDE DEF r
  <2>. QED
    BY <2>2, <2>3, SeqEqual
<1>2. p \o <<>> = p
  BY ConcatEmptySeq
<1>3. <<Head(q)>> \in Seq(S) /\ Tail(q) \in Seq(S)
  OBVIOUS
<1>4. (p \o <<Head(q)>>) \o Tail(q) = p \o (<<Head(q)>> \o Tail(q))
  BY <1>3, ConcatAssociative
<1>. QED
  BY <1>1, <1>2, <1>4

\* The task in flight joins the parsed ones.
LEMMA ConcatDone ==
  ASSUME NEW S, NEW p \in Seq(S), NEW e \in S
  PROVE  p \o <<e>> = Append(p, e) \o <<>>
BY AppendIsConcat, AppendProperties, ConcatEmptySeq

\* Tasks are parsed exactly once and in the order of the Append calls: every
\* step keeps accepted = parsed \o InFlight \o m_qTasks, moving at most one task
\* from one part to the next.
THEOREM FifoOrder == Spec => []FifoExactlyOnce
<1>1. Init => FifoExactlyOnce
  <2>. SUFFICES ASSUME Init PROVE FifoExactlyOnce
    OBVIOUS
  <2>1. InFlight = <<>>
    BY NoneInFlight DEF Init, InFlight
  <2>. QED
    BY <2>1, ConcatEmptySeq, EmptySeq DEF Init, FifoExactlyOnce
<1>2. TypeInv /\ FifoExactlyOnce /\ [Next]_vars => FifoExactlyOnce'
  <2>. SUFFICES ASSUME TypeInv, FifoExactlyOnce, [Next]_vars
                PROVE  FifoExactlyOnce'
    OBVIOUS
  <2>. USE DEF FifoExactlyOnce
  <2>0. /\ m_qTasks \in Seq(Tasks) /\ parsed \in Seq(Tasks)
        /\ InFlight \in Seq(Tasks) /\ parsed \o InFlight \in Seq(Tasks)
    <3>1. m_qTasks \in Seq(Tasks) /\ parsed \in Seq(Tasks) /\ InFlight \in Seq(Tasks)
      BY InFlightType DEF TypeInv, TypeOK
    <3>. QED
      BY <3>1, ConcatProperties
  <2>01. \A v, w \in Workers : wpc[v] = "parse" /\ wpc[w] = "parse" => v = w
    BY DEF TypeInv, ParseHoldsLock
  <2>02. ASSUME \A w \in Workers : wpc'[w] = "parse" <=> wpc[w] = "parse",
                m_task' = m_task
         PROVE  InFlight' = InFlight
    BY <2>01, <2>02, SameInFlight DEF InFlight
  <2>1. CASE AppendTest
    BY <2>1, <2>02 DEF AppendTest
  <2>2. CASE AppendPush
    <3>1. calls \in Tasks
      BY <2>2 DEF AppendPush, TypeInv, TypeOK
    <3>2. InFlight' = InFlight
      BY <2>2, <2>02 DEF AppendPush
    <3>3. accepted \in Seq(Tasks) /\ <<calls>> \in Seq(Tasks)
      BY <3>1 DEF TypeInv, TypeOK
    <3>4. Append(accepted, calls) = accepted \o <<calls>>
      BY <3>1, <3>3, AppendIsConcat
    <3>5. Append(m_qTasks, calls) = m_qTasks \o <<calls>>
      BY <2>0, <3>1, AppendIsConcat
    <3>6. (parsed \o InFlight \o m_qTasks) \o <<calls>>
            = (parsed \o InFlight) \o (m_qTasks \o <<calls>>)
      BY <2>0, <3>3, ConcatAssociative
    <3>. QED
      BY <2>2, <3>2, <3>4, <3>5, <3>6 DEF AppendPush
  <2>3. CASE AppendSignal
    <3>1. \A w \in Workers : wpc'[w] = "parse" <=> wpc[w] = "parse"
      BY <2>3 DEF AppendSignal, TypeInv, TypeOK
    <3>. QED
      BY <2>3, <3>1, <2>02 DEF AppendSignal
  <2>4. ASSUME NEW w \in Workers, WorkWait(w)
        PROVE  FifoExactlyOnce'
    <3>1. \A v \in Workers : wpc'[v] = "parse" <=> wpc[v] = "parse"
      BY <2>4 DEF WorkWait, Gets, TypeInv, TypeOK
    <3>. QED
      BY <2>4, <3>1, <2>02 DEF WorkWait
  <2>5. ASSUME NEW w \in Workers, WorkTake(w)
        PROVE  FifoExactlyOnce'
    <3>1. \A v \in Workers : wpc'[v] = "parse" <=> wpc[v] = "parse"
      BY <2>5 DEF WorkTake, Gets, TypeInv, TypeOK
    <3>. QED
      BY <2>5, <3>1, <2>02 DEF WorkTake
  <2>6. ASSUME NEW w \in Workers, WorkPop(w)
        PROVE  FifoExactlyOnce'
    <3>1. m_qTasks # <<>> /\ \A v \in Workers : wpc[v] # "parse"
      BY <2>6, PoolAssumption DEF WorkPop, TypeInv, TypeOK, ParseHoldsLock
    <3>2. InFlight = <<>>
      BY <3>1, NoneInFlight DEF InFlight
    <3>3. wpc'[w] = "parse" /\ (\A v \in Workers : wpc'[v] = "parse" => v = w)
      BY <2>6, <3>1 DEF WorkPop, TypeInv, TypeOK
    <3>4. InFlight' = <<m_task'[w]>>
      BY <3>3, OneInFlight DEF InFlight
    <3>5. InFlight' = <<Head(m_qTasks)>>
      BY <2>6, <3>4 DEF WorkPop, TypeInv, TypeOK
    <3>6. parsed \o <<>> \o m_qTasks = parsed \o <<Head(m_qTasks)>> \o Tail(m_qTasks)
      BY <2>0, <3>1, ConcatHead
    <3>. QED
      BY <2>6, <3>2, <3>5, <3>6 DEF WorkPop
  <2>7. ASSUME NEW w \in Workers, WorkDone(w)
        PROVE  FifoExactlyOnce'
    <3>1. m_task[w] \in Tasks /\ wpc[w] = "parse"
      BY <2>7 DEF WorkDone, TypeInv, ParseHoldsLock
    <3>2. InFlight = <<m_task[w]>>
      BY <3>1, <2>01, OneInFlight DEF InFlight
    <3>3. \A v \in Workers : wpc'[v] # "parse"
      BY <2>7, <2>01, <3>1 DEF WorkDone, TypeInv, TypeOK
    <3>4. InFlight' = <<>>
      BY <3>3, NoneInFlight DEF InFlight
    <3>5. parsed \o <<m_task[w]>> = Append(parsed, m_task[w]) \o <<>>
      BY <2>0, <3>1, ConcatDone
    <3>. QED
      BY <2>7, <3>2, <3>4, <3>5 DEF WorkDone
  <2>8. ASSUME NEW w \in Workers, SpuriousWake(w)
        PROVE  FifoExactlyOnce'
    <3>1. \A v \in Workers : wpc'[v] = "parse" <=> wpc[v] = "parse"
      BY <2>8 DEF SpuriousWake, TypeInv, TypeOK
    <3>. QED
      BY <2>8, <3>1, <2>02 DEF SpuriousWake
  <2>9. CASE UNCHANGED vars
    BY <2>9, <2>02 DEF vars
  <2>. QED
    BY <2>1, <2>2, <2>3, <2>4, <2>5, <2>6, <2>7, <2>8, <2>9 DEF Next
<1>. QED
  BY <1>1, <1>2, TypeInvInit, TypeInvStep, PTL DEF Spec
-----------------------------------------------------------------------------
\* The task in HttpParse: the CHOOSE of ParsedNowOf has at most one candidate.
LEMMA NoneParsed ==
  ASSUME NEW pc, NEW task, \A w \in Workers : pc[w] # "parse"
  PROVE  ParsedNowOf(pc, task) = NULL
BY DEF ParsedNowOf

LEMMA OneParsed ==
  ASSUME NEW pc, NEW task, NEW w \in Workers, pc[w] = "parse",
         \A v \in Workers : pc[v] = "parse" => v = w
  PROVE  ParsedNowOf(pc, task) = task[w]
<1>1. (CHOOSE v \in Workers : pc[v] = "parse") = w
  OBVIOUS
<1>. QED
  BY <1>1 DEF ParsedNowOf

LEMMA SameParsed ==
  ASSUME NEW pc, NEW task, NEW pd, NEW tasd,
         \A v, w \in Workers : pc[v] = "parse" /\ pc[w] = "parse" => v = w,
         \A w \in Workers : pd[w] = "parse" <=> pc[w] = "parse",
         \A w \in Workers : pc[w] = "parse" => tasd[w] = task[w]
  PROVE  ParsedNowOf(pd, tasd) = ParsedNowOf(pc, task)
<1>1. CASE \A w \in Workers : pc[w] # "parse"
  BY <1>1, NoneParsed
<1>2. ASSUME NEW w \in Workers, pc[w] = "parse"
      PROVE  ParsedNowOf(pd, tasd) = ParsedNowOf(pc, task)
  <2>1. ParsedNowOf(pc, task) = task[w]
    BY <1>2, OneParsed
  <2>2. ParsedNowOf(pd, tasd) = tasd[w]
    BY <1>2, OneParsed
  <2>. QED
    BY <1>2, <2>1, <2>2
<1>. QED
  BY <1>1, <1>2

ParsedNow == ParsedNowOf(wpc, m_task)

\* What the torn size test may answer is what the abstract queue allows, so that
\* a specification built on TaskQueue misses no answer of the pool.
LEMMA SizeTestAbstracted ==
  ASSUME TypeInv
  PROVE  /\ TRUE \in SeesRoom => Queue!MaySeeRoom
         /\ FALSE \in SeesRoom => Queue!MaySeeFull
<1>1. CASE \E w \in Workers : wpc[w] = "pop"
  <2>1. m_qTasks # <<>> /\ \A w \in Workers : wpc[w] # "parse"
    BY <1>1 DEF TypeInv, TypeOK, ParseHoldsLock
  <2>2. ParsedNowOf(wpc, m_task) = NULL
    BY <2>1, NoneParsed
  <2>. QED
    BY <2>1, <2>2 DEF Queue!MaySeeRoom, Queue!MaySeeFull, Queue!TakeUnderWay
<1>2. CASE ~\E w \in Workers : wpc[w] = "pop"
  <2>1. Len(m_qTasks) \in Nat
    BY DEF TypeInv, TypeOK
  <2>2. SeesRoom = {Len(m_qTasks) < TASK_NUM}
    BY Zenon, <1>2 DEF SeesRoom
  <2>3. TRUE \in SeesRoom => Len(m_qTasks) < TASK_NUM
    BY Zenon, <2>2
  <2>4. FALSE \in SeesRoom => ~(Len(m_qTasks) < TASK_NUM)
    BY Zenon, <2>2
  <2>5. ~(Len(m_qTasks) < TASK_NUM) => Len(m_qTasks) >= TASK_NUM
    BY <2>1, PoolAssumption
  <2>. QED
    BY Zenon, <2>3, <2>4, <2>5 DEF Queue!MaySeeRoom, Queue!MaySeeFull
<1>. QED
  BY <1>1, <1>2

\* The pool implements TaskQueue: AppendPush is Put, WorkPop is Take, WorkDone is
\* Done, and every other step of a thread leaves queue and parsing alone.
THEOREM PoolImplementsTaskQueue == Spec => ImplementsTaskQueue
<1>1. Init => Queue!Init
  BY NoneParsed DEF Init, Queue!Init
<1>2. TypeInv /\ QueueWithinLimit /\ [Next]_vars => [Queue!Next]_(Queue!vars)
  <2>. SUFFICES ASSUME TypeInv, QueueWithinLimit, [Next]_vars
                PROVE  Queue!Next \/ (m_qTasks' = m_qTasks /\ ParsedNow' = ParsedNow)
    BY DEF Queue!vars, ParsedNow
  <2>01. \A v, w \in Workers : wpc[v] = "parse" /\ wpc[w] = "parse" => v = w
    BY DEF TypeInv, ParseHoldsLock
  <2>02. ASSUME \A w \in Workers : wpc'[w] = "parse" <=> wpc[w] = "parse",
                m_task' = m_task
         PROVE  ParsedNow' = ParsedNow
    BY <2>01, <2>02, SameParsed DEF ParsedNow
  <2>1. CASE AppendTest
    BY <2>1, <2>02 DEF AppendTest
  <2>2. CASE AppendPush
    <3>1. calls \in Tasks /\ (\A w \in Workers : wpc[w] \notin {"pop", "parse"})
      BY <2>2, PoolAssumption DEF AppendPush, TypeInv, TypeOK, ParseHoldsLock
    <3>2. Len(m_qTasks) < TASK_NUM
      BY <2>2, <3>1 DEF AppendPush, QueueWithinLimit
    <3>3. ParsedNow = NULL /\ ParsedNow' = ParsedNow
      BY <2>2, <2>02, <3>1, NoneParsed DEF AppendPush, ParsedNow
    <3>4. Queue!Put(calls)
      BY <2>2, <3>2, <3>3 DEF AppendPush, Queue!Put, ParsedNow
    <3>. QED
      BY <3>1, <3>4 DEF Queue!Next
  <2>3. CASE AppendSignal
    <3>1. \A w \in Workers : wpc'[w] = "parse" <=> wpc[w] = "parse"
      BY <2>3 DEF AppendSignal, TypeInv, TypeOK
    <3>. QED
      BY <2>3, <3>1, <2>02 DEF AppendSignal
  <2>4. ASSUME NEW w \in Workers, WorkWait(w) \/ WorkTake(w) \/ SpuriousWake(w)
        PROVE  m_qTasks' = m_qTasks /\ ParsedNow' = ParsedNow
    <3>1. \A v \in Workers : wpc'[v] = "parse" <=> wpc[v] = "parse"
      BY <2>4 DEF WorkWait, WorkTake, SpuriousWake, Gets, TypeInv, TypeOK
    <3>. QED
      BY <2>4, <3>1, <2>02 DEF WorkWait, WorkTake, SpuriousWake
  <2>5. ASSUME NEW w \in Workers, WorkPop(w)
        PROVE  Queue!Take
    <3>1. m_qTasks # <<>> /\ \A v \in Workers : wpc[v] # "parse"
      BY <2>5, PoolAssumption DEF WorkPop, TypeInv, TypeOK, ParseHoldsLock
    <3>2. ParsedNow = NULL
      BY <3>1, NoneParsed DEF ParsedNow
    <3>3. wpc'[w] = "parse" /\ (\A v \in Workers : wpc'[v] = "parse" => v = w)
      BY <2>5, <3>1 DEF WorkPop, TypeInv, TypeOK
    <3>4. ParsedNow' = m_task'[w]
      BY <3>3, OneParsed DEF ParsedNow
    <3>5. m_task'[w] = Head(m_qTasks)
      BY <2>5 DEF WorkPop, TypeInv, TypeOK
    <3>. QED
      BY <2>5, <3>1, <3>2, <3>4, <3>5 DEF WorkPop, Queue!Take, ParsedNow
  <2>6. ASSUME NEW w \in Workers, WorkDone(w)
        PROVE  Queue!Done
    <3>1. m_task[w] \in Tasks /\ wpc[w] = "parse"
      BY <2>6 DEF WorkDone, TypeInv, ParseHoldsLock
    <3>2. ParsedNow = m_task[w] /\ ParsedNow # NULL
      BY <3>1, <2>01, OneParsed, PoolAssumption DEF ParsedNow, Tasks
    <3>3. \A v \in Workers : wpc'[v] # "parse"
      BY <2>6, <2>01, <3>1 DEF WorkDone, TypeInv, TypeOK
    <3>4. ParsedNow' = NULL
      BY <3>3, NoneParsed DEF ParsedNow
    <3>. QED
      BY <2>6, <3>2, <3>4 DEF WorkDone, Queue!Done, ParsedNow
  <2>7. CASE UNCHANGED vars
    BY <2>7, <2>02 DEF vars
  <2>. QED
    BY <2>1, <2>2, <2>3, <2>4, <2>5, <2>6, <2>7 DEF Next, Queue!Next
<1>3. Spec => []TypeInv
  BY TypeInvInit, TypeInvStep, PTL DEF Spec
<1>. QED
  BY <1>1, <1>2, <1>3, QueueBounded, PTL DEF Spec, ImplementsTaskQueue, Queue!Spec
=============================================================================
