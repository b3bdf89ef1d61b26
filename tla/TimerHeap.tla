------------------------------ MODULE TimerHeap ------------------------------
(***************************************************************************)
(* CTimerHeap of http/timer.cpp: a binary heap in an array that doubles    *)
(* when it is full, ordered by m_iExpireTime, in which every timer knows   *)
(* its own index m_iPos so that Adjust can find it.  Only the event loop's *)
(* thread uses it.                                                         *)
(*                                                                         *)
(* The calls come as main.cpp makes them: a timer is added once, adjusted  *)
(* and deleted only while its connection is open (EventLoop!EventsAreLive) *)
(* and Adjust follows an m_iExpireTime moved to now + 3 * TIMESLOT.        *)
(***************************************************************************)
EXTENDS Integers, Sequences, FiniteSets

CONSTANTS
  Capacity,   \* of CTimerHeap's constructor
  Lifetime,   \* 3 * TIMESLOT
  Delays,     \* the delays timers are made with; main.cpp only uses Lifetime
  MaxTimers,  \* bound of the model: timers ever made
  MaxClock,   \* bound of the model: seconds that pass
  NULL

ASSUME HeapAssumption ==
  /\ Capacity \in Nat \ {0}
  /\ Lifetime \in Nat
  /\ Delays \subseteq 0 .. Lifetime
  /\ MaxTimers \in Nat /\ MaxClock \in Nat
  /\ NULL \notin Nat

Timers == 1 .. MaxTimers

VARIABLES
  m_aTimers, m_iCurNum, m_iCapacity,
  m_iPos,         \* timer: its index in m_aTimers
  m_iExpireTime,  \* timer: a time_t
  callback,       \* timer: callback_func is not null
  fired,          \* timer: how often its callback was called
  made,           \* how many timers were made
  now             \* time(NULL)

array == <<m_aTimers, m_iCurNum, m_iCapacity, m_iPos>>
vars == <<array, m_iExpireTime, callback, fired, made, now>>

Init ==
  /\ m_aTimers = [i \in 0 .. Capacity - 1 |-> NULL]
  /\ m_iCurNum = 0
  /\ m_iCapacity = Capacity
  /\ m_iPos = [t \in Timers |-> 0]
  /\ m_iExpireTime = [t \in Timers |-> 0]
  /\ callback = [t \in Timers |-> FALSE]
  /\ fired = [t \in Timers |-> 0]
  /\ made = 0
  /\ now = 0

-----------------------------------------------------------------------------
(* Sifting.  h is a heap [a: array, n: m_iCurNum, pos: m_iPos]. *)

\* Mutant of ChildOf: always the left child.
ChildOfLeft(h, ex, i) == 2 * i + 1

\* The child of node i that expires first; i has one.
ChildOf(h, ex, i) ==
  LET l == 2 * i + 1
  IN  IF l + 1 < h.n /\ ex[h.a[l + 1]] < ex[h.a[l]] THEN l + 1 ELSE l

\* The nodes HeapDown looks at, from node to the place for the timer there
DownPath(h, ex, node) ==
  LET path[i \in DOMAIN h.a] ==
        IF 2 * i + 1 < h.n /\ ex[h.a[node]] > ex[h.a[ChildOf(h, ex, i)]]
          THEN <<i>> \o path[ChildOf(h, ex, i)]
          ELSE <<i>>
  IN  path[node]

\* The nodes AddTimer looks at, from the new last node to the place for t
UpPath(h, ex, t, node) ==
  LET path[i \in DOMAIN h.a] ==
        IF i > 0 /\ ex[h.a[(i - 1) \div 2]] > ex[t]
          THEN <<i>> \o path[(i - 1) \div 2]
          ELSE <<i>>
  IN  path[node]

\* Every node of the path takes the timer of the next one, the last takes t, and
\* each of these timers learns its new index.
Shifted(h, path, t) ==
  LET k == Len(path)
      a == [i \in DOMAIN h.a |->
              IF i = path[k] THEN t
              ELSE IF \E j \in 1 .. k - 1 : path[j] = i
                     THEN h.a[path[1 + CHOOSE j \in 1 .. k - 1 : path[j] = i]]
                     ELSE h.a[i]]
  IN  [h EXCEPT !.a = a,
                !.pos = [u \in Timers |->
                           IF \E j \in 1 .. k : a[path[j]] = u
                             THEN path[CHOOSE j \in 1 .. k : a[path[j]] = u]
                             ELSE h.pos[u]]]

HeapDown(h, ex, node) == Shifted(h, DownPath(h, ex, node), h.a[node])

\* PopTimer: the last timer goes to the root, where it also stays in its old node.
Popped(h, ex) ==
  HeapDown([h EXCEPT !.a[0] = h.a[h.n - 1], !.n = h.n - 1], ex, 0)

Heap == [a |-> m_aTimers, n |-> m_iCurNum, pos |-> m_iPos]

\* The heap of the next state
Becomes(h) == m_aTimers' = h.a /\ m_iCurNum' = h.n /\ m_iPos' = h.pos

-----------------------------------------------------------------------------
(* Operations *)

Full == m_iCurNum >= m_iCapacity

\* Mutant of NewCapacity: Resize does not store the new capacity.
NewCapacityOld == m_iCapacity

NewCapacity == IF Full THEN 2 * m_iCapacity ELSE m_iCapacity

\* Resize: the copy has room for twice as many.
Resized ==
  IF Full
    THEN [i \in 0 .. 2 * m_iCapacity - 1 |->
            IF i < m_iCurNum THEN m_aTimers[i] ELSE NULL]
    ELSE m_aTimers

\* new CHeapTimer(delay), then AddTimer
AddTimer ==
  LET t == made + 1
      h == [a |-> Resized, n |-> m_iCurNum + 1, pos |-> m_iPos]
  IN  /\ made < MaxTimers
      /\ made' = t
      /\ callback' = [callback EXCEPT ![t] = TRUE]
      /\ \E d \in Delays : m_iExpireTime' = [m_iExpireTime EXCEPT ![t] = now + d]
      /\ m_iCapacity' = NewCapacity
      /\ Becomes(Shifted(h, UpPath(h, m_iExpireTime', t, m_iCurNum), t))
      /\ UNCHANGED <<fired, now>>

InHeap(t) == \E i \in 0 .. m_iCurNum - 1 : m_aTimers[i] = t

\* main.cpp:257-262 with Adjust
Refresh(t) ==
  /\ InHeap(t) /\ callback[t]
  /\ m_iExpireTime' = [m_iExpireTime EXCEPT ![t] = now + Lifetime]
  /\ Becomes(HeapDown(Heap, m_iExpireTime', m_iPos[t]))
  /\ UNCHANGED <<m_iCapacity, callback, fired, made, now>>

DelTimer(t) ==
  /\ InHeap(t) /\ callback[t]
  /\ callback' = [callback EXCEPT ![t] = FALSE]
  /\ UNCHANGED <<array, m_iExpireTime, fired, made, now>>

\* The heap after each number of pops
AfterPops ==
  LET after[k \in 0 .. m_iCurNum] ==
        IF k = 0 THEN Heap ELSE Popped(after[k - 1], m_iExpireTime)
  IN  after

\* Mutant of Due: a timer that expires this second is left for the next Tick.
DueLate(t) == m_iExpireTime[t] < now

Due(t) == m_iExpireTime[t] <= now

\* Tick stops at the first top that is still to come.  A slot of an empty array
\* is NULL or stale, and not looked at.
Tick ==
  LET after == AfterPops
      due(k) == k < m_iCurNum /\ Due(after[k].a[0])
      last == CHOOSE k \in 0 .. m_iCurNum : ~due(k) /\ \A j \in 0 .. k - 1 : due(j)
      calls(t) == {k \in 0 .. last - 1 : after[k].a[0] = t /\ callback[t]}
  IN  /\ Becomes(after[last])
      /\ fired' = [t \in Timers |-> fired[t] + Cardinality(calls(t))]
      /\ UNCHANGED <<m_iCapacity, m_iExpireTime, callback, made, now>>

ClockTick ==
  /\ now < MaxClock
  /\ now' = now + 1
  /\ UNCHANGED <<array, m_iExpireTime, callback, fired, made>>

Next ==
  \/ AddTimer
  \/ \E t \in Timers : Refresh(t) \/ DelTimer(t)
  \/ Tick
  \/ ClockTick

Spec == Init /\ [][Next]_vars

-----------------------------------------------------------------------------
(* Properties *)

TypeOK ==
  /\ m_iCapacity \in Nat \ {0}
  /\ m_iCurNum \in 0 .. m_iCapacity
  /\ m_aTimers \in [0 .. m_iCapacity - 1 -> Timers \cup {NULL}]
  /\ \A i \in 0 .. m_iCurNum - 1 : m_aTimers[i] \in Timers
  /\ m_iPos \in [Timers -> 0 .. m_iCapacity - 1]
  /\ m_iExpireTime \in [Timers -> Nat]
  /\ callback \in [Timers -> BOOLEAN]
  /\ fired \in [Timers -> Nat]
  /\ made \in 0 .. MaxTimers /\ now \in 0 .. MaxClock

\* No timer expires before its parent.  Adjust only sifts down, which is enough
\* because m_iExpireTime only ever moves to a later time (timer.cpp:63).
HeapOrder ==
  \A i \in 1 .. m_iCurNum - 1 :
    m_iExpireTime[m_aTimers[(i - 1) \div 2]] <= m_iExpireTime[m_aTimers[i]]

\* Whatever was sifted, popped or copied since, the timer in a node is the one
\* that thinks it is there: Adjust starts where the timer is (timer.cpp:64), and
\* no timer is in two nodes.
PositionsRight == \A i \in 0 .. m_iCurNum - 1 : m_iPos[m_aTimers[i]] = i

\* What Adjust relies on in every state: order and positions together.
HeapSound == HeapOrder /\ PositionsRight

\* The timers EventLoop works with: the heap as a set and the seconds left.
Set == INSTANCE TimerSet WITH
  heap <- {m_aTimers[i] : i \in 0 .. m_iCurNum - 1},
  left <- [t \in Timers |-> IF m_iExpireTime[t] > now THEN m_iExpireTime[t] - now ELSE 0]

\* The array heap is that set: no timer is lost or doubled, and one Tick takes out
\* every timer that has expired, calling its callback once, and no other.
ImplementsTimerSet == Set!Spec
=============================================================================
