--------------------------- MODULE EventLoopProofs ---------------------------
(***************************************************************************)
(* Safety of the event loop for any number of descriptors, connections and *)
(* seconds: with a pool of any speed, and, in the second half, with one    *)
(* that is done with a request before its connection's timer runs out.     *)
(***************************************************************************)
EXTENDS EventLoop, FunctionTheorems, FiniteSetTheorems,
        SequenceTheorems, TLAPS

\* Open connections and live timers are in bijection: the two directions.
Watched ==
  \A f \in Fds : Open(f) => timer[f] \in Timers /\ Live(timer[f]) /\ owner[timer[f]] = f

Watching ==
  \A n \in Timers : Live(n) => owner[n] \in Fds /\ Open(owner[n]) /\ timer[owner[n]] = n

\* The batch: empty outside of the for loop, one event per descriptor, events of
\* open connections and of the two descriptors of the server, none of the
\* connection whose Append is under way.
BatchOK ==
  /\ mpc \in {"wait", "stopped"} => batch = {}
  /\ \A e, d \in batch : e[1] = d[1] => e = d
  /\ \A e \in batch : e[1] \in Fds => Open(e[1]) /\ e[1] # cur
  /\ cur # NULL => Open(cur)

LoopInv == TypeOK /\ Watched /\ Watching /\ BatchOK /\ CountsOpen

-----------------------------------------------------------------------------
(* Facts about the constants and the count *)

LEMMA ConstFacts ==
  /\ NULL \notin Fds /\ NULL \notin Timers
  /\ listenFd \in Nat /\ pipeFd \in Nat
  /\ listenFd \notin Fds /\ pipeFd \notin Fds
  /\ Fds \subseteq Nat /\ Timers \subseteq Nat
  /\ Lifetime \in Nat
BY LoopAssumption DEF Fds, Timers, Lifetime

OpenFds(r) == {f \in Fds : r[f] # "closed"}

LEMMA SetCallback ==
  ASSUME NEW c \in [Timers -> BOOLEAN], NEW n
  PROVE  [c EXCEPT ![n] = TRUE] \in [Timers -> BOOLEAN]
OBVIOUS

LEMMA OpenFdsFinite ==
  ASSUME NEW r
  PROVE  IsFiniteSet(OpenFds(r)) /\ Cardinality(OpenFds(r)) \in Nat
<1>1. IsFiniteSet(Fds)
  BY LoopAssumption, FS_Interval DEF Fds
<1>2. OpenFds(r) \in SUBSET Fds
  BY DEF OpenFds
<1>. QED
  BY <1>1, <1>2, FS_Subset, FS_CardinalityType

LEMMA CountsOpenIs == CountsOpen <=> m_iHttpCnt = Cardinality(OpenFds(reg))
BY DEF CountsOpen, OpenFds, Open

\* A step that opens and closes nothing keeps the count.
LEMMA SameCount ==
  ASSUME NEW r, NEW q, \A f \in Fds : q[f] = "closed" <=> r[f] = "closed"
  PROVE  OpenFds(q) = OpenFds(r)
BY DEF OpenFds

LEMMA OpenOne ==
  ASSUME NEW r, NEW f \in Fds, r[f] = "closed", NEW q, q[f] # "closed",
         \A g \in Fds \ {f} : q[g] = r[g]
  PROVE  Cardinality(OpenFds(q)) = Cardinality(OpenFds(r)) + 1
<1>1. OpenFds(q) = OpenFds(r) \cup {f} /\ f \notin OpenFds(r)
  BY DEF OpenFds
<1>. QED
  BY <1>1, OpenFdsFinite, FS_AddElement

LEMMA CloseOne ==
  ASSUME NEW r, NEW f \in Fds, r[f] # "closed", NEW q, q[f] = "closed",
         \A g \in Fds \ {f} : q[g] = r[g]
  PROVE  Cardinality(OpenFds(q)) = Cardinality(OpenFds(r)) - 1
<1>1. OpenFds(q) = OpenFds(r) \ {f} /\ f \in OpenFds(r)
  BY DEF OpenFds
<1>. QED
  BY <1>1, OpenFdsFinite, FS_RemoveElement

\* Closing the distinct owners of a set of timers
LEMMA CloseOwners ==
  ASSUME NEW r, NEW own, NEW due \in SUBSET Timers,
         \A n \in due : own[n] \in Fds /\ r[own[n]] # "closed",
         \A n, k \in due : own[n] = own[k] => n = k,
         NEW q,
         \A f \in Fds : q[f] = IF \E n \in due : own[n] = f THEN "closed" ELSE r[f]
  PROVE  Cardinality(OpenFds(q)) = Cardinality(OpenFds(r)) - Cardinality(due)
<1>. DEFINE C == {own[n] : n \in due}
            b == [n \in due |-> own[n]]
<1>1. IsFiniteSet(due)
  <2>1. IsFiniteSet(Timers)
    BY LoopAssumption, FS_Interval DEF Timers
  <2>. QED
    BY <2>1, FS_Subset
<1>2. b \in Bijection(due, C)
  BY Fun_IsBij
<1>3. IsFiniteSet(C) /\ Cardinality(C) = Cardinality(due)
  BY <1>1, <1>2, FS_Bijection, Fun_ExistsBij
<1>4. OpenFds(q) = OpenFds(r) \ C /\ OpenFds(r) \cap C = C
  BY DEF OpenFds
<1>. HIDE DEF C, b
<1>5. Cardinality(OpenFds(r) \ C) = Cardinality(OpenFds(r)) - Cardinality(OpenFds(r) \cap C)
  BY OpenFdsFinite, FS_Difference
<1>. QED
  BY <1>3, <1>4, <1>5

-----------------------------------------------------------------------------
(* Initially *)

LEMMA LoopInit == Init => LoopInv
<1>. SUFFICES ASSUME Init PROVE LoopInv
  OBVIOUS
<1>. USE DEF Init
<1>1. OpenFds(reg) = {}
  BY DEF OpenFds
<1>2. CountsOpen
  <2>1. Cardinality(OpenFds(reg)) = 0
    BY <1>1, FS_EmptySet
  <2>. QED
    BY <2>1, CountsOpenIs
<1>3. LoopTypeOK
  BY ConstFacts DEF LoopTypeOK
<1>4. PoolTypeOK
  BY EmptySeq DEF PoolTypeOK, Pool!Init
<1>5. TimersTypeOK
  BY ConstFacts, LoopAssumption DEF TimersTypeOK
<1>6. SignalsTypeOK
  <2>1. timeout \in BOOLEAN /\ stop_server \in BOOLEAN
    OBVIOUS
  <2>2. alarm \in 1 .. TIMESLOT /\ pipe \subseteq {"ALRM", "TERM"}
    BY LoopAssumption
  <2>. QED
    BY <2>1, <2>2 DEF SignalsTypeOK
<1>7. HttpsTypeOK
  BY DEF HttpsTypeOK
<1>8. Watched /\ Watching
  BY DEF Watched, Watching, Open, Live
<1>9. BatchOK
  BY DEF BatchOK
<1>. QED
  BY <1>2, <1>3, <1>4, <1>5, <1>6, <1>7, <1>8, <1>9 DEF LoopInv, TypeOK

-----------------------------------------------------------------------------
(* Steps that open and close nothing and leave the timers' connections alone *)

SameOpen == \A f \in Fds : reg'[f] = "closed" <=> reg[f] = "closed"

LEMMA QuietStep ==
  ASSUME LoopInv, SameOpen, UNCHANGED <<heap, timer, owner, callback, m_iHttpCnt>>
  PROVE  Watched' /\ Watching' /\ CountsOpen' /\ m_iHttpCnt' \in Nat
<1>1. Watched' /\ Watching'
  BY DEF SameOpen, LoopInv, Watched, Watching, Open, Live
<1>2. OpenFds(reg') = OpenFds(reg)
  BY SameCount DEF SameOpen
<1>3. CountsOpen'
  BY <1>2 DEF LoopInv, CountsOpen, OpenFds, Open
<1>. QED
  BY <1>1, <1>3 DEF LoopInv, TypeOK, LoopTypeOK

\* Close and DelTimer, as HangUp, ReadFails and WriteEnds call them
LEMMA CloseStep ==
  ASSUME LoopInv, NEW f \in Fds, Open(f), Close(f), DelTimer(timer[f])
  PROVE  /\ Watched' /\ Watching' /\ CountsOpen' /\ m_iHttpCnt' \in Nat
         /\ reg' \in [Fds -> {"closed", "off", "in", "out"}]
         /\ \A g \in Fds \ {f} : reg'[g] = reg[g]
         /\ TimersTypeOK'
<1>. DEFINE n == timer[f]
<1>1. n \in Timers /\ Live(n) /\ owner[n] = f
  BY DEF LoopInv, Watched
<1>2. /\ reg' \in [Fds -> {"closed", "off", "in", "out"}]
      /\ reg'[f] = "closed" /\ \A g \in Fds \ {f} : reg'[g] = reg[g]
  BY DEF Close, LoopInv, TypeOK, LoopTypeOK
<1>3. /\ callback' \in [Timers -> BOOLEAN]
      /\ callback'[n] = FALSE /\ \A k \in Timers \ {n} : callback'[k] = callback[k]
      /\ UNCHANGED <<made, heap, timer, owner, left>>
  BY <1>1 DEF DelTimer, LoopInv, TypeOK, TimersTypeOK
<1>4. Watched'
  BY <1>1, <1>2, <1>3 DEF LoopInv, Watched, Open, Live
<1>5. Watching'
  BY <1>1, <1>2, <1>3 DEF LoopInv, Watching, Open, Live
<1>6. Cardinality(OpenFds(reg')) = Cardinality(OpenFds(reg)) - 1
  BY <1>2, CloseOne DEF Open
<1>7. CountsOpen'
  BY <1>6 DEF LoopInv, CountsOpen, OpenFds, Open, Close
<1>8. m_iHttpCnt' \in Nat
  BY <1>7, OpenFdsFinite DEF CountsOpen, OpenFds, Open
<1>9. TimersTypeOK'
  BY <1>3 DEF LoopInv, TypeOK, TimersTypeOK
<1>. QED
  BY <1>2, <1>4, <1>5, <1>7, <1>8, <1>9

LEMMA TickStep ==
  ASSUME LoopInv, Tick
  PROVE  /\ Watched' /\ Watching' /\ CountsOpen' /\ m_iHttpCnt' \in Nat
         /\ reg' \in [Fds -> {"closed", "off", "in", "out"}]
         /\ TimersTypeOK'
<1>. DEFINE due == {n \in Expired : callback[n]}
<1>1. /\ heap' = heap \ Expired
      /\ reg' = [f \in Fds |-> IF \E n \in due : owner[n] = f THEN "closed" ELSE reg[f]]
      /\ m_iHttpCnt' = m_iHttpCnt - Cardinality(due)
      /\ UNCHANGED <<made, timer, owner, callback, left>>
  BY DEF Tick
<1>2. due \subseteq Timers /\ \A n \in due : Live(n)
  <2>1. heap \subseteq Timers
    BY LoopAssumption DEF LoopInv, TypeOK, TimersTypeOK, Timers
  <2>. QED
    BY <2>1 DEF Expired, Live
<1>3. \A n \in due : owner[n] \in Fds /\ Open(owner[n]) /\ timer[owner[n]] = n
  BY <1>2 DEF LoopInv, Watching
<1>4. \A n, k \in due : owner[n] = owner[k] => n = k
  BY <1>3
<1>5. reg' \in [Fds -> {"closed", "off", "in", "out"}]
  BY <1>1 DEF LoopInv, TypeOK, LoopTypeOK
<1>6. \A n \in heap' : n \in heap /\ n \notin due
  BY <1>1
<1>7. \A n \in heap \ heap' : callback[n] => n \in due
  BY <1>1 DEF Expired
<1>. HIDE DEF due
<1>8. Watched'
  <2>. SUFFICES ASSUME NEW f \in Fds, reg'[f] # "closed"
                PROVE  timer[f] \in Timers /\ timer[f] \in heap' /\ callback[timer[f]] /\ owner[timer[f]] = f
    BY <1>1 DEF Watched, Open, Live
  <2>1. Open(f) /\ \A n \in due : owner[n] # f
    BY <1>1 DEF Open
  <2>2. timer[f] \in Timers /\ Live(timer[f]) /\ owner[timer[f]] = f
    BY <2>1 DEF LoopInv, Watched
  <2>. QED
    BY <2>1, <2>2, <1>7 DEF Live
<1>9. Watching'
  <2>. SUFFICES ASSUME NEW n \in Timers, n \in heap', callback[n]
                PROVE  owner[n] \in Fds /\ reg'[owner[n]] # "closed" /\ timer[owner[n]] = n
    BY <1>1 DEF Watching, Open, Live
  <2>1. owner[n] \in Fds /\ Open(owner[n]) /\ timer[owner[n]] = n /\ n \notin due
    BY <1>6 DEF LoopInv, Watching, Live
  <2>2. \A k \in due : owner[k] # owner[n]
    BY <2>1, <1>3
  <2>. QED
    BY <2>1, <2>2, <1>1 DEF Open
<1>10. Cardinality(OpenFds(reg')) = Cardinality(OpenFds(reg)) - Cardinality(due)
  BY <1>1, <1>2, <1>3, <1>4, CloseOwners DEF Open
<1>11. CountsOpen'
  BY <1>1, <1>10 DEF LoopInv, CountsOpen, OpenFds, Open
<1>12. m_iHttpCnt' \in Nat
  BY <1>11, OpenFdsFinite DEF CountsOpen, OpenFds, Open
<1>13. TimersTypeOK'
  BY <1>1, <1>6 DEF LoopInv, TypeOK, TimersTypeOK
<1>. QED
  BY <1>5, <1>8, <1>9, <1>11, <1>12, <1>13

-----------------------------------------------------------------------------
(* The parts of the state a step leaves alone stay well typed *)

LEMMA SameSignals ==
  ASSUME SignalsTypeOK, UNCHANGED signals PROVE SignalsTypeOK'
BY DEF SignalsTypeOK, signals

LEMMA SamePool == ASSUME PoolTypeOK, UNCHANGED pool PROVE PoolTypeOK'
BY DEF PoolTypeOK, pool

LEMMA SameHttps == ASSUME HttpsTypeOK, UNCHANGED https PROVE HttpsTypeOK'
BY DEF HttpsTypeOK, https

LEMMA SameTimers == ASSUME TimersTypeOK, UNCHANGED timers PROVE TimersTypeOK'
BY DEF TimersTypeOK, timers

LEMMA RefreshType ==
  ASSUME TimersTypeOK, NEW n \in Timers, Refresh(n) PROVE TimersTypeOK'
BY ConstFacts DEF TimersTypeOK, Refresh

LEMMA ArmType ==
  ASSUME LoopInv, NEW f \in Fds, NEW kind \in {"in", "out"}, Arm(f, kind)
  PROVE  reg' \in [Fds -> {"closed", "off", "in", "out"}] /\ SameOpen
BY DEF Arm, LoopInv, TypeOK, LoopTypeOK, SameOpen

\* Looking at an event of connection f that is not closed by it
LEMMA TakesStep ==
  ASSUME LoopInv, NEW e, Takes(e), SameOpen, UNCHANGED <<mpc, cur>>
  PROVE  BatchOK' /\ batch' \subseteq Nat \X {"in", "out", "hup"}
BY DEF Takes, SameOpen, LoopInv, BatchOK, Open, TypeOK, LoopTypeOK

\* and that is
LEMMA TakesAndCloses ==
  ASSUME LoopInv, NEW f \in Fds, NEW kind, Takes(<<f, kind>>), UNCHANGED <<mpc, cur>>,
         \A g \in Fds \ {f} : reg'[g] = reg[g]
  PROVE  BatchOK' /\ batch' \subseteq Nat \X {"in", "out", "hup"}
<1>1. \A e \in batch' : e \in batch /\ e[1] # f
  BY DEF Takes, LoopInv, BatchOK
<1>2. cur = NULL /\ mpc = "batch"
  BY DEF Takes, LoopInv, TypeOK, LoopTypeOK
<1>. QED
  BY <1>1, <1>2 DEF LoopInv, BatchOK, Open, TypeOK, LoopTypeOK

LEMMA EventFacts ==
  ASSUME LoopInv, NEW f \in Fds, NEW kind, Takes(<<f, kind>>)
  PROVE  /\ Open(f) /\ timer[f] \in Timers /\ mpc = "batch" /\ cur = NULL
         /\ batch' \subseteq batch /\ \A e \in batch' : e[1] # f
BY DEF Takes, LoopInv, BatchOK, Watched, TypeOK, LoopTypeOK

\* A step is done with when each part of the invariant is.
LEMMA Together ==
  ASSUME reg' \in [Fds -> {"closed", "off", "in", "out"}],
         batch' \subseteq Nat \X {"in", "out", "hup"},
         mpc' \in {"wait", "batch", "append", "stopped"},
         cur' \in Fds \cup {NULL}, cur' # NULL <=> mpc' = "append",
         m_iHttpCnt' \in Nat, PoolTypeOK', TimersTypeOK', SignalsTypeOK', HttpsTypeOK',
         Watched', Watching', BatchOK', CountsOpen'
  PROVE  LoopInv'
BY DEF LoopInv, TypeOK, LoopTypeOK

-----------------------------------------------------------------------------
(* The actions *)

LEMMA EpollWaitKeeps == LoopInv /\ EpollWait => LoopInv'
<1>. SUFFICES ASSUME LoopInv, EpollWait PROVE LoopInv'
  OBVIOUS
<1>1. \A f \in Fds : \A e \in Ready(f) :
        e \in Nat \X {"in", "out", "hup"} /\ e[1] = f /\ Open(f)
  BY ConstFacts DEF Ready, Open
<1>2. \A e \in batch' : \/ \E f \in Fds : e \in Ready(f)
                        \/ e = <<listenFd, "in">> \/ e = <<pipeFd, "in">>
  BY DEF EpollWait
<1>3. batch' \subseteq Nat \X {"in", "out", "hup"}
  BY <1>1, <1>2, ConstFacts
<1>4. \A e \in batch' : e[1] \in Fds => Open(e[1])
  BY <1>1, <1>2, ConstFacts
<1>5. reg' = [f \in Fds |-> IF \E e \in batch' : e[1] = f THEN "off" ELSE reg[f]]
  BY DEF EpollWait
<1>6. reg' \in [Fds -> {"closed", "off", "in", "out"}]
  BY <1>5 DEF LoopInv, TypeOK, LoopTypeOK
<1>7. SameOpen
  BY <1>4, <1>5 DEF SameOpen, Open
<1>8. cur = NULL /\ cur' = NULL /\ mpc' = "batch"
  BY DEF EpollWait, LoopInv, TypeOK, LoopTypeOK
<1>9. BatchOK'
  <2>1. \A e, d \in batch' : e[1] = d[1] => e = d
    BY DEF EpollWait
  <2>2. \A e \in batch' : e[1] \in Fds => reg'[e[1]] # "closed"
    BY <1>5
  <2>. QED
    BY <1>8, <2>1, <2>2, ConstFacts DEF BatchOK, Open
<1>10. Watched' /\ Watching' /\ CountsOpen' /\ m_iHttpCnt' \in Nat
  BY <1>7, QuietStep DEF EpollWait, timers
<1>11. PoolTypeOK' /\ TimersTypeOK' /\ SignalsTypeOK' /\ HttpsTypeOK'
  BY SamePool, SameTimers, SameSignals, SameHttps DEF EpollWait, LoopInv, TypeOK
<1>. QED
  BY <1>3, <1>6, <1>8, <1>9, <1>10, <1>11, Together

LEMMA AcceptFailsKeeps == LoopInv /\ (AcceptFails \/ AcceptBusy) => LoopInv'
<1>. SUFFICES ASSUME LoopInv, AcceptFails \/ AcceptBusy PROVE LoopInv'
  OBVIOUS
<1>1. /\ UNCHANGED <<reg, mpc, cur, pool, timers, m_iHttpCnt, signals, https>>
      /\ Takes(<<listenFd, "in">>)
  BY DEF AcceptFails, AcceptBusy
<1>2. SameOpen
  BY <1>1 DEF SameOpen
<1>3. BatchOK' /\ batch' \subseteq Nat \X {"in", "out", "hup"}
  BY <1>1, <1>2, TakesStep
<1>4. Watched' /\ Watching' /\ CountsOpen' /\ m_iHttpCnt' \in Nat
  BY <1>1, <1>2, QuietStep DEF timers
<1>5. PoolTypeOK' /\ TimersTypeOK' /\ SignalsTypeOK' /\ HttpsTypeOK'
  BY <1>1, SamePool, SameTimers, SameSignals, SameHttps DEF LoopInv, TypeOK
<1>6. /\ reg' \in [Fds -> {"closed", "off", "in", "out"}]
      /\ mpc' \in {"wait", "batch", "append", "stopped"}
      /\ cur' \in Fds \cup {NULL} /\ (cur' # NULL <=> mpc' = "append")
  BY <1>1 DEF LoopInv, TypeOK, LoopTypeOK
<1>. QED
  BY <1>3, <1>4, <1>5, <1>6, Together

LEMMA AcceptKeeps == LoopInv /\ Accept => LoopInv'
<1>. SUFFICES ASSUME LoopInv, Accept PROVE LoopInv'
  OBVIOUS
<1>. DEFINE n == made + 1
<1>1. PICK f \in FreeFds :
        /\ reg' = [reg EXCEPT ![f] = "in"]
        /\ response' = [response EXCEPT ![f] = "none"]
        /\ AddTimer(f)
  BY DEF Accept
<1>2. f \in Fds /\ reg[f] = "closed" /\ reg'[f] = "in" /\ \A g \in Fds \ {f} : reg'[g] = reg[g]
  BY <1>1 DEF FreeFds, LoopInv, TypeOK, LoopTypeOK
<1>3. n \in Timers /\ n \in Nat /\ n \notin heap
  BY LoopAssumption DEF Accept, LoopInv, TypeOK, TimersTypeOK, Timers
<1>4. /\ made' = n /\ heap' = heap \cup {n}
      /\ timer'[f] = n /\ \A g \in Fds \ {f} : timer'[g] = timer[g]
      /\ owner'[n] = f /\ \A k \in Timers \ {n} : owner'[k] = owner[k]
      /\ callback'[n] = TRUE /\ \A k \in Timers \ {n} : callback'[k] = callback[k]
  BY <1>1, <1>2, <1>3 DEF AddTimer, LoopInv, TypeOK, TimersTypeOK
<1>. HIDE DEF n
<1>5. Watched'
  <2>. SUFFICES ASSUME NEW g \in Fds, reg'[g] # "closed"
                PROVE  /\ timer'[g] \in Timers /\ timer'[g] \in heap' /\ callback'[timer'[g]]
                       /\ owner'[timer'[g]] = g
    BY DEF Watched, Open, Live
  <2>1. CASE g = f
    BY <1>3, <1>4, <2>1
  <2>2. CASE g # f
    <3>1. Open(g)
      BY <1>2, <2>2 DEF Open
    <3>2. timer[g] \in Timers /\ timer[g] \in heap /\ callback[timer[g]] /\ owner[timer[g]] = g
      BY <3>1 DEF LoopInv, Watched, Live
    <3>3. timer[g] # n /\ timer'[g] = timer[g]
      BY <1>3, <1>4, <2>2, <3>2
    <3>4. owner'[timer[g]] = g /\ callback'[timer[g]]
      BY <1>4, <3>2, <3>3
    <3>. QED
      BY <1>4, <3>2, <3>3, <3>4
  <2>. QED
    BY <2>1, <2>2
<1>6. Watching'
  <2>. SUFFICES ASSUME NEW k \in Timers, k \in heap', callback'[k]
                PROVE  owner'[k] \in Fds /\ reg'[owner'[k]] # "closed" /\ timer'[owner'[k]] = k
    BY DEF Watching, Open, Live
  <2>1. CASE k = n
    BY <1>2, <1>4, <2>1
  <2>2. CASE k # n
    <3>1. k \in heap /\ callback[k] /\ owner'[k] = owner[k]
      BY <1>4, <2>2
    <3>2. owner[k] \in Fds /\ reg[owner[k]] # "closed" /\ timer[owner[k]] = k
      BY <3>1 DEF LoopInv, Watching, Live, Open
    <3>. QED
      BY <1>2, <1>4, <3>1, <3>2
  <2>. QED
    BY <2>1, <2>2
<1>7. Cardinality(OpenFds(reg')) = Cardinality(OpenFds(reg)) + 1
  BY <1>2, OpenOne
<1>8. CountsOpen'
  BY <1>7 DEF LoopInv, CountsOpen, OpenFds, Open, Accept
<1>9. m_iHttpCnt' \in Nat
  BY DEF Accept, LoopInv, TypeOK, LoopTypeOK
<1>10. TimersTypeOK'
  <2>1. made' \in 0 .. MaxConns /\ heap' \subseteq 1 .. made'
    BY <1>3, <1>4, LoopAssumption DEF LoopInv, TypeOK, TimersTypeOK, Timers, n
  <2>2. timer' \in [Fds -> Timers \cup {NULL}] /\ owner' \in [Timers -> Fds \cup {NULL}]
    BY <1>1, <1>2, <1>3 DEF AddTimer, LoopInv, TypeOK, TimersTypeOK, n
  <2>3. callback' \in [Timers -> BOOLEAN]
    <3>1. callback' = [callback EXCEPT ![n] = TRUE]
      BY <1>1 DEF AddTimer, n
    <3>2. callback \in [Timers -> BOOLEAN]
      BY DEF LoopInv, TypeOK, TimersTypeOK
    <3>. QED
      BY <3>1, <3>2, SetCallback
  <2>4. left' \in [Timers -> 0 .. Lifetime]
    <3>1. left' = [left EXCEPT ![n] = Lifetime]
      BY <1>1 DEF AddTimer, n
    <3>2. left \in [Timers -> 0 .. Lifetime] /\ Lifetime \in 0 .. Lifetime
      BY ConstFacts DEF LoopInv, TypeOK, TimersTypeOK
    <3>. QED
      BY <3>1, <3>2
  <2>. QED
    BY <2>1, <2>2, <2>3, <2>4 DEF TimersTypeOK
<1>11. PoolTypeOK' /\ SignalsTypeOK'
  BY SamePool, SameSignals DEF Accept, LoopInv, TypeOK
<1>12. HttpsTypeOK'
  BY <1>1 DEF Accept, LoopInv, TypeOK, HttpsTypeOK
<1>13. reg' \in [Fds -> {"closed", "off", "in", "out"}]
  BY <1>1 DEF LoopInv, TypeOK, LoopTypeOK
<1>14. cur' = NULL /\ mpc' = "batch" /\ batch' \subseteq batch
  BY DEF Accept, Takes, LoopInv, TypeOK, LoopTypeOK
<1>15. BatchOK'
  BY <1>2, <1>14, ConstFacts DEF LoopInv, BatchOK, Open
<1>. QED
  BY <1>5, <1>6, <1>8, <1>9, <1>10, <1>11, <1>12, <1>13, <1>14, <1>15, Together
     DEF LoopInv, TypeOK, LoopTypeOK

LEMMA HangUpKeeps == LoopInv /\ (HangUp \/ ReadFails) => LoopInv'
<1>. SUFFICES ASSUME LoopInv, HangUp \/ ReadFails PROVE LoopInv'
  OBVIOUS
<1>1. PICK f \in Fds, kind \in {"in", "hup"} :
        /\ Takes(<<f, kind>>) /\ Close(f) /\ DelTimer(timer[f])
        /\ UNCHANGED <<mpc, cur, pool, signals, https>>
  BY DEF HangUp, ReadFails
<1>2. Open(f) /\ mpc = "batch" /\ cur = NULL
  BY <1>1, EventFacts
<1>3. /\ Watched' /\ Watching' /\ CountsOpen' /\ m_iHttpCnt' \in Nat
      /\ reg' \in [Fds -> {"closed", "off", "in", "out"}]
      /\ \A g \in Fds \ {f} : reg'[g] = reg[g]
      /\ TimersTypeOK'
  BY <1>1, <1>2, CloseStep
<1>4. BatchOK' /\ batch' \subseteq Nat \X {"in", "out", "hup"}
  BY <1>1, <1>3, TakesAndCloses
<1>5. PoolTypeOK' /\ SignalsTypeOK' /\ HttpsTypeOK'
  BY <1>1, SamePool, SameSignals, SameHttps DEF LoopInv, TypeOK
<1>. QED
  BY <1>1, <1>2, <1>3, <1>4, <1>5, Together

LEMMA WriteEndsKeeps == LoopInv /\ WriteEnds => LoopInv'
<1>. SUFFICES ASSUME LoopInv, WriteEnds PROVE LoopInv'
  OBVIOUS
<1>1. PICK f \in Fds, complete \in BOOLEAN :
        /\ Takes(<<f, "out">>) /\ Close(f) /\ DelTimer(timer[f])
        /\ mapped' = [mapped EXCEPT ![f] = FALSE]
        /\ response' = [response EXCEPT ![f] = IF complete THEN "none" ELSE @]
        /\ UNCHANGED <<mpc, cur, pool, signals>>
  BY DEF WriteEnds
<1>2. Open(f) /\ mpc = "batch" /\ cur = NULL
  BY <1>1, EventFacts
<1>3. /\ Watched' /\ Watching' /\ CountsOpen' /\ m_iHttpCnt' \in Nat
      /\ reg' \in [Fds -> {"closed", "off", "in", "out"}]
      /\ \A g \in Fds \ {f} : reg'[g] = reg[g]
      /\ TimersTypeOK'
  BY <1>1, <1>2, CloseStep
<1>4. BatchOK' /\ batch' \subseteq Nat \X {"in", "out", "hup"}
  BY <1>1, <1>3, TakesAndCloses
<1>5. PoolTypeOK' /\ SignalsTypeOK'
  BY <1>1, SamePool, SameSignals DEF LoopInv, TypeOK
<1>6. HttpsTypeOK'
  <2>1. mapped' \in [Fds -> BOOLEAN]
    BY <1>1 DEF LoopInv, TypeOK, HttpsTypeOK
  <2>2. response' \in [Fds -> {"none", "text", "file"}]
    BY <1>1 DEF LoopInv, TypeOK, HttpsTypeOK
  <2>. QED
    BY <2>1, <2>2 DEF HttpsTypeOK
<1>. QED
  BY <1>1, <1>2, <1>3, <1>4, <1>5, <1>6, Together

\* An event that leaves its connection open and its timer refreshed
LEMMA RefreshStep ==
  ASSUME LoopInv, NEW f \in Fds, NEW kind, Takes(<<f, kind>>), SameOpen,
         Refresh(timer[f]), UNCHANGED <<mpc, cur, pool, m_iHttpCnt, signals>>,
         HttpsTypeOK', reg' \in [Fds -> {"closed", "off", "in", "out"}]
  PROVE  LoopInv'
<1>1. timer[f] \in Timers /\ mpc = "batch" /\ cur = NULL
  BY EventFacts
<1>2. BatchOK' /\ batch' \subseteq Nat \X {"in", "out", "hup"}
  BY TakesStep
<1>3. TimersTypeOK'
  BY <1>1, RefreshType DEF LoopInv, TypeOK
<1>4. Watched' /\ Watching' /\ CountsOpen' /\ m_iHttpCnt' \in Nat
  BY QuietStep DEF Refresh
<1>5. PoolTypeOK' /\ SignalsTypeOK'
  BY SamePool, SameSignals DEF LoopInv, TypeOK
<1>. QED
  BY <1>1, <1>2, <1>3, <1>4, <1>5, Together

LEMMA ReadKeeps == LoopInv /\ (ReadOk \/ ReadRejected) => LoopInv'
<1>. SUFFICES ASSUME LoopInv PROVE ReadOk \/ ReadRejected => LoopInv'
  OBVIOUS
<1>1. ASSUME ReadRejected PROVE LoopInv'
  <2>1. PICK f \in Fds :
          /\ Takes(<<f, "in">>) /\ Refresh(timer[f])
          /\ UNCHANGED <<reg, mpc, cur, pool, m_iHttpCnt, signals, https>>
    BY <1>1 DEF ReadRejected
  <2>2. SameOpen /\ reg' \in [Fds -> {"closed", "off", "in", "out"}]
    BY <2>1 DEF SameOpen, LoopInv, TypeOK, LoopTypeOK
  <2>3. HttpsTypeOK'
    BY <2>1, SameHttps DEF LoopInv, TypeOK
  <2>. QED
    BY <2>1, <2>2, <2>3, RefreshStep
<1>2. ASSUME ReadOk PROVE LoopInv'
  <2>1. PICK f \in Fds :
          /\ Takes(<<f, "in">>) /\ mpc' = "append" /\ cur' = f
          /\ UNCHANGED <<reg, pool, timers, m_iHttpCnt, signals, https>>
    BY <1>2 DEF ReadOk
  <2>2. Open(f) /\ cur = NULL /\ batch' \subseteq batch /\ \A e \in batch' : e[1] # f
    BY <2>1, EventFacts
  <2>3. BatchOK'
    BY <2>1, <2>2 DEF LoopInv, BatchOK, Open
  <2>4. SameOpen
    BY <2>1 DEF SameOpen
  <2>5. Watched' /\ Watching' /\ CountsOpen' /\ m_iHttpCnt' \in Nat
    BY <2>1, <2>4, QuietStep DEF timers
  <2>6. PoolTypeOK' /\ TimersTypeOK' /\ SignalsTypeOK' /\ HttpsTypeOK'
    BY <2>1, SamePool, SameTimers, SameSignals, SameHttps DEF LoopInv, TypeOK
  <2>7. /\ reg' \in [Fds -> {"closed", "off", "in", "out"}]
        /\ batch' \subseteq Nat \X {"in", "out", "hup"}
    BY <2>1, <2>2 DEF LoopInv, TypeOK, LoopTypeOK
  <2>8. /\ cur' \in Fds \cup {NULL} /\ (cur' # NULL <=> mpc' = "append")
        /\ mpc' \in {"wait", "batch", "append", "stopped"}
    BY <2>1, ConstFacts
  <2>. QED
    BY <2>3, <2>5, <2>6, <2>7, <2>8, Together
<1>. QED
  BY <1>1, <1>2

LEMMA AppendTaskKeeps == LoopInv /\ AppendTask => LoopInv'
<1>. SUFFICES ASSUME LoopInv, AppendTask PROVE LoopInv'
  OBVIOUS
<1>1. cur \in Fds /\ Open(cur) /\ cur' = NULL /\ mpc' = "batch" /\ batch' = batch
  BY DEF AppendTask, LoopInv, TypeOK, LoopTypeOK, BatchOK
<1>2. UNCHANGED <<reg, m_iHttpCnt, signals, https>> /\ Refresh(timer[cur])
  BY DEF AppendTask
<1>3. timer[cur] \in Timers
  BY <1>1 DEF LoopInv, Watched
<1>4. TimersTypeOK'
  BY <1>2, <1>3, RefreshType DEF LoopInv, TypeOK
<1>5. SameOpen
  BY <1>2 DEF SameOpen
<1>6. Watched' /\ Watching' /\ CountsOpen' /\ m_iHttpCnt' \in Nat
  BY <1>2, <1>5, QuietStep DEF Refresh
<1>7. PoolTypeOK'
  <2>1. m_qTasks \in Seq(Fds)
    BY DEF LoopInv, TypeOK, PoolTypeOK
  <2>2. m_qTasks' = Append(m_qTasks, cur) /\ parsing' = parsing /\ hpc' = hpc
    BY DEF AppendTask, Pool!Put
  <2>3. m_qTasks' \in Seq(Fds)
    BY <1>1, <2>1, <2>2, AppendProperties
  <2>. QED
    BY <2>2, <2>3 DEF PoolTypeOK, LoopInv, TypeOK
<1>8. SignalsTypeOK' /\ HttpsTypeOK'
  BY <1>2, SameSignals, SameHttps DEF LoopInv, TypeOK
<1>9. /\ reg' \in [Fds -> {"closed", "off", "in", "out"}]
      /\ batch' \subseteq Nat \X {"in", "out", "hup"}
  BY <1>1, <1>2 DEF LoopInv, TypeOK, LoopTypeOK
<1>10. BatchOK'
  BY <1>1, <1>2, ConstFacts DEF LoopInv, BatchOK, Open
<1>. QED
  BY <1>1, <1>4, <1>6, <1>7, <1>8, <1>9, <1>10, Together

LEMMA WriteKeeps == LoopInv /\ (WriteNothing \/ WriteBlocked) => LoopInv'
<1>. SUFFICES ASSUME LoopInv PROVE WriteNothing \/ WriteBlocked => LoopInv'
  OBVIOUS
<1>1. ASSUME WriteNothing PROVE LoopInv'
  <2>1. PICK f \in Fds :
          /\ Takes(<<f, "out">>) /\ Arm(f, "in") /\ Refresh(timer[f])
          /\ response' = [response EXCEPT ![f] = "none"]
          /\ UNCHANGED <<mpc, cur, pool, m_iHttpCnt, signals, mapped>>
    BY <1>1 DEF WriteNothing
  <2>2. HttpsTypeOK'
    <3>1. mapped' \in [Fds -> BOOLEAN]
      BY <2>1 DEF LoopInv, TypeOK, HttpsTypeOK
    <3>2. response' \in [Fds -> {"none", "text", "file"}]
      BY <2>1 DEF LoopInv, TypeOK, HttpsTypeOK
    <3>. QED
      BY <3>1, <3>2 DEF HttpsTypeOK
  <2>. QED
    BY <2>1, <2>2, ArmType, RefreshStep
<1>2. ASSUME WriteBlocked PROVE LoopInv'
  <2>1. PICK f \in Fds :
          /\ Takes(<<f, "out">>) /\ Arm(f, "out") /\ Refresh(timer[f])
          /\ UNCHANGED <<mpc, cur, pool, m_iHttpCnt, signals, https>>
    BY <1>2 DEF WriteBlocked
  <2>2. HttpsTypeOK'
    BY <2>1, SameHttps DEF LoopInv, TypeOK
  <2>. QED
    BY <2>1, <2>2, ArmType, RefreshStep
<1>. QED
  BY <1>1, <1>2

LEMMA ReadPipeKeeps == LoopInv /\ (Terminate \/ ReadPipe) => LoopInv'
<1>. SUFFICES ASSUME LoopInv PROVE Terminate \/ ReadPipe => LoopInv'
  OBVIOUS
<1>1. ASSUME Terminate PROVE LoopInv'
  <2>1. /\ UNCHANGED <<reg, batch, mpc, cur, pool, timers, m_iHttpCnt, https>>
        /\ UNCHANGED <<timeout, stop_server, alarm>> /\ pipe' = pipe \cup {"TERM"}
    BY <1>1 DEF Terminate
  <2>2. SignalsTypeOK'
    BY <2>1 DEF LoopInv, TypeOK, SignalsTypeOK
  <2>3. SameOpen
    BY <2>1 DEF SameOpen
  <2>4. Watched' /\ Watching' /\ CountsOpen' /\ m_iHttpCnt' \in Nat
    BY <2>1, <2>3, QuietStep DEF timers
  <2>5. PoolTypeOK' /\ TimersTypeOK' /\ HttpsTypeOK'
    BY <2>1, SamePool, SameTimers, SameHttps DEF LoopInv, TypeOK
  <2>6. BatchOK'
    BY <2>1 DEF LoopInv, BatchOK, Open
  <2>. QED
    BY <2>1, <2>2, <2>4, <2>5, <2>6, Together DEF LoopInv, TypeOK, LoopTypeOK
<1>2. ASSUME ReadPipe PROVE LoopInv'
  <2>1. /\ UNCHANGED <<reg, mpc, cur, pool, timers, m_iHttpCnt, https>>
        /\ Takes(<<pipeFd, "in">>) /\ pipe' = {} /\ alarm' = alarm
        /\ timeout' = (timeout \/ "ALRM" \in pipe)
        /\ stop_server' = (stop_server \/ "TERM" \in pipe)
    BY <1>2 DEF ReadPipe
  <2>2. SignalsTypeOK'
    <3>1. timeout' \in BOOLEAN
      BY <2>1
    <3>2. stop_server' \in BOOLEAN
      BY <2>1
    <3>3. alarm' \in 1 .. TIMESLOT \cup {NULL} /\ pipe' \subseteq {"ALRM", "TERM"}
      BY <2>1 DEF LoopInv, TypeOK, SignalsTypeOK
    <3>. QED
      BY <3>1, <3>2, <3>3 DEF SignalsTypeOK
  <2>3. SameOpen
    BY <2>1 DEF SameOpen
  <2>4. Watched' /\ Watching' /\ CountsOpen' /\ m_iHttpCnt' \in Nat
    BY <2>1, <2>3, QuietStep DEF timers
  <2>5. PoolTypeOK' /\ TimersTypeOK' /\ HttpsTypeOK'
    BY <2>1, SamePool, SameTimers, SameHttps DEF LoopInv, TypeOK
  <2>6. BatchOK' /\ batch' \subseteq Nat \X {"in", "out", "hup"}
    BY <2>1, <2>3, TakesStep
  <2>. QED
    BY <2>1, <2>2, <2>4, <2>5, <2>6, Together DEF LoopInv, TypeOK, LoopTypeOK
<1>. QED
  BY <1>1, <1>2

LEMMA EndBatchKeeps == LoopInv /\ EndBatch => LoopInv'
<1>. SUFFICES ASSUME LoopInv, EndBatch PROVE LoopInv'
  OBVIOUS
<1>1. /\ batch = {} /\ batch' = {} /\ cur = NULL /\ cur' = NULL
      /\ mpc' \in {"wait", "batch", "append", "stopped"} /\ mpc' # "append"
      /\ UNCHANGED <<pool, https>>
  BY DEF EndBatch, LoopInv, TypeOK, LoopTypeOK
<1>2. BatchOK'
  BY <1>1 DEF BatchOK
<1>3. /\ Watched' /\ Watching' /\ CountsOpen' /\ m_iHttpCnt' \in Nat
      /\ reg' \in [Fds -> {"closed", "off", "in", "out"}] /\ TimersTypeOK'
  <2>1. CASE timeout
    BY <2>1, TickStep DEF EndBatch
  <2>2. CASE ~timeout
    <3>1. UNCHANGED <<reg, timers, m_iHttpCnt>>
      BY <2>2 DEF EndBatch
    <3>2. SameOpen
      BY <3>1 DEF SameOpen
    <3>3. Watched' /\ Watching' /\ CountsOpen' /\ m_iHttpCnt' \in Nat
      BY <3>1, <3>2, QuietStep DEF timers
    <3>. QED
      BY <3>1, <3>3, SameTimers DEF LoopInv, TypeOK, LoopTypeOK
  <2>. QED
    BY <2>1, <2>2
<1>4. SignalsTypeOK'
  <2>1. timeout' \in BOOLEAN
    BY DEF EndBatch
  <2>2. stop_server' \in BOOLEAN
    BY DEF EndBatch, LoopInv, TypeOK, SignalsTypeOK
  <2>3. alarm' \in 1 .. TIMESLOT \cup {NULL}
    BY LoopAssumption DEF EndBatch, LoopInv, TypeOK, SignalsTypeOK
  <2>4. pipe' \subseteq {"ALRM", "TERM"}
    BY DEF EndBatch, LoopInv, TypeOK, SignalsTypeOK
  <2>. QED
    BY <2>1, <2>2, <2>3, <2>4 DEF SignalsTypeOK
<1>5. PoolTypeOK' /\ HttpsTypeOK'
  BY <1>1, SamePool, SameHttps DEF LoopInv, TypeOK
<1>. QED
  BY <1>1, <1>2, <1>3, <1>4, <1>5, Together

\* A step of the pool, or none, that may arm a connection
LEMMA PoolStep ==
  ASSUME LoopInv, SameOpen, UNCHANGED <<batch, mpc, cur, timers, m_iHttpCnt>>,
         reg' \in [Fds -> {"closed", "off", "in", "out"}],
         PoolTypeOK', SignalsTypeOK', HttpsTypeOK'
  PROVE  LoopInv'
<1>1. Watched' /\ Watching' /\ CountsOpen' /\ m_iHttpCnt' \in Nat
  BY QuietStep DEF timers
<1>2. BatchOK'
  <2>1. \A f \in Fds : reg[f] # "closed" => reg'[f] # "closed"
    BY DEF SameOpen
  <2>2. batch' = batch /\ mpc' = mpc /\ cur' = cur /\ cur \in Fds \cup {NULL}
    BY DEF LoopInv, TypeOK, LoopTypeOK
  <2>3. /\ mpc \in {"wait", "stopped"} => batch = {}
        /\ \A e, d \in batch : e[1] = d[1] => e = d
        /\ \A e \in batch : e[1] \in Fds => reg[e[1]] # "closed" /\ e[1] # cur
        /\ cur # NULL => reg[cur] # "closed"
    BY DEF LoopInv, BatchOK, Open
  <2>. QED
    BY <2>1, <2>2, <2>3 DEF BatchOK, Open
<1>3. TimersTypeOK'
  BY SameTimers DEF LoopInv, TypeOK
<1>. QED
  BY <1>1, <1>2, <1>3, Together DEF LoopInv, TypeOK, LoopTypeOK

LEMMA StartParseKeeps == LoopInv /\ StartParse => LoopInv'
<1>. SUFFICES ASSUME LoopInv, StartParse PROVE LoopInv'
  OBVIOUS
<1>1. UNCHANGED <<reg, batch, mpc, cur, timers, m_iHttpCnt, signals, https>>
  BY DEF StartParse
<1>2. SameOpen /\ reg' \in [Fds -> {"closed", "off", "in", "out"}]
  BY <1>1 DEF SameOpen, LoopInv, TypeOK, LoopTypeOK
<1>3. PoolTypeOK'
  <2>1. m_qTasks \in Seq(Fds) /\ m_qTasks # <<>>
    BY DEF LoopInv, TypeOK, PoolTypeOK, StartParse, Pool!Take
  <2>2. Head(m_qTasks) \in Fds /\ Tail(m_qTasks) \in Seq(Fds)
    BY <2>1, HeadTailProperties
  <2>. QED
    BY <2>2, ConstFacts DEF PoolTypeOK, StartParse, Pool!Take
<1>4. SignalsTypeOK' /\ HttpsTypeOK'
  BY <1>1, SameSignals, SameHttps DEF LoopInv, TypeOK
<1>. QED
  BY <1>1, <1>2, <1>3, <1>4, PoolStep

\* HttpParse at any of its points
LEMMA ParseFacts ==
  ASSUME LoopInv, NEW from \in {"parse", "size", "arm", "return"}, NEW to, Goes(from, to)
  PROVE  /\ parsing \in Fds /\ parsing' = parsing /\ hpc = from /\ hpc' = to
         /\ UNCHANGED <<batch, mpc, cur, m_qTasks, timers, m_iHttpCnt, signals>>
BY DEF Goes, LoopInv, TypeOK, PoolTypeOK

LEMMA BuildKeeps == LoopInv /\ (BuildText \/ MapFile \/ StoreLen) => LoopInv'
<1>. SUFFICES ASSUME LoopInv, BuildText \/ MapFile \/ StoreLen PROVE LoopInv'
  OBVIOUS
<1>1. PICK from \in {"parse", "size"}, to \in {"size", "arm"} : Goes(from, to)
  BY DEF BuildText, MapFile, StoreLen
<1>2. /\ parsing \in Fds /\ parsing' = parsing /\ hpc' = to
      /\ UNCHANGED <<batch, mpc, cur, m_qTasks, timers, m_iHttpCnt, signals, reg>>
  BY <1>1, ParseFacts DEF BuildText, MapFile, StoreLen
<1>3. SameOpen /\ reg' \in [Fds -> {"closed", "off", "in", "out"}]
  BY <1>2 DEF SameOpen, LoopInv, TypeOK, LoopTypeOK
<1>4. PoolTypeOK'
  BY <1>2, ConstFacts DEF LoopInv, TypeOK, PoolTypeOK
<1>5. HttpsTypeOK'
  <2>1. response' \in [Fds -> {"none", "text", "file"}]
    BY DEF BuildText, MapFile, StoreLen, LoopInv, TypeOK, HttpsTypeOK
  <2>2. mapped' \in [Fds -> BOOLEAN]
    BY DEF BuildText, MapFile, StoreLen, LoopInv, TypeOK, HttpsTypeOK
  <2>. QED
    BY <2>1, <2>2 DEF HttpsTypeOK
<1>6. SignalsTypeOK'
  BY <1>2, SameSignals DEF LoopInv, TypeOK
<1>. QED
  BY <1>2, <1>3, <1>4, <1>5, <1>6, PoolStep

LEMMA ArmKeeps == LoopInv /\ (ParseOpen \/ ArmOut) => LoopInv'
<1>. SUFFICES ASSUME LoopInv, ParseOpen \/ ArmOut PROVE LoopInv'
  OBVIOUS
<1>1. PICK from \in {"parse", "arm"}, kind \in {"in", "out"} :
        Goes(from, "return") /\ Arm(parsing, kind) /\ UNCHANGED https
  BY DEF ParseOpen, ArmOut
<1>2. /\ parsing \in Fds /\ parsing' = parsing /\ hpc' = "return"
      /\ UNCHANGED <<batch, mpc, cur, m_qTasks, timers, m_iHttpCnt, signals>>
  BY <1>1, ParseFacts
<1>3. SameOpen /\ reg' \in [Fds -> {"closed", "off", "in", "out"}]
  BY <1>1, <1>2, ArmType
<1>4. PoolTypeOK'
  BY <1>2, ConstFacts DEF LoopInv, TypeOK, PoolTypeOK
<1>5. HttpsTypeOK' /\ SignalsTypeOK'
  BY <1>1, <1>2, SameHttps, SameSignals DEF LoopInv, TypeOK
<1>. QED
  BY <1>2, <1>3, <1>4, <1>5, PoolStep

LEMMA ReturnKeeps == LoopInv /\ Return => LoopInv'
<1>. SUFFICES ASSUME LoopInv, Return PROVE LoopInv'
  OBVIOUS
<1>1. /\ UNCHANGED <<reg, batch, mpc, cur, m_qTasks, timers, m_iHttpCnt, signals, https>>
      /\ parsing' = NULL /\ hpc' = "idle"
  BY DEF Return, Pool!Done
<1>2. SameOpen /\ reg' \in [Fds -> {"closed", "off", "in", "out"}]
  BY <1>1 DEF SameOpen, LoopInv, TypeOK, LoopTypeOK
<1>3. PoolTypeOK'
  BY <1>1 DEF LoopInv, TypeOK, PoolTypeOK
<1>4. SignalsTypeOK' /\ HttpsTypeOK'
  BY <1>1, SameSignals, SameHttps DEF LoopInv, TypeOK
<1>. QED
  BY <1>1, <1>2, <1>3, <1>4, PoolStep

LEMMA ClockTickKeeps == LoopInv /\ ClockTick => LoopInv'
<1>. SUFFICES ASSUME LoopInv, ClockTick PROVE LoopInv'
  OBVIOUS
<1>1. /\ UNCHANGED <<reg, batch, mpc, cur, pool, made, heap, timer, owner, callback,
                     m_iHttpCnt, timeout, stop_server, https>>
      /\ left' = [n \in Timers |-> IF left[n] = 0 THEN 0 ELSE left[n] - 1]
      /\ alarm' = IF alarm \in {NULL, 1} THEN NULL ELSE alarm - 1
      /\ pipe' = pipe \cup (IF alarm = 1 THEN {"ALRM"} ELSE {})
  BY DEF ClockTick
<1>2. SameOpen
  BY <1>1 DEF SameOpen
<1>3. Watched' /\ Watching' /\ CountsOpen' /\ m_iHttpCnt' \in Nat
  BY <1>1, <1>2, QuietStep
<1>4. TimersTypeOK'
  <2>1. \A n \in Timers : left'[n] \in 0 .. Lifetime
    BY <1>1, ConstFacts DEF LoopInv, TypeOK, TimersTypeOK
  <2>. QED
    BY <1>1, <2>1 DEF LoopInv, TypeOK, TimersTypeOK
<1>5. SignalsTypeOK'
  <2>1. timeout' \in BOOLEAN /\ stop_server' \in BOOLEAN
    BY <1>1 DEF LoopInv, TypeOK, SignalsTypeOK
  <2>2. alarm' \in 1 .. TIMESLOT \cup {NULL}
    BY <1>1, LoopAssumption DEF LoopInv, TypeOK, SignalsTypeOK
  <2>3. pipe' \subseteq {"ALRM", "TERM"}
    BY <1>1 DEF LoopInv, TypeOK, SignalsTypeOK
  <2>. QED
    BY <2>1, <2>2, <2>3 DEF SignalsTypeOK
<1>6. PoolTypeOK' /\ HttpsTypeOK'
  BY <1>1, SamePool, SameHttps DEF LoopInv, TypeOK
<1>7. BatchOK'
  BY <1>1 DEF LoopInv, BatchOK, Open
<1>. QED
  BY <1>1, <1>3, <1>4, <1>5, <1>6, <1>7, Together DEF LoopInv, TypeOK, LoopTypeOK

LEMMA StutterKeeps == LoopInv /\ UNCHANGED vars => LoopInv'
<1>. SUFFICES ASSUME LoopInv, UNCHANGED vars PROVE LoopInv'
  OBVIOUS
<1>1. UNCHANGED <<reg, batch, mpc, cur, pool, timers, m_iHttpCnt, signals, https>>
  BY DEF vars
<1>2. SameOpen /\ reg' \in [Fds -> {"closed", "off", "in", "out"}]
  BY <1>1 DEF SameOpen, LoopInv, TypeOK, LoopTypeOK
<1>3. PoolTypeOK' /\ SignalsTypeOK' /\ HttpsTypeOK'
  BY <1>1, SamePool, SameSignals, SameHttps DEF LoopInv, TypeOK
<1>. QED
  BY <1>1, <1>2, <1>3, PoolStep

LEMMA LoopStep == LoopInv /\ [Next]_vars => LoopInv'
BY EpollWaitKeeps, AcceptFailsKeeps, AcceptKeeps, HangUpKeeps, WriteEndsKeeps, ReadKeeps,
   AppendTaskKeeps, WriteKeeps, ReadPipeKeeps, EndBatchKeeps, StartParseKeeps, BuildKeeps,
   ArmKeeps, ReturnKeeps, ClockTickKeeps, StutterKeeps
   DEF Next, NextButTime

LEMMA LoopInvariant == Spec => []LoopInv
BY LoopInit, LoopStep, PTL DEF Spec

-----------------------------------------------------------------------------
(* The theorems *)

\* Every variable keeps its type: in particular the count of main.cpp:66 never
\* falls below zero, for any number of connections and any speed of the pool.
THEOREM LoopTypeCorrect == Spec => []TypeOK
<1>1. LoopInv => TypeOK
  BY DEF LoopInv
<1>. QED
  BY <1>1, LoopInvariant, PTL

\* m_iHttpCnt is the number of open connections in every state: what accept adds
\* (main.cpp:176) CallBackFunc takes away once, from wherever it is called.
THEOREM CountCorrect == Spec => []CountsOpen
<1>1. LoopInv => CountsOpen
  BY DEF LoopInv
<1>. QED
  BY <1>1, LoopInvariant, PTL

\* An open connection has one timer that can close it, a closed descriptor none:
\* DelTimer's cleared callback (timer.cpp:71) is enough to keep a timer that stays
\* in the heap away from the next connection with the same descriptor.
THEOREM OneTimerPerConnection == Spec => []OneLiveTimer
<1>1. LoopInv => OneLiveTimer
  <2>. SUFFICES ASSUME LoopInv, NEW f \in Fds
                PROVE  {n \in Timers : Live(n) /\ owner[n] = f}
                         = IF Open(f) THEN {timer[f]} ELSE {}
    BY DEF OneLiveTimer
  <2>1. \A n \in Timers : Live(n) /\ owner[n] = f => Open(f) /\ timer[f] = n
    BY DEF LoopInv, Watching
  <2>2. Open(f) => timer[f] \in Timers /\ Live(timer[f]) /\ owner[timer[f]] = f
    BY DEF LoopInv, Watched
  <2>. QED
    BY <2>1, <2>2
<1>. QED
  BY <1>1, LoopInvariant, PTL

\* The callback main.cpp:217 calls for an event is never null, and the descriptor
\* of an event still in the array has not been closed and given away.
THEOREM EventsStayLive == Spec => []EventsAreLive
<1>1. LoopInv => EventsAreLive
  <2>. SUFFICES ASSUME LoopInv, NEW f \in Fds, (\E e \in batch : e[1] = f) \/ cur = f
                PROVE  Open(f) /\ Live(timer[f])
    BY DEF EventsAreLive
  <2>1. Open(f)
    BY ConstFacts DEF LoopInv, BatchOK
  <2>. QED
    BY <2>1 DEF LoopInv, Watched
<1>. QED
  BY <1>1, LoopInvariant, PTL

-----------------------------------------------------------------------------
(* Who may use a CHttp.  OwnedOnce needs a pool that is done with a request *)
(* before the timer of its connection runs out.  SpecPrompt asks this only  *)
(* of the second in which a timer would expire; Unexpired says what it      *)
(* comes to: no timer of a connection in the pool is ever found expired, so *)
(* that Tick, which closes without looking at the pool, closes none of      *)
(* these.                                                                   *)

InEpoll(f) == reg[f] \in {"in", "out"}

Unexpired == \A f \in Fds : Open(f) /\ Outstanding(f) => left[timer[f]] # 0

OwnerInv == LoopInv /\ OwnedOnce /\ Unexpired

-----------------------------------------------------------------------------
(* Steps of the loop: the pool has what it had *)

LEMMA SameOutstanding ==
  ASSUME UNCHANGED pool, NEW f
  PROVE  (Outstanding(f)' <=> Outstanding(f)) /\ (Parsing(f)' <=> Parsing(f))
  BY DEF Outstanding, Parsing, pool

LEMMA LoopOwners ==
  ASSUME OwnedOnce, UNCHANGED pool,
         \A f \in Fds : Outstanding(f) =>
                          Open(f)' /\ ~InEpoll(f)' /\ ~InBatch(f)' /\ cur' # f,
         \A f \in Fds : InBatch(f)' => Open(f)' /\ ~InEpoll(f)' /\ cur' # f,
         \A f \in Fds : cur' = f => Open(f)' /\ ~InEpoll(f)'
  PROVE  OwnedOnce'
<1>1. \A f \in Fds : Outstanding(f)' <=> Outstanding(f)
  BY SameOutstanding
<1>2. \A f \in Fds : InEpoll(f)' => Open(f)'
  BY DEF InEpoll, Open
<1>3. \A f \in Fds :
        /\ (Parsing(f) => \A i \in DOMAIN m_qTasks : m_qTasks[i] # f)'
        /\ (\A i, j \in DOMAIN m_qTasks : m_qTasks[i] = f /\ m_qTasks[j] = f => i = j)'
  BY SameOutstanding DEF OwnedOnce, pool
<1>. QED
  BY <1>1, <1>2, <1>3 DEF OwnedOnce, Owned, InEpoll

LEMMA OwnerFacts ==
  ASSUME OwnedOnce, NEW f \in Fds
  PROVE  /\ InEpoll(f) => Open(f) /\ ~InBatch(f) /\ cur # f /\ ~Outstanding(f)
         /\ InBatch(f) => Open(f) /\ ~InEpoll(f) /\ cur # f /\ ~Outstanding(f)
         /\ cur = f => Open(f) /\ ~InEpoll(f) /\ ~InBatch(f) /\ ~Outstanding(f)
         /\ Outstanding(f) => Open(f)
  BY DEF OwnedOnce, Owned, InEpoll

\* A step in which the loop takes an event of f, and closes f or arms it, or f is
\* handed to Append
LEMMA TakesOwners ==
  ASSUME LoopInv, OwnedOnce, NEW f \in Fds, NEW kind, Takes(<<f, kind>>), UNCHANGED pool,
         reg' \in [Fds -> {"closed", "off", "in", "out"}],
         \A g \in Fds \ {f} : reg'[g] = reg[g],
         cur' = NULL \/ (cur' = f /\ reg' = reg)
  PROVE  OwnedOnce'
<1>1. /\ cur = NULL /\ batch' \subseteq batch /\ \A e \in batch' : e[1] # f
      /\ Open(f) /\ ~InEpoll(f) /\ ~Outstanding(f)
  BY EventFacts, OwnerFacts DEF Takes, InBatch
<1>2. ~InBatch(f)' /\ \A g \in Fds : InBatch(g)' => InBatch(g)
  BY <1>1 DEF InBatch
<1>3. \A g \in Fds \ {f} : (Open(g)' <=> Open(g)) /\ (InEpoll(g)' <=> InEpoll(g)) /\ cur' # g
  BY ConstFacts DEF Open, InEpoll
<1>4. \A g \in Fds : Outstanding(g) =>
        Open(g)' /\ ~InEpoll(g)' /\ ~InBatch(g)' /\ cur' # g
  BY <1>1, <1>2, <1>3, OwnerFacts
<1>5. \A g \in Fds : InBatch(g)' => Open(g)' /\ ~InEpoll(g)' /\ cur' # g
  BY <1>2, <1>3, OwnerFacts
<1>6. \A g \in Fds : cur' = g => Open(g)' /\ ~InEpoll(g)'
  BY <1>1, <1>3, ConstFacts DEF Open, InEpoll
<1>. QED
  BY <1>4, <1>5, <1>6, LoopOwners

LEMMA SameUnexpired ==
  ASSUME Unexpired, UNCHANGED pool,
         \A f \in Fds : Outstanding(f) /\ Open(f)' =>
           /\ Open(f) /\ timer'[f] = timer[f]
           /\ left'[timer[f]] = left[timer[f]] \/ left'[timer[f]] # 0
  PROVE  Unexpired'
<1>1. \A f \in Fds : Outstanding(f)' <=> Outstanding(f)
  BY SameOutstanding
<1>. QED
  BY <1>1 DEF Unexpired

LEMMA RefreshUnexpired ==
  ASSUME LoopInv, Unexpired, UNCHANGED pool, NEW f \in Fds, Open(f), Refresh(timer[f]),
         \A g \in Fds : Open(g)' => Open(g)
  PROVE  Unexpired'
<1>1. Lifetime # 0
  BY LoopAssumption DEF Lifetime
<1>2. left \in [Timers -> 0 .. Lifetime] /\ timer' = timer
  BY DEF LoopInv, TypeOK, TimersTypeOK, Refresh
<1>3. \A g \in Fds : Open(g) => timer[g] \in Timers
  BY DEF LoopInv, Watched
<1>4. left' = [left EXCEPT ![timer[f]] = Lifetime]
  BY DEF Refresh
<1>. QED
  BY <1>1, <1>2, <1>3, <1>4, SameUnexpired
-----------------------------------------------------------------------------
(* The actions *)

LEMMA EpollWaitOwners ==
  ASSUME OwnerInv, EpollWait
  PROVE  OwnedOnce' /\ Unexpired'
<1>1. /\ cur = NULL /\ cur' = NULL /\ UNCHANGED <<pool, timers>> /\ batch = {}
      /\ reg' = [f \in Fds |-> IF \E e \in batch' : e[1] = f THEN "off" ELSE reg[f]]
  BY DEF EpollWait, OwnerInv, LoopInv, TypeOK, LoopTypeOK, BatchOK
<1>2. \A e \in batch' : \/ \E f \in Fds : e \in Ready(f)
                        \/ e = <<listenFd, "in">> \/ e = <<pipeFd, "in">>
  BY DEF EpollWait
<1>3. \A f \in Fds : \A e \in Ready(f) : e[1] = f /\ InEpoll(f)
  BY DEF Ready, InEpoll
<1>4. \A f \in Fds : InBatch(f)' => InEpoll(f)
  BY <1>2, <1>3, ConstFacts DEF InBatch
<1>5. \A f \in Fds : IF InBatch(f)' THEN Open(f)' /\ ~InEpoll(f)'
                     ELSE (Open(f)' <=> Open(f)) /\ (InEpoll(f)' <=> InEpoll(f))
  BY <1>1 DEF InBatch, Open, InEpoll
<1>6. \A f \in Fds : cur' # f
  BY <1>1, ConstFacts
<1>7. OwnedOnce'
  BY <1>1, <1>4, <1>5, <1>6, OwnerFacts, LoopOwners DEF OwnerInv
<1>8. Unexpired'
  BY <1>1, <1>4, <1>5, OwnerFacts, SameUnexpired DEF OwnerInv, timers
<1>. QED
  BY <1>7, <1>8

\* Steps of HttpParse that leave epoll alone and f where it is
LEMMA SamePoolOwners ==
  ASSUME OwnerInv, UNCHANGED <<reg, batch, cur, timers, m_qTasks>>,
         \A f \in Fds : Parsing(f)' <=> Parsing(f)
  PROVE  OwnedOnce' /\ Unexpired'
<1>1. \A f \in Fds : Outstanding(f)' <=> Outstanding(f)
  BY DEF Outstanding
<1>2. \A f \in Fds : /\ (Open(f)' <=> Open(f)) /\ (InEpoll(f)' <=> InEpoll(f))
                     /\ (InBatch(f)' <=> InBatch(f)) /\ cur' = cur
  BY DEF Open, InEpoll, InBatch
<1>3. OwnedOnce'
  BY <1>1, <1>2 DEF OwnerInv, OwnedOnce, Owned, InEpoll
<1>4. Unexpired'
  BY <1>1, <1>2 DEF OwnerInv, Unexpired, timers
<1>. QED
  BY <1>3, <1>4

LEMMA AcceptOwners ==
  ASSUME OwnerInv, Accept
  PROVE  OwnedOnce' /\ Unexpired'
<1>1. PICK f \in FreeFds : reg' = [reg EXCEPT ![f] = "in"] /\ AddTimer(f)
  BY DEF Accept
<1>2. f \in Fds /\ ~Open(f) /\ ~InBatch(f) /\ ~Outstanding(f)
  BY OwnerFacts DEF FreeFds, Open, OwnerInv
<1>3. /\ reg'[f] = "in" /\ \A g \in Fds \ {f} : reg'[g] = reg[g]
      /\ cur = NULL /\ cur' = NULL /\ UNCHANGED pool /\ batch' \subseteq batch
  BY <1>1, <1>2 DEF Accept, Takes, OwnerInv, LoopInv, TypeOK, LoopTypeOK
<1>4. \A g \in Fds : InBatch(g)' => InBatch(g)
  BY <1>3 DEF InBatch
<1>5. \A g \in Fds \ {f} : (Open(g)' <=> Open(g)) /\ (InEpoll(g)' <=> InEpoll(g))
  BY <1>3 DEF Open, InEpoll
<1>6. \A g \in Fds : cur' # g
  BY <1>3, ConstFacts
<1>7. OwnedOnce'
  BY <1>2, <1>3, <1>4, <1>5, <1>6, OwnerFacts, LoopOwners DEF OwnerInv
<1>8. \A g \in Fds : Open(g) => timer[g] \in Timers /\ timer[g] # made + 1
  BY DEF OwnerInv, LoopInv, Watched, Live, TypeOK, TimersTypeOK
<1>9. /\ left' = [left EXCEPT ![made + 1] = Lifetime] /\ left \in [Timers -> 0 .. Lifetime]
      /\ timer' = [timer EXCEPT ![f] = made + 1] /\ timer \in [Fds -> Timers \cup {NULL}]
  BY <1>1 DEF AddTimer, OwnerInv, LoopInv, TypeOK, TimersTypeOK
<1>10. Unexpired'
  BY <1>2, <1>3, <1>5, <1>8, <1>9, OwnerFacts, SameUnexpired DEF OwnerInv
<1>. QED
  BY <1>7, <1>10

\* Steps that touch neither connections nor timers
LEMMA IdleOwners ==
  ASSUME OwnerInv, UNCHANGED <<reg, cur, pool, timers>>, batch' \subseteq batch
  PROVE  OwnedOnce' /\ Unexpired'
<1>1. \A f \in Fds : /\ (Open(f)' <=> Open(f)) /\ (InEpoll(f)' <=> InEpoll(f))
                     /\ InBatch(f)' => InBatch(f)
  BY DEF Open, InEpoll, InBatch
<1>2. OwnedOnce'
  BY <1>1, OwnerFacts, LoopOwners DEF OwnerInv
<1>3. Unexpired'
  BY <1>1, SameUnexpired DEF OwnerInv, timers
<1>. QED
  BY <1>2, <1>3

\* HangUp, ReadFails, WriteEnds
LEMMA CloseOwner ==
  ASSUME OwnerInv, HangUp \/ ReadFails \/ WriteEnds
  PROVE  OwnedOnce' /\ Unexpired'
<1>1. PICK f \in Fds : /\ \E kind : Takes(<<f, kind>>)
                       /\ Close(f) /\ DelTimer(timer[f]) /\ UNCHANGED <<cur, pool>>
  BY DEF HangUp, ReadFails, WriteEnds
<1>2. PICK kind : Takes(<<f, kind>>)
  BY <1>1
<1>3. Open(f) /\ cur = NULL
  BY <1>2, EventFacts DEF OwnerInv
<1>4. /\ reg' \in [Fds -> {"closed", "off", "in", "out"}]
      /\ reg'[f] = "closed" /\ \A g \in Fds \ {f} : reg'[g] = reg[g]
      /\ timer' = timer /\ left' = left
  BY <1>1 DEF Close, DelTimer, OwnerInv, LoopInv, TypeOK, LoopTypeOK
<1>5. OwnedOnce'
  BY <1>1, <1>2, <1>3, <1>4, TakesOwners DEF OwnerInv
<1>6. Unexpired'
  BY <1>1, <1>4, SameUnexpired DEF OwnerInv, Open
<1>. QED
  BY <1>5, <1>6

LEMMA EventOwners ==
  ASSUME OwnerInv, ReadRejected \/ WriteNothing \/ WriteBlocked
  PROVE  OwnedOnce' /\ Unexpired'
<1>1. PICK f \in Fds :
        /\ \E kind : Takes(<<f, kind>>)
        /\ reg' = reg \/ Arm(f, "in") \/ Arm(f, "out")
        /\ Refresh(timer[f]) /\ UNCHANGED <<cur, pool>>
  BY DEF ReadRejected, WriteNothing, WriteBlocked
<1>2. PICK kind : Takes(<<f, kind>>)
  BY <1>1
<1>3. Open(f) /\ cur = NULL
  BY <1>2, EventFacts DEF OwnerInv
<1>4. /\ reg' \in [Fds -> {"closed", "off", "in", "out"}]
      /\ \A g \in Fds \ {f} : reg'[g] = reg[g]
      /\ \A g \in Fds : Open(g)' => Open(g)
  BY <1>1 DEF Arm, Open, OwnerInv, LoopInv, TypeOK, LoopTypeOK
<1>5. OwnedOnce'
  BY <1>1, <1>2, <1>3, <1>4, TakesOwners DEF OwnerInv
<1>6. Unexpired'
  BY <1>1, <1>3, <1>4, RefreshUnexpired DEF OwnerInv
<1>. QED
  BY <1>5, <1>6

LEMMA ReadOkOwners ==
  ASSUME OwnerInv, ReadOk
  PROVE  OwnedOnce' /\ Unexpired'
<1>1. PICK f \in Fds : Takes(<<f, "in">>) /\ cur' = f /\ UNCHANGED <<reg, pool, timers>>
  BY DEF ReadOk
<1>2. OwnedOnce'
  BY <1>1, TakesOwners DEF OwnerInv, LoopInv, TypeOK, LoopTypeOK
<1>3. Unexpired'
  BY <1>1, SameUnexpired DEF OwnerInv, Open, timers
<1>. QED
  BY <1>2, <1>3

\* cur goes to the end of the queue, and its timer is moved.
LEMMA AppendTaskOwners ==
  ASSUME OwnerInv, AppendTask
  PROVE  OwnedOnce' /\ Unexpired'
<1>. DEFINE c == cur
            k == Len(m_qTasks)
<1>1. /\ c \in Fds /\ cur' = NULL /\ UNCHANGED <<reg, batch>> /\ Refresh(timer[c])
      /\ parsing = NULL /\ parsing' = NULL /\ m_qTasks' = Append(m_qTasks, c)
  BY DEF AppendTask, Pool!Put, OwnerInv, LoopInv, TypeOK, LoopTypeOK
<1>2. Open(c) /\ ~InEpoll(c) /\ ~InBatch(c) /\ ~Outstanding(c)
  BY <1>1, OwnerFacts DEF OwnerInv
<1>3. m_qTasks \in Seq(Fds) /\ k \in Nat /\ DOMAIN m_qTasks = 1 .. k
  BY LenProperties DEF OwnerInv, LoopInv, TypeOK, PoolTypeOK
<1>4. /\ DOMAIN m_qTasks' = 1 .. k + 1 /\ m_qTasks'[k + 1] = c
      /\ \A i \in 1 .. k : m_qTasks'[i] = m_qTasks[i]
  BY <1>1, <1>3, AppendProperties, LenProperties
<1>5. \A i \in 1 .. k : m_qTasks[i] # c
  BY <1>2, <1>3 DEF Outstanding
<1>6. \A i \in DOMAIN m_qTasks' : i \in 1 .. k \/ i = k + 1
  BY <1>3, <1>4
<1>7. \A f \in Fds : Outstanding(f)' <=> (Outstanding(f) \/ f = c)
  <2>1. \A f \in Fds : ~Parsing(f) /\ ~Parsing(f)'
    BY <1>1, ConstFacts DEF Parsing
  <2>2. k + 1 \in DOMAIN m_qTasks' /\ \A i \in 1 .. k : i \in DOMAIN m_qTasks'
    BY <1>3, <1>4
  <2>. QED
    BY <1>3, <1>4, <1>6, <2>1, <2>2 DEF Outstanding
<1>8. \A f \in Fds, i, j \in DOMAIN m_qTasks' :
        m_qTasks'[i] = f /\ m_qTasks'[j] = f => i = j
  <2>1. \A f \in Fds, i, j \in 1 .. k : m_qTasks[i] = f /\ m_qTasks[j] = f => i = j
    BY <1>3 DEF OwnerInv, OwnedOnce
  <2>. QED
    BY <1>4, <1>5, <1>6, <2>1
<1>9. \A f \in Fds : /\ (Open(f)' <=> Open(f)) /\ (InEpoll(f)' <=> InEpoll(f))
                     /\ (InBatch(f)' <=> InBatch(f)) /\ cur' # f /\ ~Parsing(f)'
  BY <1>1, ConstFacts DEF Open, InEpoll, InBatch, Parsing
<1>10. OwnedOnce'
  <2>1. \A f \in Fds : Outstanding(f)' => Open(f)' /\ ~InEpoll(f)' /\ ~InBatch(f)'
    BY <1>2, <1>7, <1>9, OwnerFacts DEF OwnerInv
  <2>2. \A f \in Fds : InBatch(f)' => Open(f)' /\ ~InEpoll(f)'
    BY <1>9, OwnerFacts DEF OwnerInv
  <2>3. \A f \in Fds : InEpoll(f)' => Open(f)'
    BY DEF InEpoll, Open
  <2>. QED
    BY <1>8, <1>9, <2>1, <2>2, <2>3 DEF OwnedOnce, Owned, InEpoll
<1>11. Unexpired'
  <2>1. Lifetime # 0
    BY LoopAssumption DEF Lifetime
  <2>2. /\ left \in [Timers -> 0 .. Lifetime] /\ timer' = timer
        /\ left' = [left EXCEPT ![timer[c]] = Lifetime]
    BY <1>1 DEF OwnerInv, LoopInv, TypeOK, TimersTypeOK, Refresh
  <2>3. \A f \in Fds : Open(f) => timer[f] \in Timers
    BY DEF OwnerInv, LoopInv, Watched
  <2>. QED
    BY <1>1, <1>2, <1>7, <1>9, <2>1, <2>2, <2>3 DEF OwnerInv, Unexpired
<1>. QED
  BY <1>10, <1>11

\* The loop's batch is done.  What Tick closes has an expired timer, and so is not
\* in the pool.
LEMMA EndBatchOwners ==
  ASSUME OwnerInv, EndBatch
  PROVE  OwnedOnce' /\ Unexpired'
<1>1. /\ batch' = {} /\ cur = NULL /\ cur' = NULL /\ UNCHANGED pool
      /\ timer' = timer /\ left' = left
  BY DEF EndBatch, Tick, timers, OwnerInv, LoopInv, TypeOK, LoopTypeOK
<1>2. \A f \in Fds : reg'[f] # reg[f] =>
        /\ reg'[f] = "closed"
        /\ \E n \in heap : left[n] = 0 /\ callback[n] /\ owner[n] = f
  BY DEF EndBatch, Tick, Expired
<1>3. \A n \in heap : n \in Timers
  BY LoopAssumption DEF OwnerInv, LoopInv, TypeOK, TimersTypeOK, Timers
<1>4. \A f \in Fds : reg'[f] # reg[f] => reg'[f] = "closed" /\ left[timer[f]] = 0 /\ Open(f)
  BY <1>2, <1>3 DEF OwnerInv, LoopInv, Watching, Live
<1>5. \A f \in Fds : Outstanding(f) => Open(f)' /\ ~InEpoll(f)'
  BY <1>4, OwnerFacts DEF OwnerInv, Unexpired, Open, InEpoll
<1>6. \A f \in Fds : ~InBatch(f)' /\ cur' # f
  BY <1>1, ConstFacts DEF InBatch
<1>7. OwnedOnce'
  BY <1>1, <1>5, <1>6, LoopOwners DEF OwnerInv
<1>8. Unexpired'
  BY <1>1, <1>4, SameUnexpired DEF OwnerInv, Open
<1>. QED
  BY <1>7, <1>8

LEMMA StartParseOwners ==
  ASSUME OwnerInv, StartParse
  PROVE  OwnedOnce' /\ Unexpired'
<1>1. /\ UNCHANGED <<reg, batch, cur, timers>> /\ parsing = NULL /\ m_qTasks # <<>>
      /\ parsing' = Head(m_qTasks) /\ m_qTasks' = Tail(m_qTasks)
      /\ m_qTasks \in Seq(Fds)
  BY DEF StartParse, Pool!Take, OwnerInv, LoopInv, TypeOK, PoolTypeOK
<1>. DEFINE k == Len(m_qTasks)
<1>2. k \in Nat \ {0} /\ DOMAIN m_qTasks = 1 .. k /\ parsing' = m_qTasks[1]
  BY <1>1, LenProperties, EmptySeq, HeadTailProperties
<1>3. DOMAIN m_qTasks' = 1 .. k - 1 /\ \A i \in 1 .. k - 1 : m_qTasks'[i] = m_qTasks[i + 1]
  BY <1>1, HeadTailProperties, LenProperties
<1>4. \A i \in 1 .. k - 1 : i + 1 \in 1 .. k /\ i + 1 # 1
  BY <1>2
<1>5. \A f \in Fds, i, j \in 1 .. k : m_qTasks[i] = f /\ m_qTasks[j] = f => i = j
  BY <1>2 DEF OwnerInv, OwnedOnce
<1>6. 1 \in 1 .. k
  BY <1>2
<1>7. \A f \in Fds : Outstanding(f)' => Outstanding(f)
  BY <1>2, <1>3, <1>4, <1>6 DEF Outstanding, Parsing
<1>8. \A f \in Fds : /\ (Parsing(f)' => \A i \in DOMAIN m_qTasks' : m_qTasks'[i] # f)
                     /\ \A i, j \in DOMAIN m_qTasks' :
                          m_qTasks'[i] = f /\ m_qTasks'[j] = f => i = j
  <2>1. ASSUME NEW f \in Fds, NEW i \in 1 .. k - 1, NEW j \in 1 .. k - 1,
               m_qTasks'[i] = f, m_qTasks'[j] = f
        PROVE  i = j
    <3>1. i + 1 = j + 1
      BY <1>3, <1>4, <1>5, <2>1
    <3>. QED
      BY <3>1
  <2>. QED
    BY <1>2, <1>3, <1>4, <1>5, <1>6, <2>1 DEF Parsing
<1>9. \A f \in Fds : /\ (Open(f)' <=> Open(f)) /\ (InEpoll(f)' <=> InEpoll(f))
                     /\ (InBatch(f)' <=> InBatch(f)) /\ cur' = cur
  BY <1>1 DEF Open, InEpoll, InBatch
<1>10. OwnedOnce'
  BY <1>7, <1>8, <1>9, OwnerFacts DEF OwnerInv, OwnedOnce, Owned, InEpoll
<1>11. Unexpired'
  BY <1>1, <1>7, <1>9 DEF OwnerInv, Unexpired, timers
<1>. QED
  BY <1>10, <1>11

\* HttpParse builds its response: the CHttp stays the pool's.
LEMMA BuildOwners ==
  ASSUME OwnerInv, BuildText \/ MapFile \/ StoreLen
  PROVE  OwnedOnce' /\ Unexpired'
<1>1. /\ UNCHANGED <<reg, batch, cur, timers, m_qTasks, parsing>>
      /\ hpc # "return" /\ hpc' # "return"
  BY DEF BuildText, MapFile, StoreLen, Goes
<1>. QED
  BY <1>1, SamePoolOwners DEF Parsing

\* The thread returns: the CHttp is no longer the pool's since ModFd.
LEMMA ReturnOwners ==
  ASSUME OwnerInv, Return
  PROVE  OwnedOnce' /\ Unexpired'
<1>1. UNCHANGED <<reg, batch, cur, timers, m_qTasks>> /\ hpc = "return" /\ parsing' = NULL
  BY DEF Return, Pool!Done
<1>. QED
  BY <1>1, ConstFacts, SamePoolOwners DEF Parsing

\* ModFd hands it to epoll.
LEMMA ArmOwners ==
  ASSUME OwnerInv, ParseOpen \/ ArmOut
  PROVE  OwnedOnce' /\ Unexpired'
<1>. DEFINE p == parsing
<1>1. PICK from \in {"parse", "arm"}, kind \in {"in", "out"} :
        Goes(from, "return") /\ Arm(p, kind)
  BY DEF ParseOpen, ArmOut
<1>2. /\ UNCHANGED <<batch, cur, timers, m_qTasks>> /\ p \in Fds /\ parsing' = p
      /\ hpc # "return" /\ hpc' = "return"
  BY <1>1, ParseFacts DEF OwnerInv
<1>3. Parsing(p) /\ \A f \in Fds : ~Parsing(f)' /\ (Parsing(f) => f = p)
  BY <1>2 DEF Parsing
<1>4. /\ Outstanding(p) /\ ~InBatch(p) /\ cur # p
      /\ \A i \in DOMAIN m_qTasks : m_qTasks[i] # p
  BY <1>2, <1>3, OwnerFacts DEF OwnerInv, OwnedOnce, Outstanding
<1>5. \A f \in Fds : (Outstanding(f)' <=> Outstanding(f) /\ f # p)
  BY <1>2, <1>3, <1>4 DEF Outstanding
<1>6. \A f \in Fds \ {p} : reg'[f] = reg[f]
  BY <1>1, <1>2 DEF Arm, OwnerInv, LoopInv, TypeOK, LoopTypeOK
<1>7. \A f \in Fds : (InBatch(f)' <=> InBatch(f)) /\ cur' = cur
  BY <1>2 DEF InBatch
<1>8. \A f \in Fds \ {p} : (Open(f)' <=> Open(f)) /\ (InEpoll(f)' <=> InEpoll(f))
  BY <1>6 DEF Open, InEpoll
<1>9. \A f \in Fds : InEpoll(f)' => Open(f)'
  BY DEF InEpoll, Open
<1>10. \A f \in Fds : /\ Owned(f)' => Open(f)'
                      /\ InEpoll(f)' => ~InBatch(f)' /\ cur' # f /\ ~Outstanding(f)'
                      /\ InBatch(f)' => cur' # f /\ ~Outstanding(f)'
                      /\ cur' = f => ~Outstanding(f)'
  BY <1>4, <1>5, <1>7, <1>8, <1>9, OwnerFacts DEF OwnerInv, Owned, InEpoll
<1>11. OwnedOnce'
  BY <1>2, <1>3, <1>10 DEF OwnerInv, OwnedOnce, InEpoll
<1>12. Unexpired'
  BY <1>2, <1>5, <1>8 DEF OwnerInv, Unexpired, timers
<1>. QED
  BY <1>11, <1>12

\* No timer of a connection in the pool expires.
LEMMA PromptTickOwners ==
  ASSUME OwnerInv, PromptTick
  PROVE  OwnedOnce' /\ Unexpired'
<1>1. /\ UNCHANGED <<reg, batch, cur, pool, heap, timer, owner, callback>>
      /\ left' = [n \in Timers |-> IF left[n] = 0 THEN 0 ELSE left[n] - 1]
      /\ \A n \in heap : left[n] = 1 /\ callback[n] => ~Outstanding(owner[n])
  BY DEF PromptTick, ClockTick
<1>2. \A f \in Fds : (Open(f)' <=> Open(f)) /\ (InEpoll(f)' <=> InEpoll(f))
                     /\ (InBatch(f)' <=> InBatch(f)) /\ cur' = cur
  BY <1>1 DEF Open, InEpoll, InBatch
<1>3. OwnedOnce'
  BY <1>1, <1>2, OwnerFacts, LoopOwners DEF OwnerInv
<1>4. ASSUME NEW f \in Fds, Open(f), Outstanding(f) PROVE left'[timer[f]] # 0
  <2>1. timer[f] \in Timers /\ timer[f] \in heap /\ callback[timer[f]] /\ owner[timer[f]] = f
    BY <1>4 DEF OwnerInv, LoopInv, Watched, Live
  <2>2. left[timer[f]] # 0 /\ left[timer[f]] # 1
    BY <1>1, <1>4, <2>1 DEF OwnerInv, Unexpired
  <2>3. left[timer[f]] \in 0 .. Lifetime
    BY <2>1 DEF OwnerInv, LoopInv, TypeOK, TimersTypeOK
  <2>. QED
    BY <1>1, <2>1, <2>2, <2>3, ConstFacts
<1>5. Unexpired'
  BY <1>1, <1>2, <1>4, SameOutstanding DEF Unexpired
<1>. QED
  BY <1>3, <1>5
-----------------------------------------------------------------------------
(* One owner *)

LEMMA OwnerInit == Init => OwnerInv
<1>. SUFFICES ASSUME Init PROVE OwnerInv
  OBVIOUS
<1>1. \A f \in Fds : ~Outstanding(f) /\ ~InBatch(f) /\ cur # f /\ ~Open(f)
  BY ConstFacts, EmptySeq DEF Init, Pool!Init, Outstanding, Parsing, InBatch, Open
<1>2. DOMAIN m_qTasks = {}
  BY EmptySeq DEF Init, Pool!Init
<1>3. OwnedOnce
  BY <1>1, <1>2 DEF OwnedOnce, Owned, Open
<1>. QED
  BY <1>1, <1>3, LoopInit DEF OwnerInv, Unexpired

LEMMA OwnerStep == OwnerInv /\ [NextPrompt]_vars => OwnerInv'
<1>. SUFFICES ASSUME OwnerInv, [NextPrompt]_vars PROVE OwnerInv'
  OBVIOUS
<1>1. LoopInv'
  BY LoopStep DEF OwnerInv, NextPrompt, Next, PromptTick
<1>2. CASE AcceptFails \/ AcceptBusy \/ Terminate \/ ReadPipe \/ UNCHANGED vars
  <2>1. UNCHANGED <<reg, cur, pool, timers>> /\ batch' \subseteq batch
    BY <1>2 DEF AcceptFails, AcceptBusy, Terminate, ReadPipe, Takes, vars
  <2>. QED
    BY <1>1, <2>1, IdleOwners DEF OwnerInv
<1>3. CASE NextPrompt /\ ~(AcceptFails \/ AcceptBusy \/ Terminate \/ ReadPipe)
  BY <1>1, <1>3, EpollWaitOwners, AcceptOwners, CloseOwner, EventOwners, ReadOkOwners,
     AppendTaskOwners, EndBatchOwners, StartParseOwners, BuildOwners,
     ArmOwners, ReturnOwners, PromptTickOwners
     DEF NextPrompt, NextButTime, OwnerInv
<1>. QED
  BY <1>2, <1>3

\* A CHttp has one owner, epoll, the loop or the pool, for any number of connections:
\* what the comment at main.cpp:64 hopes for holds as long as the pool is done with
\* a request before the connection's timer expires.
THEOREM OneOwner == SpecPrompt => []OwnedOnce
<1>1. OwnerInv => OwnedOnce
  BY DEF OwnerInv
<1>. QED
  BY <1>1, OwnerInit, OwnerStep, PTL DEF SpecPrompt

-----------------------------------------------------------------------------
(* No connection is left to nobody. *)

\* A step that leaves f where it is, or closes it
LEMMA SameOwner ==
  ASSUME NEW f \in Fds, Owned(f), Open(f)', UNCHANGED <<cur, pool>>,
         InBatch(f) => InBatch(f)', reg'[f] \in {reg[f], "closed"}
  PROVE  Owned(f)'
BY DEF Owned, Open, InBatch, Outstanding, Parsing, pool

LEMMA KeepsOwner ==
  ASSUME OwnerInv, [NextPrompt]_vars, NEW f \in Fds, Owned(f), Open(f)',
         ~(<<f, "in">> \in batch /\ Pool!MaySeeFull)
  PROVE  Owned(f)'
<1>0. /\ reg \in [Fds -> {"closed", "off", "in", "out"}] /\ batch \subseteq Nat \X {"in", "out", "hup"}
      /\ m_qTasks \in Seq(Fds)
  BY DEF OwnerInv, LoopInv, TypeOK, LoopTypeOK, PoolTypeOK
<1>1. CASE EpollWait
  <2>1. /\ batch = {} /\ UNCHANGED <<cur, pool>>
        /\ reg' = [g \in Fds |-> IF \E e \in batch' : e[1] = g THEN "off" ELSE reg[g]]
    BY <1>1 DEF EpollWait, OwnerInv, LoopInv, TypeOK, LoopTypeOK, BatchOK
  <2>. QED
    BY <2>1 DEF Owned, InBatch, Outstanding, Parsing, pool
<1>2. CASE AcceptFails \/ AcceptBusy \/ Accept \/ ReadPipe
  <2>1. UNCHANGED <<cur, pool>>
    BY <1>2 DEF AcceptFails, AcceptBusy, Accept, ReadPipe
  <2>2. \E e : Takes(e) /\ e[1] \notin Fds
    BY <1>2, ConstFacts DEF AcceptFails, AcceptBusy, Accept, ReadPipe
  <2>3. InBatch(f) => InBatch(f)'
    BY <2>2 DEF Takes, InBatch
  <2>4. CASE Accept
    <3>1. PICK g \in FreeFds : reg' = [reg EXCEPT ![g] = "in"]
      BY <2>4 DEF Accept
    <3>2. g \in Fds
      BY DEF FreeFds
    <3>3. CASE g = f
      BY <1>0, <3>1, <3>2, <3>3 DEF Owned
    <3>4. CASE g # f
      BY <1>0, <2>1, <2>3, <3>1, <3>2, <3>4, SameOwner
    <3>. QED
      BY <3>3, <3>4
  <2>5. CASE reg' = reg
    BY <2>1, <2>3, <2>5, SameOwner
  <2>. QED
    BY <1>2, <2>4, <2>5 DEF AcceptFails, AcceptBusy, ReadPipe
<1>3. CASE HangUp \/ ReadFails \/ WriteEnds \/ ReadRejected \/ WriteNothing \/ WriteBlocked
  <2>1. PICK g \in Fds, kind \in {"in", "out", "hup"} :
          /\ Takes(<<g, kind>>) /\ UNCHANGED <<cur, pool>>
          /\ Close(g) \/ Arm(g, "in") \/ Arm(g, "out")
               \/ (UNCHANGED reg /\ kind = "in" /\ Pool!MaySeeFull)
    BY <1>3 DEF HangUp, ReadFails, WriteEnds, ReadRejected, WriteNothing, WriteBlocked
  <2>2. CASE g = f
    <3>1. <<f, kind>> \in batch
      BY <2>1, <2>2 DEF Takes
    <3>2. Close(f) \/ Arm(f, "in") \/ Arm(f, "out")
      BY <2>1, <2>2, <3>1
    <3>3. reg'[f] \in {"closed", "in", "out"}
      BY <1>0, <3>2 DEF Close, Arm
    <3>. QED
      BY <3>3 DEF Owned, Open
  <2>3. CASE g # f
    <3>1. InBatch(f) => InBatch(f)'
      BY <2>1, <2>3 DEF Takes, InBatch
    <3>2. reg'[f] = reg[f]
      BY <1>0, <2>1, <2>3 DEF Close, Arm
    <3>. QED
      BY <2>1, <3>1, <3>2, SameOwner
  <2>. QED
    BY <2>2, <2>3
<1>4. CASE ReadOk
  <2>1. PICK g \in Fds : Takes(<<g, "in">>) /\ cur' = g /\ UNCHANGED <<reg, pool>>
    BY <1>4 DEF ReadOk
  <2>2. CASE g # f
    <3>1. InBatch(f) => InBatch(f)'
      BY <2>1, <2>2 DEF Takes, InBatch
    <3>2. cur = NULL
      BY <2>1 DEF Takes, OwnerInv, LoopInv, TypeOK, LoopTypeOK
    <3>. QED
      BY <2>1, <3>1, <3>2, ConstFacts DEF Owned, Outstanding, Parsing, pool
  <2>. QED
    BY <2>1, <2>2 DEF Owned
<1>5. CASE AppendTask
  <2>1. /\ UNCHANGED <<reg, batch, parsing, hpc>> /\ cur \in Fds /\ m_qTasks' = Append(m_qTasks, cur)
    BY <1>5 DEF AppendTask, Pool!Put, OwnerInv, LoopInv, TypeOK, LoopTypeOK
  <2>2. /\ DOMAIN m_qTasks = 1 .. Len(m_qTasks) /\ Len(m_qTasks) \in Nat
        /\ DOMAIN m_qTasks' = 1 .. Len(m_qTasks) + 1 /\ m_qTasks'[Len(m_qTasks) + 1] = cur
        /\ \A i \in 1 .. Len(m_qTasks) : m_qTasks'[i] = m_qTasks[i]
    BY <1>0, <2>1, AppendProperties, LenProperties
  <2>3. Outstanding(f) \/ cur = f => Outstanding(f)'
    BY <2>1, <2>2 DEF Outstanding, Parsing
  <2>. QED
    BY <2>1, <2>3 DEF Owned, InBatch
<1>6. CASE EndBatch
  <2>1. UNCHANGED <<batch, cur, pool>> /\ reg'[f] \in {reg[f], "closed"}
    BY <1>6 DEF EndBatch, Tick
  <2>. QED
    BY <2>1, SameOwner DEF InBatch
<1>7. CASE StartParse
  <2>1. /\ UNCHANGED <<reg, batch, cur>> /\ parsing = NULL /\ m_qTasks # <<>>
        /\ parsing' = Head(m_qTasks) /\ hpc' = "parse" /\ m_qTasks' = Tail(m_qTasks)
    BY <1>7 DEF StartParse, Pool!Take
  <2>2. ASSUME NEW i \in DOMAIN m_qTasks, m_qTasks[i] = f PROVE Outstanding(f)'
    <3>1. i \in 1 .. Len(m_qTasks) /\ Len(m_qTasks) \in Nat
      BY <1>0, LenProperties
    <3>2. CASE i = 1
      BY <1>0, <2>1, <2>2, <3>2, HeadTailProperties DEF Outstanding, Parsing
    <3>3. CASE i # 1
      <4>1. /\ i - 1 \in 1 .. Len(m_qTasks) - 1 /\ (i - 1) + 1 = i
        BY <3>1, <3>3
      <4>2. /\ DOMAIN m_qTasks' = 1 .. Len(m_qTasks) - 1
            /\ \A k \in 1 .. Len(m_qTasks) - 1 : m_qTasks'[k] = m_qTasks[k + 1]
        BY <1>0, <2>1, HeadTailProperties, LenProperties
      <4>. QED
        BY <2>2, <4>1, <4>2 DEF Outstanding
    <3>. QED
      BY <3>2, <3>3
  <2>. QED
    BY <2>1, <2>2, ConstFacts DEF Owned, InBatch, Outstanding, Parsing
<1>8. CASE ParseOpen \/ ArmOut
  <2>1. UNCHANGED <<batch, cur, m_qTasks>> /\ (Arm(parsing, "in") \/ Arm(parsing, "out"))
    BY <1>8 DEF ParseOpen, ArmOut, Goes
  <2>2. CASE parsing = f
    <3>1. reg'[f] \in {"closed", "in", "out"}
      BY <1>0, <2>1, <2>2 DEF Arm
    <3>. QED
      BY <3>1 DEF Owned, Open
  <2>3. CASE parsing # f
    <3>1. reg'[f] = reg[f]
      BY <1>0, <2>1, <2>3 DEF Arm
    <3>. QED
      BY <2>1, <2>3, <3>1 DEF Owned, InBatch, Outstanding, Parsing
  <2>. QED
    BY <2>2, <2>3
<1>9. CASE Terminate \/ PromptTick \/ UNCHANGED vars
  <2>1. UNCHANGED <<reg, batch, cur, pool>>
    BY <1>9 DEF Terminate, PromptTick, ClockTick, vars
  <2>. QED
    BY <2>1, SameOwner DEF InBatch
<1>10. CASE BuildText \/ MapFile \/ StoreLen
  <2>1. /\ UNCHANGED <<reg, batch, cur, m_qTasks, parsing>> /\ hpc' # "return"
    BY <1>10 DEF BuildText, MapFile, StoreLen, Goes
  <2>. QED
    BY <2>1 DEF Owned, InBatch, Outstanding, Parsing
<1>11. CASE Return
  <2>1. UNCHANGED <<reg, batch, cur, m_qTasks>> /\ hpc = "return"
    BY <1>11 DEF Return, Pool!Done
  <2>. QED
    BY <2>1 DEF Owned, InBatch, Outstanding, Parsing
<1>. QED
  BY <1>1, <1>2, <1>3, <1>4, <1>5, <1>6, <1>7, <1>8, <1>9, <1>10, <1>11
     DEF NextPrompt, NextButTime

\* An open connection that epoll, the loop or the pool had stays with one of them, but
\* for one thing: the queue may have been full when it came, and main.cpp:256 does not
\* look at what Append returned.
THEOREM NobodyAbandoned == SpecPrompt => NeverAbandoned
<1>1. OwnerInv /\ [NextPrompt]_vars =>
        [\A f \in Fds : Owned(f) /\ ~Owned(f)' /\ Open(f)'
                          => <<f, "in">> \in batch /\ Pool!MaySeeFull]_vars
  BY KeepsOwner
<1>. QED
  BY <1>1, OwnerInit, OwnerStep, PTL DEF SpecPrompt, NeverAbandoned

-----------------------------------------------------------------------------
(* Mappings.  The loop's unmmap and Init stay away from the CHttp of a      *)
(* worker between its mmap and its ModFd: OwnedOnce.                        *)

MappingInv ==
  /\ SendsFromMapping
  /\ hpc = "size" => mapped[parsing]

LEMMA MappingStep ==
  ASSUME OwnerInv, MappingInv, [NextPrompt]_vars
  PROVE  MappingInv'
<1>. USE DEF OwnerInv, LoopInv, TypeOK, LoopTypeOK, HttpsTypeOK, PoolTypeOK, Open, MappingInv
<1>0. \A f \in Fds : parsing = f /\ hpc = "size" => ~InBatch(f)
  BY OwnerFacts DEF Outstanding, Parsing
<1>1. CASE Accept
  <2>1. PICK f \in FreeFds : /\ reg' = [reg EXCEPT ![f] = "in"] /\ mapped' = mapped
                            /\ response' = [response EXCEPT ![f] = "none"]
                            /\ UNCHANGED pool
    BY <1>1 DEF Accept
  <2>. QED
    BY <2>1 DEF SendsFromMapping, FreeFds, pool
<1>2. CASE HangUp \/ ReadFails
  BY <1>2 DEF HangUp, ReadFails, Close, https, SendsFromMapping, pool
<1>3. CASE WriteEnds
  <2>1. PICK f \in Fds, complete \in BOOLEAN :
          /\ mapped' = [mapped EXCEPT ![f] = FALSE] /\ Close(f)
          /\ response' = [response EXCEPT ![f] = IF complete THEN "none" ELSE @]
          /\ Takes(<<f, "out">>) /\ UNCHANGED pool
    BY <1>3 DEF WriteEnds
  <2>2. hpc = "size" => parsing # f
    BY <1>0, <2>1 DEF Takes, InBatch
  <2>3. SendsFromMapping'
    BY <2>1 DEF Close, SendsFromMapping
  <2>. QED
    BY <2>1, <2>2, <2>3 DEF pool
<1>4. CASE WriteNothing
  <2>1. PICK f \in Fds : /\ Arm(f, "in") /\ mapped' = mapped /\ UNCHANGED pool
                        /\ response' = [response EXCEPT ![f] = "none"]
    BY <1>4 DEF WriteNothing
  <2>. QED
    BY <2>1 DEF Arm, SendsFromMapping, pool
<1>5. CASE WriteBlocked
  BY <1>5 DEF WriteBlocked, Arm, https, SendsFromMapping, pool
<1>6. CASE ParseOpen \/ ArmOut
  <2>1. UNCHANGED https /\ hpc' = "return" /\ parsing \in Fds
        /\ (Arm(parsing, "in") \/ Arm(parsing, "out"))
    BY <1>6, ParseFacts DEF ParseOpen, ArmOut, Goes
  <2>. QED
    BY <2>1 DEF Arm, https, SendsFromMapping
<1>7. CASE BuildText \/ MapFile \/ StoreLen
  <2>1. parsing \in Fds /\ parsing' = parsing
    BY <1>7, ParseFacts DEF BuildText, MapFile, StoreLen
  <2>2. CASE BuildText
    BY <2>1, <2>2 DEF BuildText, Goes, SendsFromMapping
  <2>3. CASE MapFile
    BY <2>1, <2>3 DEF MapFile, Goes, SendsFromMapping
  <2>4. CASE StoreLen
    BY <2>1, <2>4 DEF StoreLen, Goes, SendsFromMapping
  <2>. QED
    BY <1>7, <2>2, <2>3, <2>4
<1>8. CASE EndBatch
  <2>1. UNCHANGED <<https, pool>> /\ \A f \in Fds : reg'[f] = reg[f] \/ reg'[f] = "closed"
    BY <1>8 DEF EndBatch, Tick
  <2>. QED
    BY <2>1 DEF https, SendsFromMapping, pool
<1>9. CASE EpollWait
  <2>1. UNCHANGED <<https, pool>> /\ \A e \in batch' : \A f \in Fds : e[1] = f => reg[f] # "closed"
    <3>1. \A f \in Fds : \A e \in Ready(f) : e[1] = f /\ reg[f] # "closed"
      BY DEF Ready
    <3>2. \A e \in batch' : \/ \E f \in Fds : e \in Ready(f)
                            \/ e = <<listenFd, "in">> \/ e = <<pipeFd, "in">>
      BY <1>9 DEF EpollWait
    <3>3. UNCHANGED <<https, pool>>
      BY <1>9 DEF EpollWait
    <3>. QED
      BY <3>1, <3>2, <3>3, ConstFacts
  <2>2. \A f \in Fds : reg'[f] # "closed" => reg[f] # "closed"
    <3>1. reg' = [f \in Fds |-> IF \E e \in batch' : e[1] = f THEN "off" ELSE reg[f]]
      BY <1>9 DEF EpollWait
    <3>. QED
      BY <2>1, <3>1
  <2>. QED
    BY <2>1, <2>2 DEF https, SendsFromMapping, pool
<1>10. CASE UNCHANGED <<reg, https, pool>>
  BY <1>10 DEF https, SendsFromMapping, pool
<1>11. CASE AppendTask \/ StartParse \/ Return
  <2>1. UNCHANGED <<reg, https>> /\ (hpc' # "size" \/ (hpc' = hpc /\ parsing' = parsing))
    BY <1>11 DEF AppendTask, StartParse, Return, Pool!Put
  <2>. QED
    BY <2>1 DEF https, SendsFromMapping
<1>. QED
  BY <1>1, <1>2, <1>3, <1>4, <1>5, <1>6, <1>7, <1>8, <1>9, <1>10, <1>11
     DEF NextPrompt, NextButTime, AcceptFails, AcceptBusy, ReadOk, ReadRejected, Terminate,
         ReadPipe, PromptTick, ClockTick, vars

\* With a pool that is done with a request before its connection's timer expires,
\* Write finds a mapping whenever it has a file to send (http.cpp:530), though the
\* worker stores mapping and length in two steps and the mapping outlives connections.
THEOREM MappingIsThere == SpecPrompt => []SendsFromMapping
<1>1. Init => MappingInv
  BY DEF Init, MappingInv, SendsFromMapping, Open
<1>2. OwnerInv /\ MappingInv /\ [NextPrompt]_vars => MappingInv'
  BY MappingStep
<1>3. MappingInv => SendsFromMapping
  BY DEF MappingInv
<1>. QED
  BY <1>1, <1>2, <1>3, OwnerInit, OwnerStep, PTL DEF SpecPrompt
=============================================================================
