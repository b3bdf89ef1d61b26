--------------------------- MODULE TimerHeapProofs ---------------------------
(***************************************************************************)
(* Theorems about TimerHeap, for any number of timers, any capacity, any   *)
(* delays and any clock.                                                   *)
(*                                                                         *)
(* A sift is one path through the array (Path): each of its nodes takes    *)
(* the timer of the next, the last one takes the timer that was moved      *)
(* (ShiftPlaces).  What the two recursive definitions of a path give is    *)
(* proved once, for both directions, by induction on the rank of a node    *)
(* (PathExists); order after a sift then follows node by node (DownOrder,  *)
(* UpOrder), and what Tick takes out by induction on the number of pops.   *)
(***************************************************************************)
EXTENDS TimerHeap, FiniteSetTheorems, WellFoundedInduction, TLAPS

-----------------------------------------------------------------------------
(* Counting *)

LEMMA LeastOf ==
  ASSUME NEW T \in SUBSET Nat, T # {}
  PROVE  \E x \in T : \A y \in T : x <= y
<1>1. \A x, y \in Nat : y < x => <<y, x>> \in OpToRel(<, Nat)
  BY DEF OpToRel
<1>2. PICK x \in T : \A y \in T : ~(<<y, x>> \in OpToRel(<, Nat))
  BY NatLessThanWellFounded, WFMin
<1>3. \A y \in T : ~(y < x)
  BY <1>1, <1>2
<1>. QED
  BY <1>3

\* What holds of 0, and of i + 1 if of i, holds up to n.
LEMMA Count ==
  ASSUME NEW n \in Nat, NEW S, 0 \in S, \A i \in 0 .. n - 1 : i \in S => i + 1 \in S
  PROVE  0 .. n \subseteq S
<1>. SUFFICES ASSUME (0 .. n) \ S # {} PROVE FALSE
  OBVIOUS
<1>1. (0 .. n) \ S \in SUBSET Nat
  OBVIOUS
<1>2. PICK x \in (0 .. n) \ S : \A y \in (0 .. n) \ S : x <= y
  BY <1>1, LeastOf
<1>3. x # 0
  BY <1>2
<1>4. x - 1 \in 0 .. n - 1 /\ x = (x - 1) + 1 /\ x - 1 \in 0 .. n
  BY <1>3
<1>5. x - 1 \in S
  BY <1>2, <1>4
<1>. QED
  BY <1>2, <1>4, <1>5

\* Nodes and their parents
LEMMA Parent ==
  ASSUME NEW i \in Nat \ {0}
  PROVE  /\ (i - 1) \div 2 \in Nat /\ (i - 1) \div 2 < i
         /\ i = 2 * ((i - 1) \div 2) + 1 \/ i = 2 * ((i - 1) \div 2) + 2
  OBVIOUS

LEMMA Child ==
  ASSUME NEW q \in Nat
  PROVE  ((2 * q + 1) - 1) \div 2 = q /\ ((2 * q + 2) - 1) \div 2 = q
  OBVIOUS
-----------------------------------------------------------------------------
(* Paths *)

\* p leads from i to the first node where go does not hold, from each node to the
\* next one, down in rank.
IsPath(p, i, D, go, next, rank) ==
  /\ p \in Seq(D) /\ p # <<>> /\ p[1] = i
  /\ \A j \in 1 .. Len(p) - 1 : go[p[j]] /\ p[j + 1] = next[p[j]]
  /\ ~go[p[Len(p)]]
  /\ \A j, l \in 1 .. Len(p) : j < l => rank[p[l]] < rank[p[j]]

LEMMA PathLonger ==
  ASSUME NEW D, NEW go, NEW next, NEW rank \in [D -> Nat],
         NEW i \in D, go[i], next[i] \in D, rank[next[i]] < rank[i],
         NEW q, IsPath(q, next[i], D, go, next, rank)
  PROVE  IsPath(<<i>> \o q, i, D, go, next, rank)
<1>. PICK p : p = <<i>> \o q
  OBVIOUS
<1>1. q \in Seq(D) /\ q # <<>> /\ Len(q) \in Nat /\ Len(q) >= 1 /\ q[1] = next[i]
  BY DEF IsPath
<1>2. /\ p \in Seq(D) /\ p # <<>> /\ p[1] = i /\ Len(p) = Len(q) + 1
      /\ \A j \in 1 .. Len(q) : p[j + 1] = q[j]
  BY <1>1
<1>3. ASSUME NEW j \in 1 .. Len(p) - 1 PROVE go[p[j]] /\ p[j + 1] = next[p[j]]
  <2>1. CASE j = 1
    BY <1>1, <1>2, <2>1
  <2>2. CASE j # 1
    <3>1. j - 1 \in 1 .. Len(q) - 1 /\ j - 1 \in 1 .. Len(q) /\ (j - 1) + 1 = j
          /\ j \in 1 .. Len(q)
      <4>1. Len(p) - 1 = Len(q) /\ Len(q) \in Nat
        BY <1>1, <1>2
      <4>. QED
        BY <4>1, <2>2
    <3>2. p[j] = q[j - 1] /\ p[j + 1] = q[j] /\ go[q[j - 1]] /\ q[(j - 1) + 1] = next[q[j - 1]]
      BY <1>2, <3>1 DEF IsPath
    <3>. QED
      BY <3>1, <3>2
  <2>. QED
    BY <2>1, <2>2
<1>4. ~go[p[Len(p)]]
  BY <1>1, <1>2 DEF IsPath
<1>5. \A l \in 1 .. Len(q) : q[l] \in D /\ rank[q[l]] \in Nat
  BY <1>1
<1>6. ASSUME NEW l \in 1 .. Len(q) PROVE rank[q[l]] < rank[i]
  <2>1. CASE l = 1
    BY <1>1, <2>1
  <2>2. CASE l # 1
    <3>1. rank[q[l]] < rank[q[1]]
      BY <1>1, <2>2 DEF IsPath
    <3>. QED
      BY <1>1, <1>5, <3>1
  <2>. QED
    BY <2>1, <2>2
<1>7. ASSUME NEW j \in 1 .. Len(p), NEW l \in 1 .. Len(p), j < l
      PROVE  rank[p[l]] < rank[p[j]]
  <2>1. l - 1 \in 1 .. Len(q) /\ (l - 1) + 1 = l
    BY <1>1, <1>2, <1>7
  <2>2. p[l] = q[l - 1]
    BY <1>2, <2>1
  <2>3. CASE j = 1
    BY <1>2, <1>6, <2>1, <2>2, <2>3
  <2>4. CASE j # 1
    <3>1. j - 1 \in 1 .. Len(q) /\ (j - 1) + 1 = j /\ j - 1 < l - 1
      BY <1>1, <1>2, <1>7, <2>4
    <3>2. p[j] = q[j - 1]
      BY <1>2, <3>1
    <3>. QED
      BY <2>1, <2>2, <3>1, <3>2 DEF IsPath
  <2>. QED
    BY <2>3, <2>4
<1>. QED
  BY <1>2, <1>3, <1>4, <1>7 DEF IsPath

LEMMA PathEnds ==
  ASSUME NEW D, NEW go, NEW next, NEW rank \in [D -> Nat], NEW i \in D, ~go[i]
  PROVE  IsPath(<<i>>, i, D, go, next, rank)
<1>1. <<i>> \in Seq(D) /\ <<i>> # <<>> /\ <<i>>[1] = i /\ Len(<<i>>) = 1
  OBVIOUS
<1>. QED
  BY <1>1 DEF IsPath

\* f is what the recursive definition of a path stands for.
Follows(f, D, go, next) == f = [i \in D |-> IF go[i] THEN <<i>> \o f[next[i]] ELSE <<i>>]

\* Such a function exists, and its values are paths.
LEMMA PathExists ==
  ASSUME NEW D, NEW go, NEW next, NEW M \in Nat, NEW rank \in [D -> 0 .. M],
         \A i \in D : go[i] => next[i] \in D /\ rank[next[i]] < rank[i]
  PROVE  /\ \E f : Follows(f, D, go, next)
         /\ \A f : Follows(f, D, go, next) => \A i \in D : IsPath(f[i], i, D, go, next, rank)
<1>. DEFINE Below(m) == {i \in D : rank[i] < m}
            Upto(m) == \E f : f = [i \in Below(m) |->
                                     IF go[i] THEN <<i>> \o f[next[i]] ELSE <<i>>]
            S == {m \in Nat : Upto(m)}
<1>1. Upto(0)
  <2>1. Below(0) = {}
    OBVIOUS
  <2>2. PICK f : f = [i \in Below(0) |-> <<i>>]
    OBVIOUS
  <2>3. f = [i \in Below(0) |-> IF go[i] THEN <<i>> \o f[next[i]] ELSE <<i>>]
    BY <2>1, <2>2
  <2>. QED
    BY <2>3
<1>2. ASSUME NEW m \in Nat, Upto(m) PROVE Upto(m + 1)
  <2>1. PICK f : f = [i \in Below(m) |-> IF go[i] THEN <<i>> \o f[next[i]] ELSE <<i>>]
    BY <1>2
  <2>2. PICK g : g = [i \in Below(m + 1) |-> IF go[i] THEN <<i>> \o f[next[i]] ELSE <<i>>]
    OBVIOUS
  <2>3. \A i \in Below(m) : i \in Below(m + 1)
    OBVIOUS
  <2>4. \A i \in Below(m) : g[i] = f[i]
    <3>. HIDE DEF Below
    <3>. QED
      BY <2>1, <2>2, <2>3
  <2>5. \A i \in Below(m + 1) : go[i] => next[i] \in Below(m)
    OBVIOUS
  <2>6. g = [i \in Below(m + 1) |-> IF go[i] THEN <<i>> \o g[next[i]] ELSE <<i>>]
    <3>. HIDE DEF Below
    <3>1. \A i \in Below(m + 1) : (IF go[i] THEN <<i>> \o f[next[i]] ELSE <<i>>)
                                  = (IF go[i] THEN <<i>> \o g[next[i]] ELSE <<i>>)
      BY <2>4, <2>5
    <3>. QED
      BY <2>2, <3>1, Zenon
  <2>. QED
    BY <2>6
<1>3. Upto(M + 1)
  <2>. HIDE DEF Upto
  <2>1. 0 \in S /\ \A m \in 0 .. (M + 1) - 1 : m \in S => m + 1 \in S
    BY <1>1, <1>2
  <2>. HIDE DEF S
  <2>2. 0 .. M + 1 \subseteq S
    BY <2>1, Count
  <2>3. M + 1 \in S
    BY <2>2
  <2>. QED
    BY <2>3 DEF S
<1>4. Below(M + 1) = D
  OBVIOUS
<1>5. \E f : f = [i \in D |-> IF go[i] THEN <<i>> \o f[next[i]] ELSE <<i>>]
  BY <1>3, <1>4
<1>6. ASSUME NEW f, f = [i \in D |-> IF go[i] THEN <<i>> \o f[next[i]] ELSE <<i>>]
      PROVE  \A i \in D : IsPath(f[i], i, D, go, next, rank)
  <2>. DEFINE T == {m \in Nat : \A i \in Below(m) : IsPath(f[i], i, D, go, next, rank)}
  <2>1. 0 \in T
    OBVIOUS
  <2>2. ASSUME NEW m \in Nat, m \in T PROVE m + 1 \in T
    <3>1. ASSUME NEW i \in Below(m + 1) PROVE IsPath(f[i], i, D, go, next, rank)
      <4>1. i \in D /\ rank \in [D -> Nat]
        OBVIOUS
      <4>4. f[i] = IF go[i] THEN <<i>> \o f[next[i]] ELSE <<i>>
        BY <1>6, <4>1
      <4>2. CASE go[i]
        <5>1. next[i] \in D /\ rank[next[i]] < rank[i] /\ next[i] \in Below(m)
          BY <4>1, <4>2
        <5>2. IsPath(f[next[i]], next[i], D, go, next, rank)
          BY <2>2, <5>1
        <5>3. IsPath(<<i>> \o f[next[i]], i, D, go, next, rank)
          BY <4>1, <4>2, <5>1, <5>2, PathLonger
        <5>. QED
          BY <4>2, <4>4, <5>3
      <4>3. CASE ~go[i]
        BY <4>1, <4>3, <4>4, PathEnds
      <4>. QED
        BY <4>2, <4>3
    <3>. QED
      BY <3>1
  <2>. HIDE DEF T
  <2>3. 0 .. M + 1 \subseteq T
    BY <2>1, <2>2, Count
  <2>4. M + 1 \in T
    BY <2>3
  <2>. QED
    BY <1>4, <2>4 DEF T
<1>. QED
  BY <1>5, <1>6 DEF Follows

\* The nodes of HeapDown lead down while a child expires before the timer moved.
GoesDown(h, ex, node, i) ==
  2 * i + 1 < h.n /\ ex[h.a[node]] > ex[h.a[ChildOf(h, ex, i)]]

LeadsDown(p, h, ex, node, N) ==
  /\ p \in Seq(0 .. N - 1) /\ p # <<>> /\ p[1] = node
  /\ \A j \in 1 .. Len(p) - 1 : GoesDown(h, ex, node, p[j]) /\ p[j + 1] = ChildOf(h, ex, p[j])
  /\ ~GoesDown(h, ex, node, p[Len(p)])
  /\ \A j, l \in 1 .. Len(p) : j < l => p[j] < p[l]

LEMMA DownIs ==
  ASSUME NEW h, NEW ex, NEW N \in Nat, DOMAIN h.a = 0 .. N - 1, h.n \in 0 .. N,
         NEW node \in 0 .. N - 1
  PROVE  LeadsDown(DownPath(h, ex, node), h, ex, node, N)
<1>. DEFINE cond(i) == 2 * i + 1 < h.n /\ ex[h.a[node]] > ex[h.a[ChildOf(h, ex, i)]]
<1>. PICK D : D = 0 .. N - 1
  OBVIOUS
<1>. PICK go : go = [i \in D |-> cond(i)]
  OBVIOUS
<1>. PICK next : next = [i \in D |-> ChildOf(h, ex, i)]
  OBVIOUS
<1>. PICK rank : rank = [i \in D |-> N - i]
  OBVIOUS
<1>1. rank \in [D -> 0 .. N]
  OBVIOUS
<1>2. ASSUME NEW i \in D, 2 * i + 1 < h.n
      PROVE  ChildOf(h, ex, i) \in D /\ ChildOf(h, ex, i) > i
  BY <1>2 DEF ChildOf
<1>3. ASSUME NEW i \in D, go[i] PROVE next[i] \in D /\ rank[next[i]] < rank[i]
  <2>1. 2 * i + 1 < h.n /\ next[i] = ChildOf(h, ex, i)
    BY <1>3
  <2>2. next[i] \in D /\ next[i] > i
    BY <1>2, <2>1
  <2>. QED
    BY <2>2
<1>. HIDE DEF cond
<1>4. ASSUME NEW f PROVE [i \in D |-> IF go[i] THEN <<i>> \o f[next[i]] ELSE <<i>>]
                       = [i \in D |-> IF cond(i) THEN <<i>> \o f[ChildOf(h, ex, i)] ELSE <<i>>]
  <2>1. \A i \in D : go[i] = cond(i) /\ next[i] = ChildOf(h, ex, i)
    BY Zenon
  <2>. QED
    BY <2>1, Zenon
<1>5. \E f : f = [i \in D |-> IF cond(i) THEN <<i>> \o f[ChildOf(h, ex, i)] ELSE <<i>>]
  <2>1. PICK f : Follows(f, D, go, next)
    BY <1>1, <1>3, PathExists
  <2>. QED
    BY <1>4, <2>1 DEF Follows
<1>6. PICK f : /\ f = [i \in D |-> IF cond(i) THEN <<i>> \o f[ChildOf(h, ex, i)] ELSE <<i>>]
               /\ DownPath(h, ex, node) = f[node]
  <2>1. D = DOMAIN h.a
    OBVIOUS
  <2>. QED
    BY <1>5, <2>1, Zenon DEF DownPath, cond
<1>7. Follows(f, D, go, next)
  BY <1>4, <1>6 DEF Follows
<1>8. \A i \in D : IsPath(f[i], i, D, go, next, rank)
  BY <1>1, <1>3, <1>7, PathExists
<1>9. PICK p : p = DownPath(h, ex, node)
  OBVIOUS
<1>10. IsPath(p, node, D, go, next, rank)
  BY <1>6, <1>8, <1>9
<1>11. \A j \in 1 .. Len(p) : p[j] \in D
  BY <1>10 DEF IsPath
<1>12. \A i \in D : (go[i] <=> cond(i)) /\ next[i] = ChildOf(h, ex, i) /\ rank[i] = N - i
  OBVIOUS
<1>13. ASSUME NEW j \in 1 .. Len(p) - 1 PROVE cond(p[j]) /\ p[j + 1] = ChildOf(h, ex, p[j])
  <2>1. p \in Seq(D) /\ go[p[j]] /\ p[j + 1] = next[p[j]]
    BY <1>10, Zenon DEF IsPath
  <2>2. j \in 1 .. Len(p)
    BY <2>1
  <2>. QED
    BY <1>11, <1>12, <2>1, <2>2
<1>14. ~cond(p[Len(p)])
  <2>1. Len(p) \in 1 .. Len(p)
    BY <1>10 DEF IsPath
  <2>. QED
    BY <1>10, <1>11, <1>12, <2>1 DEF IsPath
<1>15. ASSUME NEW j \in 1 .. Len(p), NEW l \in 1 .. Len(p), j < l PROVE p[j] < p[l]
  <2>1. rank[p[l]] < rank[p[j]] /\ rank[p[l]] = N - p[l] /\ rank[p[j]] = N - p[j]
    BY <1>10, <1>11, <1>12, <1>15 DEF IsPath
  <2>. QED
    BY <1>11, <2>1
<1>16. p \in Seq(0 .. N - 1) /\ p # <<>> /\ p[1] = node
  BY <1>10 DEF IsPath
<1>. QED
  BY <1>9, <1>13, <1>14, <1>15, <1>16, Zenon DEF cond, GoesDown, LeadsDown

\* The nodes of AddTimer lead up while the parent expires after the timer added.
GoesUp(h, ex, t, i) == i > 0 /\ ex[h.a[(i - 1) \div 2]] > ex[t]

LeadsUp(p, h, ex, t, node, N) ==
  /\ p \in Seq(0 .. N - 1) /\ p # <<>> /\ p[1] = node
  /\ \A j \in 1 .. Len(p) - 1 : GoesUp(h, ex, t, p[j]) /\ p[j + 1] = (p[j] - 1) \div 2
  /\ ~GoesUp(h, ex, t, p[Len(p)])
  /\ \A j, l \in 1 .. Len(p) : j < l => p[l] < p[j]

LEMMA UpIs ==
  ASSUME NEW h, NEW ex, NEW t, NEW N \in Nat, DOMAIN h.a = 0 .. N - 1, NEW node \in 0 .. N - 1
  PROVE  LeadsUp(UpPath(h, ex, t, node), h, ex, t, node, N)
<1>. DEFINE cond(i) == i > 0 /\ ex[h.a[(i - 1) \div 2]] > ex[t]
<1>. PICK D : D = 0 .. N - 1
  OBVIOUS
<1>. PICK go : go = [i \in D |-> cond(i)]
  OBVIOUS
<1>. PICK next : next = [i \in D |-> (i - 1) \div 2]
  OBVIOUS
<1>. PICK rank : rank = [i \in D |-> i]
  OBVIOUS
<1>1. rank \in [D -> 0 .. N]
  OBVIOUS
<1>2. ASSUME NEW i \in D, go[i] PROVE next[i] \in D /\ rank[next[i]] < rank[i]
  <2>1. cond(i) /\ next[i] = (i - 1) \div 2
    BY <1>2, Zenon
  <2>3. i \in Nat \ {0}
    BY <2>1
  <2>2. next[i] \in D /\ next[i] < i
    BY <2>1, <2>3, Parent
  <2>. QED
    BY <2>2
<1>. HIDE DEF cond
<1>3. ASSUME NEW f PROVE [i \in D |-> IF go[i] THEN <<i>> \o f[next[i]] ELSE <<i>>]
                       = [i \in D |-> IF cond(i) THEN <<i>> \o f[(i - 1) \div 2] ELSE <<i>>]
  <2>1. \A i \in D : go[i] = cond(i) /\ next[i] = (i - 1) \div 2
    BY Zenon
  <2>. QED
    BY <2>1, Zenon
<1>4. \E f : f = [i \in D |-> IF cond(i) THEN <<i>> \o f[(i - 1) \div 2] ELSE <<i>>]
  <2>1. PICK f : Follows(f, D, go, next)
    BY <1>1, <1>2, PathExists
  <2>. QED
    BY <1>3, <2>1 DEF Follows
<1>5. PICK f : /\ f = [i \in D |-> IF cond(i) THEN <<i>> \o f[(i - 1) \div 2] ELSE <<i>>]
               /\ UpPath(h, ex, t, node) = f[node]
  <2>1. D = DOMAIN h.a
    OBVIOUS
  <2>. QED
    BY <1>4, <2>1, Zenon DEF UpPath, cond
<1>6. Follows(f, D, go, next)
  BY <1>3, <1>5 DEF Follows
<1>7. \A i \in D : IsPath(f[i], i, D, go, next, rank)
  BY <1>1, <1>2, <1>6, PathExists
<1>8. PICK p : p = UpPath(h, ex, t, node)
  OBVIOUS
<1>9. IsPath(p, node, D, go, next, rank)
  BY <1>5, <1>7, <1>8
<1>10. \A j \in 1 .. Len(p) : p[j] \in D
  BY <1>9 DEF IsPath
<1>11. \A i \in D : (go[i] <=> cond(i)) /\ next[i] = (i - 1) \div 2 /\ rank[i] = i
  OBVIOUS
<1>12. ASSUME NEW j \in 1 .. Len(p) - 1 PROVE cond(p[j]) /\ p[j + 1] = (p[j] - 1) \div 2
  <2>1. p \in Seq(D) /\ go[p[j]] /\ p[j + 1] = next[p[j]]
    BY <1>9, Zenon DEF IsPath
  <2>2. j \in 1 .. Len(p)
    BY <2>1
  <2>. QED
    BY <1>10, <1>11, <2>1, <2>2
<1>13. ~cond(p[Len(p)])
  <2>1. Len(p) \in 1 .. Len(p)
    BY <1>9 DEF IsPath
  <2>. QED
    BY <1>9, <1>10, <1>11, <2>1 DEF IsPath
<1>14. \A j, l \in 1 .. Len(p) : j < l => p[l] < p[j]
  BY <1>9, <1>10, <1>11 DEF IsPath
<1>15. p \in Seq(0 .. N - 1) /\ p # <<>> /\ p[1] = node
  BY <1>9 DEF IsPath
<1>. QED
  BY <1>8, <1>12, <1>13, <1>14, <1>15, Zenon DEF cond, GoesUp, LeadsUp
-----------------------------------------------------------------------------
(* What a sift leaves *)

Heaps(N) == [a : [0 .. N - 1 -> Timers \cup {NULL}], n : 0 .. N, pos : [Timers -> 0 .. N - 1]]

\* Every timer knows its index, the one in node excepted; there is none in node -1.
PlacedBut(h, node) ==
  \A i \in 0 .. h.n - 1 : i # node => h.a[i] \in Timers /\ h.pos[h.a[i]] = i

Placed(h) == PlacedBut(h, -1)

TimersIn(a, nodes) == {a[i] : i \in nodes}

Held(h) == TimersIn(h.a, 0 .. h.n - 1)

HeldBut(h, node) == TimersIn(h.a, (0 .. h.n - 1) \ {node})

\* A path of k nodes, none twice
PathIn(p, k, nodes) ==
  (\A j \in 1 .. k : p[j] \in nodes) /\ \A j, l \in 1 .. k : p[j] = p[l] => j = l

\* Array b and indices old are right in all nodes but root, and t is not in the others.
RightBut(b, old, nodes, root, t) ==
  \A i \in nodes : i # root => b[i] \in Timers /\ old[b[i]] = i /\ b[i] # t

\* a is b shifted along p, t coming last.
ShiftedTo(a, b, D, p, k, t) ==
  /\ a[p[k]] = t
  /\ \A j \in 1 .. k - 1 : a[p[j]] = b[p[j + 1]]
  /\ \A i \in D : (\A j \in 1 .. k : i # p[j]) => a[i] = b[i]

\* pos is old with the new index of each timer of the path.
Indexed(a, pos, old, p, k) ==
  \A u \in Timers :
    \/ \E j \in 1 .. k : a[p[j]] = u /\ pos[u] = p[j]
    \/ (\A j \in 1 .. k : a[p[j]] # u) /\ pos[u] = old[u]

\* The array and the indices of Shifted, read off its definition
LEMMA ShiftedArray ==
  ASSUME NEW D, NEW b, NEW k \in Nat, k >= 1, NEW p, NEW t, NEW a,
         PathIn(p, k, D),
         a = [i \in D |-> IF i = p[k] THEN t
                         ELSE IF \E j \in 1 .. k - 1 : p[j] = i
                                THEN b[p[1 + CHOOSE j \in 1 .. k - 1 : p[j] = i]]
                                ELSE b[i]]
  PROVE  ShiftedTo(a, b, D, p, k, t)
<1>0. (\A j \in 1 .. k : p[j] \in D) /\ \A j, l \in 1 .. k : p[j] = p[l] => j = l
  BY DEF PathIn
<1>1. k \in 1 .. k /\ \A j \in 1 .. k - 1 : j \in 1 .. k /\ j # k /\ 1 + j = j + 1
  OBVIOUS
<1>2. a[p[k]] = t
  <2>1. p[k] \in D
    BY <1>0, <1>1
  <2>. QED
    BY <2>1, Zenon
<1>3. ASSUME NEW j \in 1 .. k - 1 PROVE a[p[j]] = b[p[j + 1]]
  <2>1. p[j] \in D /\ p[j] # p[k] /\ \E l \in 1 .. k - 1 : p[l] = p[j]
    BY <1>0, <1>1, Zenon
  <2>2. (CHOOSE l \in 1 .. k - 1 : p[l] = p[j]) = j
    <3>1. PICK l : l = CHOOSE m \in 1 .. k - 1 : p[m] = p[j]
      BY Zenon
    <3>2. l \in 1 .. k - 1 /\ p[l] = p[j]
      BY <2>1, <3>1, Zenon
    <3>. QED
      BY <1>0, <1>1, <3>1, <3>2, Zenon
  <2>3. a[p[j]] = b[p[1 + CHOOSE l \in 1 .. k - 1 : p[l] = p[j]]]
    BY <2>1, Zenon
  <2>. QED
    BY <1>1, <2>2, <2>3, Zenon
<1>4. ASSUME NEW i \in D, \A j \in 1 .. k : i # p[j] PROVE a[i] = b[i]
  <2>1. i # p[k] /\ ~ \E j \in 1 .. k - 1 : p[j] = i
    BY <1>1, <1>4, Zenon
  <2>. QED
    BY <2>1, Zenon
<1>. QED
  BY <1>2, <1>3, <1>4, Zenon DEF ShiftedTo

LEMMA ShiftedPos ==
  ASSUME NEW J, NEW p, NEW a, NEW old, NEW pos,
         pos = [u \in Timers |-> IF \E j \in J : a[p[j]] = u
                                   THEN p[CHOOSE j \in J : a[p[j]] = u]
                                   ELSE old[u]],
         NEW u \in Timers
  PROVE  \/ \E j \in J : a[p[j]] = u /\ pos[u] = p[j]
         \/ (\A j \in J : a[p[j]] # u) /\ pos[u] = old[u]
<1>1. CASE \E j \in J : a[p[j]] = u
  <2>1. PICK j : j = CHOOSE m \in J : a[p[m]] = u
    BY Zenon
  <2>2. j \in J /\ a[p[j]] = u
    BY <1>1, <2>1, Zenon
  <2>3. pos[u] = p[j]
    BY <1>1, <2>1, Zenon
  <2>. QED
    BY <2>2, <2>3
<1>2. CASE ~ \E j \in J : a[p[j]] = u
  BY <1>2, Zenon
<1>. QED
  BY <1>1, <1>2

\* A node of the heap has after the shift what another one had, but for the last.
From(a, b, p, k, i, m) ==
  /\ a[i] = b[m]
  /\ \/ \E j \in 1 .. k - 1 : i = p[j] /\ m = p[j + 1]
     \/ m = i /\ \A j \in 1 .. k : i # p[j]

LEMMA MovedFrom ==
  ASSUME NEW D, NEW nodes \in SUBSET D, NEW b, NEW k \in Nat, k >= 1, NEW p, NEW t, NEW a,
         PathIn(p, k, nodes), ShiftedTo(a, b, D, p, k, t),
         NEW i \in nodes, i # p[k]
  PROVE  \E m \in nodes \ {p[1]} : From(a, b, p, k, i, m)
<1>0. /\ \A j \in 1 .. k : p[j] \in nodes
      /\ \A j, l \in 1 .. k : p[j] = p[l] => j = l
      /\ \A j \in 1 .. k - 1 : a[p[j]] = b[p[j + 1]]
      /\ (\A j \in 1 .. k : i # p[j]) => a[i] = b[i]
  <2>1. i \in D
    OBVIOUS
  <2>. QED
    BY <2>1, Zenon DEF PathIn, ShiftedTo
<1>1. 1 \in 1 .. k /\ \A j \in 1 .. k - 1 : j \in 1 .. k /\ j + 1 \in 1 .. k /\ j + 1 # 1
  OBVIOUS
<1>2. \A j \in 1 .. k : j # k => j \in 1 .. k - 1
  OBVIOUS
<1>3. CASE \E j \in 1 .. k - 1 : i = p[j]
  <2>1. PICK j \in 1 .. k - 1 : i = p[j]
    BY <1>3
  <2>2. p[j + 1] \in nodes \ {p[1]}
    BY <1>0, <1>1, Zenon
  <2>. QED
    BY <1>0, <2>1, <2>2, Zenon DEF From
<1>4. CASE \A j \in 1 .. k - 1 : i # p[j]
  <2>1. \A j \in 1 .. k : i # p[j]
    BY <1>2, <1>4, Zenon
  <2>2. i # p[1]
    BY <1>1, <2>1, Zenon
  <2>. QED
    BY <1>0, <2>1, <2>2, Zenon DEF From
<1>. QED
  BY <1>3, <1>4, Zenon

LEMMA Steps ==
  ASSUME NEW k \in Nat, k >= 1
  PROVE  /\ 1 \in 1 .. k /\ k \in 1 .. k
         /\ \A j \in 1 .. k - 1 : j \in 1 .. k /\ j + 1 \in 1 .. k
         /\ \A j \in 1 .. k - 1 : \A l \in 1 .. k - 1 : j + 1 = l + 1 => j = l
         /\ \A j \in 1 .. k : j # 1 => j - 1 \in 1 .. k - 1 /\ (j - 1) + 1 = j /\ j - 1 \in 1 .. k
  OBVIOUS

\* After the shift the nodes have, each timer at its index, those b had in all of
\* them but root, and t.
Seated(a, pos, D, nodes, b, root, t) ==
  /\ TimersIn(a, nodes) = TimersIn(b, nodes \ {root}) \cup {t}
  /\ a \in [D -> Timers \cup {NULL}] /\ pos \in [Timers -> D]
  /\ \A i \in nodes : a[i] \in Timers /\ pos[a[i]] = i

LEMMA ShiftCore ==
  ASSUME NEW D, NEW nodes \in SUBSET D,
         NEW b \in [D -> Timers \cup {NULL}], NEW old \in [Timers -> D],
         NEW t \in Timers, NEW k \in Nat, k >= 1, NEW p,
         NEW A, NEW a \in [D -> A], NEW P, NEW pos \in [Timers -> P],
         PathIn(p, k, nodes), RightBut(b, old, nodes, p[1], t),
         ShiftedTo(a, b, D, p, k, t), Indexed(a, pos, old, p, k)
  PROVE  Seated(a, pos, D, nodes, b, p[1], t)
<1>1. \A i \in nodes : i \in D
  OBVIOUS
<1>2. /\ 1 \in 1 .. k /\ k \in 1 .. k
      /\ \A j \in 1 .. k - 1 : j \in 1 .. k /\ j + 1 \in 1 .. k
      /\ \A j \in 1 .. k - 1 : \A l \in 1 .. k - 1 : j + 1 = l + 1 => j = l
      /\ \A j \in 1 .. k : j # 1 => j - 1 \in 1 .. k - 1 /\ (j - 1) + 1 = j /\ j - 1 \in 1 .. k
  BY Steps, Zenon
<1>3. ASSUME NEW i \in nodes, i # p[k]
      PROVE  \E m \in nodes \ {p[1]} : From(a, b, p, k, i, m)
  BY <1>3, MovedFrom, Zenon
<1>4. \A i, m \in nodes \ {p[1]} : b[i] \in Timers /\ b[i] # t /\ (b[i] = b[m] => i = m)
  BY Zenon DEF RightBut
<1>a. a[p[k]] = t
  BY DEF ShiftedTo
<1>b. ASSUME NEW i \in nodes, i # p[k]
      PROVE  a[i] \in {b[m] : m \in nodes \ {p[1]}} /\ a[i] \in Timers /\ a[i] # t
  <2>1. PICK m \in nodes \ {p[1]} : a[i] = b[m]
    BY <1>3, <1>b, Zenon DEF From
  <2>. QED
    BY <1>4, <2>1
<1>5. ASSUME NEW i \in nodes, NEW l \in nodes, a[i] = a[l] PROVE i = l
  <2>1. CASE i = p[k] \/ l = p[k]
    BY <1>a, <1>b, <1>5, <2>1, Zenon
  <2>2. CASE i # p[k] /\ l # p[k]
    <3>1. PICK m \in nodes \ {p[1]} : From(a, b, p, k, i, m)
      BY <1>3, <2>2, Zenon
    <3>2. PICK r \in nodes \ {p[1]} : From(a, b, p, k, l, r)
      BY <1>3, <2>2, Zenon
    <3>3. b[m] = b[r]
      BY <1>5, <3>1, <3>2, Zenon DEF From
    <3>4. m = r
      BY <1>4, <3>3, Zenon
    <3>5. CASE \E j \in 1 .. k - 1 : i = p[j] /\ m = p[j + 1]
      <4>1. PICK j \in 1 .. k - 1 : i = p[j] /\ m = p[j + 1]
        BY <3>5
      <4>2. l # m
        <5>1. j + 1 \in 1 .. k
          BY <1>2, Zenon
        <5>2. (\E q \in 1 .. k - 1 : l = p[q] /\ r = p[q + 1]) => l # r
          <6>1. \A q \in 1 .. k - 1 : p[q] # p[q + 1]
            BY <1>2 DEF PathIn
          <6>. QED
            BY <6>1, Zenon
        <5>. QED
          BY <3>2, <3>4, <4>1, <5>1, <5>2, Zenon DEF From
      <4>3. PICK q \in 1 .. k - 1 : l = p[q] /\ r = p[q + 1]
        BY <3>2, <3>4, <4>2, Zenon DEF From
      <4>4. j + 1 = q + 1
        BY <1>2, <3>4, <4>1, <4>3, Zenon DEF PathIn
      <4>5. j = q
        BY <4>4
      <4>. QED
        BY <4>1, <4>3, <4>5
    <3>6. CASE m = i /\ \A j \in 1 .. k : i # p[j]
      <4>1. ~ \E q \in 1 .. k - 1 : l = p[q] /\ r = p[q + 1]
        BY <1>2, <3>4, <3>6, Zenon
      <4>. QED
        BY <3>2, <3>4, <3>6, <4>1, Zenon DEF From
    <3>. QED
      BY <3>1, <3>5, <3>6, Zenon DEF From
  <2>. QED
    BY <2>1, <2>2
<1>6. ASSUME NEW i \in nodes PROVE a[i] \in Timers
  BY <1>a, <1>b
<1>7. a \in [D -> Timers \cup {NULL}]
  <2>1. ASSUME NEW i \in D PROVE a[i] \in Timers \cup {NULL}
    <3>1. CASE i \in nodes
      BY <1>6, <3>1
    <3>2. CASE i \notin nodes
      <4>1. a[i] = b[i]
        BY <3>2, Zenon DEF ShiftedTo, PathIn
      <4>. QED
        BY <4>1
    <3>. QED
      BY <3>1, <3>2
  <2>. QED
    BY <2>1
<1>8. pos \in [Timers -> D]
  <2>1. ASSUME NEW u \in Timers PROVE pos[u] \in D
    BY <1>1, Zenon DEF Indexed, PathIn
  <2>. QED
    BY <2>1
<1>9. ASSUME NEW i \in nodes PROVE pos[a[i]] = i
  <2>1. a[i] \in Timers
    BY <1>6
  <2>2. CASE \E j \in 1 .. k : a[p[j]] = a[i] /\ pos[a[i]] = p[j]
    BY <1>5, <2>2, Zenon DEF PathIn
  <2>3. CASE (\A j \in 1 .. k : a[p[j]] # a[i]) /\ pos[a[i]] = old[a[i]]
    <3>1. (\A j \in 1 .. k : i # p[j]) /\ i # p[1]
      BY <1>2, <2>3, Zenon
    <3>2. a[i] = b[i] /\ old[b[i]] = i
      BY <1>1, <3>1, Zenon DEF ShiftedTo, RightBut
    <3>. QED
      BY <2>3, <3>2
  <2>. QED
    BY <2>1, <2>2, <2>3, Zenon DEF Indexed
<1>10. \A i \in nodes : a[i] \in {b[m] : m \in nodes \ {p[1]}} \cup {t}
  BY <1>a, <1>b
<1>11. t \in {a[i] : i \in nodes}
  BY <1>2, Zenon DEF ShiftedTo, PathIn
<1>12. ASSUME NEW m \in nodes \ {p[1]} PROVE b[m] \in {a[i] : i \in nodes}
  <2>1. CASE \E j \in 1 .. k : m = p[j]
    <3>1. PICK j \in 1 .. k : m = p[j]
      BY <2>1
    <3>2. j - 1 \in 1 .. k - 1 /\ (j - 1) + 1 = j /\ j - 1 \in 1 .. k
      BY <1>2, <3>1, Zenon
    <3>3. a[p[j - 1]] = b[m] /\ p[j - 1] \in nodes
      BY <3>1, <3>2, Zenon DEF ShiftedTo, PathIn
    <3>. QED
      BY <3>3, Zenon
  <2>2. CASE \A j \in 1 .. k : m # p[j]
    BY <1>1, <2>2, Zenon DEF ShiftedTo
  <2>. QED
    BY <2>1, <2>2
<1>13. {a[i] : i \in nodes} = {b[i] : i \in nodes \ {p[1]}} \cup {t}
  BY <1>10, <1>11, <1>12
<1>. QED
  BY <1>6, <1>7, <1>8, <1>9, <1>13, Zenon DEF Seated, TimersIn

\* h has become g: p[1] was free for t, each timer of the path moved one node on.
HasShifted(h, g, N, p, t) ==
  /\ g \in Heaps(N) /\ g.n = h.n /\ Placed(g)
  /\ ShiftedTo(g.a, h.a, 0 .. N - 1, p, Len(p), t)
  /\ Held(g) = HeldBut(h, p[1]) \cup {t}

LEMMA ShiftPlaces ==
  ASSUME NEW N \in Nat, NEW h \in Heaps(N), NEW t \in Timers,
         NEW p \in Seq(0 .. N - 1), p # <<>>,
         PathIn(p, Len(p), 0 .. h.n - 1),
         PlacedBut(h, p[1]), t \notin HeldBut(h, p[1])
  PROVE  HasShifted(h, Shifted(h, p, t), N, p, t)
<1>1. /\ DOMAIN h.a = 0 .. N - 1 /\ h.a \in [0 .. N - 1 -> Timers \cup {NULL}]
      /\ h.n \in 0 .. N /\ h.pos \in [Timers -> 0 .. N - 1] /\ DOMAIN h.pos = Timers
      /\ h.n \in Nat
  BY DEF Heaps
<1>2. Len(p) \in Nat /\ Len(p) >= 1
  OBVIOUS
<1>3. PICK nodes : nodes = 0 .. h.n - 1
  BY Zenon
<1>4. nodes \in SUBSET (0 .. N - 1)
  BY <1>1, <1>3
<1>5. PathIn(p, Len(p), nodes)
  BY <1>3
<1>6. PICK a : a = [i \in DOMAIN h.a |->
                     IF i = p[Len(p)] THEN t
                     ELSE IF \E j \in 1 .. Len(p) - 1 : p[j] = i
                            THEN h.a[p[1 + CHOOSE j \in 1 .. Len(p) - 1 : p[j] = i]]
                            ELSE h.a[i]]
  BY Zenon
<1>7. PICK pos : pos = [u \in Timers |->
                         IF \E j \in 1 .. Len(p) : a[p[j]] = u
                           THEN p[CHOOSE j \in 1 .. Len(p) : a[p[j]] = u]
                           ELSE h.pos[u]]
  BY Zenon
<1>8. PICK g : g = Shifted(h, p, t)
  BY Zenon
<1>9. g = [h EXCEPT !.a = a, !.pos = pos]
  BY <1>6, <1>7, <1>8, Zenon DEF Shifted
<1>10. g = [a |-> a, n |-> h.n, pos |-> pos] /\ g.a = a /\ g.n = h.n /\ g.pos = pos
  <2>1. h = [a |-> h.a, n |-> h.n, pos |-> h.pos]
    BY DEF Heaps
  <2>. QED
    BY <1>9, <2>1
<1>11. ShiftedTo(a, h.a, 0 .. N - 1, p, Len(p), t)
  <2>1. PathIn(p, Len(p), DOMAIN h.a)
    <3>1. \A j \in 1 .. Len(p) : p[j] \in DOMAIN h.a
      BY <1>1
    <3>. QED
      BY <3>1, Zenon DEF PathIn
  <2>2. ShiftedTo(a, h.a, DOMAIN h.a, p, Len(p), t)
    BY <1>2, <1>6, <2>1, ShiftedArray, Zenon
  <2>. QED
    BY <1>1, <2>2, Zenon
<1>12. Indexed(a, pos, h.pos, p, Len(p))
  <2>1. PICK J : J = 1 .. Len(p)
    BY Zenon
  <2>. QED
    BY <1>7, <2>1, ShiftedPos, Zenon DEF Indexed
<1>13. RightBut(h.a, h.pos, nodes, p[1], t)
  BY <1>3, Zenon DEF PlacedBut, HeldBut, TimersIn, RightBut
<1>14. PICK A : a \in [0 .. N - 1 -> A]
  <2>1. a \in [0 .. N - 1 -> {a[i] : i \in 0 .. N - 1}]
    BY <1>1, <1>6
  <2>. QED
    BY <2>1, Zenon
<1>15. PICK P : pos \in [Timers -> P]
  <2>1. pos \in [Timers -> {pos[u] : u \in Timers}]
    BY <1>7
  <2>. QED
    BY <2>1, Zenon
<1>16. Seated(a, pos, 0 .. N - 1, nodes, h.a, p[1], t)
  BY <1>1, <1>2, <1>4, <1>5, <1>11, <1>12, <1>13, <1>14, <1>15, ShiftCore, Zenon
<1>17. g \in Heaps(N)
  BY <1>1, <1>10, <1>16 DEF Heaps, Seated
<1>18. Placed(g)
  BY <1>3, <1>10, <1>16, Zenon DEF Placed, PlacedBut, Seated
<1>19. Held(g) = HeldBut(h, p[1]) \cup {t}
  BY <1>3, <1>10, <1>16, Zenon DEF Held, HeldBut, Seated
<1>. QED
  BY <1>8, <1>10, <1>11, <1>17, <1>18, <1>19, Zenon DEF HasShifted
-----------------------------------------------------------------------------
(* The order a sift leaves.  v[i] is when the timer in node i expires. *)

Up(i) == (i - 1) \div 2

InOrder(v, n) == \A i \in 1 .. n - 1 : v[Up(i)] <= v[i]

\* Nothing but node may expire after its children, which do not expire before its
\* own parent.
OrderAbove(v, n, node) ==
  /\ \A i \in 1 .. n - 1 : Up(i) # node => v[Up(i)] <= v[i]
  /\ \A i \in 1 .. n - 1 : Up(i) = node /\ node > 0 => v[Up(node)] <= v[i]

\* The path of HeapDown, for a timer that expires at x
DownSteps(p, k, v, n, x) ==
  /\ \A j, l \in 1 .. k : j < l => p[j] < p[l]
  /\ \A j \in 1 .. k - 1 : p[j + 1] \in 1 .. n - 1 /\ Up(p[j + 1]) = p[j] /\ v[p[j + 1]] < x
  /\ \A j \in 1 .. k - 1 : \A i \in 1 .. n - 1 : Up(i) = p[j] => v[p[j + 1]] <= v[i]
  /\ \A i \in 1 .. n - 1 : Up(i) = p[k] => x <= v[i]

\* The path of AddTimer
UpSteps(p, k, v, n, x) ==
  /\ \A j, l \in 1 .. k : j < l => p[l] < p[j]
  /\ \A j \in 1 .. k - 1 : p[j] > 0 /\ p[j + 1] = Up(p[j]) /\ x < v[p[j + 1]]
  /\ p[k] > 0 => v[Up(p[k])] <= x

LEMMA UpIn ==
  ASSUME NEW n \in Nat, NEW i \in 1 .. n - 1
  PROVE  Up(i) \in 0 .. n - 1 /\ Up(i) < i
BY Parent DEF Up

LEMMA DownOrder ==
  ASSUME NEW n \in Nat, NEW v \in [0 .. n - 1 -> Int], NEW w, NEW x \in Int,
         NEW k \in Nat, k >= 1, NEW p, PathIn(p, k, 0 .. n - 1),
         ShiftedTo(w, v, 0 .. n - 1, p, k, x), DownSteps(p, k, v, n, x),
         OrderAbove(v, n, p[1]), v[p[1]] = x
  PROVE  InOrder(w, n)
<1>1. /\ 1 \in 1 .. k /\ k \in 1 .. k
      /\ \A j \in 1 .. k - 1 : j \in 1 .. k /\ j + 1 \in 1 .. k /\ j < j + 1
      /\ \A j \in 1 .. k : j # 1 => j - 1 \in 1 .. k - 1 /\ (j - 1) + 1 = j /\ 1 < j
      /\ \A j \in 1 .. k : j # k => j \in 1 .. k - 1
  OBVIOUS
<1>2. /\ \A j \in 1 .. k : p[j] \in 0 .. n - 1
      /\ \A j, l \in 1 .. k : p[j] = p[l] => j = l
      /\ w[p[k]] = x
      /\ \A j \in 1 .. k - 1 : w[p[j]] = v[p[j + 1]]
      /\ \A i \in 0 .. n - 1 : (\A j \in 1 .. k : i # p[j]) => w[i] = v[i]
  BY Zenon DEF PathIn, ShiftedTo
<1>3. /\ \A j, l \in 1 .. k : j < l => p[j] < p[l]
      /\ \A j \in 1 .. k - 1 : p[j + 1] \in 1 .. n - 1 /\ Up(p[j + 1]) = p[j] /\ v[p[j + 1]] < x
      /\ \A j \in 1 .. k - 1 : \A i \in 1 .. n - 1 : Up(i) = p[j] => v[p[j + 1]] <= v[i]
      /\ \A i \in 1 .. n - 1 : Up(i) = p[k] => x <= v[i]
  BY Zenon DEF DownSteps
<1>4. /\ \A i \in 1 .. n - 1 : Up(i) # p[1] => v[Up(i)] <= v[i]
      /\ \A i \in 1 .. n - 1 : Up(i) = p[1] /\ p[1] > 0 => v[Up(p[1])] <= v[i]
  BY Zenon DEF OrderAbove
<1>5. \A i \in 0 .. n - 1 : v[i] \in Int
  OBVIOUS
<1>6. ASSUME NEW j \in 1 .. k PROVE p[j] >= p[1] /\ p[j] \in Int /\ p[1] \in Int
  <2>1. p[j] \in Int /\ p[1] \in Int
    BY <1>1, <1>2
  <2>2. CASE j = 1
    BY <2>1, <2>2
  <2>3. CASE j # 1
    <3>1. p[1] < p[j]
      BY <1>1, <1>3, <2>3
    <3>. QED
      BY <2>1, <3>1
  <2>. QED
    BY <2>2, <2>3
<1>7. \* a node of the path other than the first has its parent on it
      ASSUME NEW i \in 1 .. n - 1, NEW l \in 1 .. k, i = p[l], i # p[1]
      PROVE  l - 1 \in 1 .. k - 1 /\ (l - 1) + 1 = l /\ Up(i) = p[l - 1]
  <2>1. l - 1 \in 1 .. k - 1 /\ (l - 1) + 1 = l
    BY <1>1, <1>7
  <2>. QED
    BY <1>3, <1>7, <2>1
<1>. SUFFICES ASSUME NEW i \in 1 .. n - 1 PROVE w[Up(i)] <= w[i]
  BY DEF InOrder
<1>8. PICK q \in 0 .. n - 1 : q = Up(i) /\ q < i
  BY UpIn
<1>9. i \in 0 .. n - 1 /\ v[q] \in Int /\ v[i] \in Int /\ q \in Int /\ i \in Int
  BY <1>5
<1>10. CASE \E j \in 1 .. k - 1 : q = p[j]
  <2>1. PICK j \in 1 .. k - 1 : q = p[j]
    BY <1>10
  <2>2. j \in 1 .. k /\ j + 1 \in 1 .. k
    BY <1>1
  <2>3. w[q] = v[p[j + 1]] /\ v[p[j + 1]] \in Int
    BY <1>2, <1>5, <2>1, <2>2
  <2>4. CASE i = p[j + 1]
    <3>1. CASE j + 1 = k
      <4>1. w[i] = x /\ v[p[j + 1]] < x
        BY <1>2, <1>3, <2>4, <3>1
      <4>. QED
        BY <1>8, <2>3, <4>1
    <3>2. CASE j + 1 # k
      <4>1. j + 1 \in 1 .. k - 1 /\ (j + 1) + 1 \in 1 .. k
        BY <1>1, <2>2, <3>2
      <4>2. w[i] = v[p[(j + 1) + 1]] /\ p[(j + 1) + 1] \in 1 .. n - 1 /\ Up(p[(j + 1) + 1]) = p[j + 1]
        BY <1>2, <1>3, <2>4, <4>1
      <4>3. p[j + 1] # p[1]
        BY <1>1, <1>2, <2>2
      <4>4. v[p[j + 1]] <= v[p[(j + 1) + 1]]
        BY <1>4, <4>2, <4>3
      <4>. QED
        BY <1>8, <2>3, <4>2, <4>4
    <3>. QED
      BY <3>1, <3>2
  <2>5. CASE i # p[j + 1]
    <3>1. ASSUME NEW l \in 1 .. k, i = p[l] PROVE FALSE
      <4>1. i # p[1]
        BY <1>6, <1>8, <1>9, <2>1, <2>2
      <4>2. l - 1 \in 1 .. k - 1 /\ (l - 1) + 1 = l /\ q = p[l - 1]
        BY <1>7, <1>8, <3>1, <4>1
      <4>3. l - 1 = j
        <5>1. l - 1 \in 1 .. k /\ p[l - 1] = p[j]
          BY <1>1, <1>8, <2>1, <4>2
        <5>. QED
          BY <1>2, <2>2, <5>1, Zenon
      <4>. QED
        BY <2>5, <3>1, <4>2, <4>3
    <3>2. w[i] = v[i]
      BY <1>2, <1>9, <3>1
    <3>3. v[p[j + 1]] <= v[i]
      BY <1>3, <1>8, <2>1
    <3>. QED
      BY <1>8, <2>3, <3>2, <3>3
  <2>. QED
    BY <2>4, <2>5
<1>11. CASE q = p[k]
  <2>1. ASSUME NEW l \in 1 .. k, i = p[l] PROVE FALSE
    <3>1. i # p[1]
      BY <1>1, <1>6, <1>8, <1>9, <1>11
    <3>2. l - 1 \in 1 .. k - 1 /\ q = p[l - 1]
      BY <1>7, <1>8, <2>1, <3>1
    <3>3. l - 1 = k
      <4>1. l - 1 \in 1 .. k /\ p[l - 1] = p[k]
        BY <1>1, <1>11, <3>2
      <4>. QED
        BY <1>1, <1>2, <4>1, Zenon
    <3>. QED
      BY <3>2, <3>3
  <2>2. w[i] = v[i] /\ w[q] = x /\ x <= v[i]
    BY <1>2, <1>3, <1>8, <1>9, <1>11, <2>1
  <2>. QED
    BY <1>8, <2>2
<1>12. CASE \A j \in 1 .. k : q # p[j]
  <2>1. w[q] = v[q] /\ q # p[1]
    BY <1>1, <1>2, <1>12
  <2>2. CASE i = p[1]
    <3>1. CASE k = 1
      <4>1. w[i] = x /\ v[i] = x /\ v[q] <= v[i]
        BY <1>2, <1>4, <1>8, <2>1, <2>2, <3>1
      <4>. QED
        BY <1>8, <2>1, <4>1
    <3>2. CASE k # 1
      <4>1. 1 \in 1 .. k - 1 /\ 1 + 1 \in 1 .. k
        BY <1>1, <3>2
      <4>2. w[i] = v[p[1 + 1]] /\ p[1 + 1] \in 1 .. n - 1 /\ Up(p[1 + 1]) = p[1]
        BY <1>2, <1>3, <2>2, <4>1
      <4>3. p[1] > 0
        BY <1>9, <2>2
      <4>4. v[Up(p[1])] <= v[p[1 + 1]]
        BY <1>4, <4>2, <4>3
      <4>. QED
        BY <1>8, <2>1, <2>2, <4>2, <4>4
    <3>. QED
      BY <3>1, <3>2
  <2>3. CASE i # p[1]
    <3>1. \A l \in 1 .. k : i # p[l]
      BY <1>1, <1>7, <1>8, <1>12, <2>3
    <3>2. w[i] = v[i] /\ v[q] <= v[i]
      BY <1>2, <1>4, <1>8, <1>9, <2>1, <3>1
    <3>. QED
      BY <1>8, <2>1, <3>2
  <2>. QED
    BY <2>2, <2>3
<1>. QED
  BY <1>1, <1>10, <1>11, <1>12

LEMMA UpOrder ==
  ASSUME NEW n \in Nat, NEW v \in [0 .. n - 1 -> Int], NEW w, NEW x \in Int,
         NEW k \in Nat, k >= 1, NEW p, PathIn(p, k, 0 .. n - 1),
         ShiftedTo(w, v, 0 .. n - 1, p, k, x), UpSteps(p, k, v, n, x),
         InOrder(v, n - 1), p[1] = n - 1
  PROVE  InOrder(w, n)
<1>1. /\ 1 \in 1 .. k /\ k \in 1 .. k
      /\ \A j \in 1 .. k - 1 : j \in 1 .. k /\ j + 1 \in 1 .. k /\ j < j + 1 /\ j + 1 # 1
      /\ \A j \in 1 .. k : j # 1 => j - 1 \in 1 .. k - 1 /\ (j - 1) + 1 = j /\ 1 < j
      /\ \A j \in 1 .. k : j # k => j \in 1 .. k - 1 /\ j < k
  OBVIOUS
<1>2. /\ \A j \in 1 .. k : p[j] \in 0 .. n - 1
      /\ \A j, l \in 1 .. k : p[j] = p[l] => j = l
      /\ w[p[k]] = x
      /\ \A j \in 1 .. k - 1 : w[p[j]] = v[p[j + 1]]
      /\ \A i \in 0 .. n - 1 : (\A j \in 1 .. k : i # p[j]) => w[i] = v[i]
  BY Zenon DEF PathIn, ShiftedTo
<1>3. /\ \A j, l \in 1 .. k : j < l => p[l] < p[j]
      /\ \A j \in 1 .. k - 1 : p[j] > 0 /\ p[j + 1] = Up(p[j]) /\ x < v[p[j + 1]]
      /\ p[k] > 0 => v[Up(p[k])] <= x
  BY Zenon DEF UpSteps
<1>4. \A i \in 1 .. n - 1 : i # n - 1 => v[Up(i)] <= v[i]
  BY DEF InOrder
<1>5. \A i \in 0 .. n - 1 : v[i] \in Int
  OBVIOUS
<1>6. ASSUME NEW j \in 1 .. k - 1
      PROVE  p[j + 1] \in 0 .. n - 1 /\ p[j + 1] # n - 1 /\ v[p[j + 1]] \in Int
  <2>1. j + 1 \in 1 .. k /\ j + 1 # 1
    BY <1>1
  <2>. QED
    BY <1>1, <1>2, <1>5, <2>1
<1>. SUFFICES ASSUME NEW i \in 1 .. n - 1 PROVE w[Up(i)] <= w[i]
  BY DEF InOrder
<1>8. PICK q \in 0 .. n - 1 : q = Up(i) /\ q < i /\ q # n - 1
  BY UpIn
<1>9. i \in 0 .. n - 1 /\ v[q] \in Int /\ v[i] \in Int /\ q \in Int /\ i \in Int
  BY <1>5
<1>10. CASE \E j \in 1 .. k - 1 : i = p[j]
  <2>1. PICK j \in 1 .. k - 1 : i = p[j]
    BY <1>10
  <2>2. q = p[j + 1] /\ w[i] = v[q] /\ x < v[q] /\ j + 1 \in 1 .. k
    BY <1>1, <1>2, <1>3, <1>8, <2>1
  <2>3. CASE j + 1 = k
    BY <1>2, <1>8, <1>9, <2>2, <2>3
  <2>4. CASE j + 1 # k
    <3>1. j + 1 \in 1 .. k - 1
      BY <1>1, <2>2, <2>4
    <3>2. w[q] = v[p[(j + 1) + 1]] /\ p[(j + 1) + 1] = Up(q) /\ q > 0
      BY <1>2, <1>3, <2>2, <3>1
    <3>3. q \in 1 .. n - 1 /\ q # n - 1
      BY <1>8, <1>9, <3>2
    <3>4. v[Up(q)] <= v[q]
      BY <1>4, <3>3
    <3>. QED
      BY <1>8, <2>2, <3>2, <3>4
  <2>. QED
    BY <2>3, <2>4
<1>11. CASE i = p[k]
  <2>1. \A j \in 1 .. k : q # p[j]
    <3>1. ASSUME NEW j \in 1 .. k, q = p[j] PROVE FALSE
      <4>1. CASE j = k
        BY <1>8, <1>9, <1>11, <3>1, <4>1
      <4>2. CASE j # k
        <5>1. p[k] < p[j]
          BY <1>1, <1>3, <4>2
        <5>. QED
          BY <1>8, <1>9, <1>11, <3>1, <5>1
      <4>. QED
        BY <4>1, <4>2
    <3>. QED
      BY <3>1
  <2>2. w[q] = v[q] /\ w[i] = x /\ p[k] > 0
    BY <1>2, <1>9, <1>11, <2>1
  <2>3. v[q] <= x
    BY <1>3, <1>8, <1>11, <2>2
  <2>. QED
    BY <1>8, <2>2, <2>3
<1>12. CASE \A j \in 1 .. k : i # p[j]
  <2>1. w[i] = v[i] /\ i # n - 1
    BY <1>1, <1>2, <1>9, <1>12
  <2>2. v[q] <= v[i]
    BY <1>4, <1>8, <2>1
  <2>3. CASE \E j \in 1 .. k - 1 : q = p[j]
    <3>1. PICK j \in 1 .. k - 1 : q = p[j]
      BY <2>3
    <3>2. w[q] = v[Up(q)] /\ q > 0
      BY <1>2, <1>3, <3>1
    <3>3. q \in 1 .. n - 1
      BY <1>9, <3>2
    <3>4. v[Up(q)] <= v[q] /\ Up(q) \in 0 .. n - 1
      BY <1>4, <1>8, <3>3, UpIn
    <3>. QED
      BY <1>5, <1>8, <1>9, <2>1, <2>2, <3>2, <3>4
  <2>4. CASE q = p[k]
    <3>1. k # 1
      BY <1>8, <2>4
    <3>2. k - 1 \in 1 .. k - 1 /\ (k - 1) + 1 = k
      BY <1>1, <3>1
    <3>3. x < v[q] /\ w[q] = x
      BY <1>2, <1>3, <2>4, <3>2
    <3>. QED
      BY <1>8, <1>9, <2>1, <2>2, <3>3
  <2>5. CASE \A j \in 1 .. k : q # p[j]
    BY <1>2, <1>8, <2>1, <2>2, <2>5
  <2>. QED
    BY <1>1, <2>3, <2>4, <2>5
<1>. QED
  BY <1>1, <1>10, <1>11, <1>12

\* The root expires first.
LEMMA RootLeast ==
  ASSUME NEW n \in Nat, NEW v \in [0 .. n - 1 -> Int], InOrder(v, n)
  PROVE  \A i \in 0 .. n - 1 : v[0] <= v[i]
<1>. DEFINE T == {i \in 0 .. n - 1 : ~(v[0] <= v[i])}
<1>. SUFFICES ASSUME T # {} PROVE FALSE
  OBVIOUS
<1>1. T \in SUBSET Nat
  OBVIOUS
<1>2. PICK i \in T : \A j \in T : i <= j
  BY <1>1, LeastOf
<1>3. i \in 1 .. n - 1
  BY <1>2
<1>4. Up(i) \in 0 .. n - 1 /\ Up(i) < i
  BY <1>3, UpIn
<1>5. Up(i) \notin T
  BY <1>2, <1>4
<1>6. v[0] <= v[Up(i)] /\ v[Up(i)] <= v[i]
  BY <1>3, <1>4, <1>5 DEF InOrder
<1>. QED
  BY <1>2, <1>4, <1>6
-----------------------------------------------------------------------------
(* HeapDown and AddTimer's sift *)

Times(h, ex) == [i \in 0 .. h.n - 1 |-> ex[h.a[i]]]

\* A heap of n timers, those of set: positions and order are right.
Sound(h, N, n, ex, set) ==
  /\ h \in Heaps(N) /\ h.n = n
  /\ Placed(h) /\ Held(h) = set
  /\ InOrder(Times(h, ex), n)

TimesOf(w, a, ex, nodes) == \A i \in nodes : w[i] = ex[a[i]]

\* Shifting timers shifts when they expire.
LEMMA ShiftedTimes ==
  ASSUME NEW D, NEW nodes \in SUBSET D, NEW b, NEW a, NEW k \in Nat, k >= 1, NEW p, NEW t,
         PathIn(p, k, nodes), ShiftedTo(a, b, D, p, k, t), NEW ex, NEW v, NEW w,
         TimesOf(w, a, ex, nodes), TimesOf(v, b, ex, nodes \ {p[1]})
  PROVE  ShiftedTo(w, v, nodes, p, k, ex[t])
<1>0. (\A i \in nodes : w[i] = ex[a[i]]) /\ \A i \in nodes : i # p[1] => v[i] = ex[b[i]]
  BY Zenon DEF TimesOf
<1>1. /\ 1 \in 1 .. k /\ k \in 1 .. k
      /\ \A j \in 1 .. k - 1 : j \in 1 .. k /\ j + 1 \in 1 .. k /\ j + 1 # 1
  OBVIOUS
<1>2. w[p[k]] = ex[t]
  BY <1>0, <1>1, Zenon DEF PathIn, ShiftedTo
<1>3. ASSUME NEW j \in 1 .. k - 1 PROVE w[p[j]] = v[p[j + 1]]
  <2>1. p[j] \in nodes /\ p[j + 1] \in nodes /\ p[j + 1] # p[1]
    BY <1>1, Zenon DEF PathIn
  <2>2. a[p[j]] = b[p[j + 1]]
    BY Zenon DEF ShiftedTo
  <2>. QED
    <3>1. w[p[j]] = ex[a[p[j]]] /\ v[p[j + 1]] = ex[b[p[j + 1]]]
      BY <1>0, <2>1, Zenon
    <3>. QED
      BY <2>2, <3>1, Zenon
<1>4. ASSUME NEW i \in nodes, \A j \in 1 .. k : i # p[j] PROVE w[i] = v[i]
  <2>1. i \in D /\ i # p[1]
    BY <1>1, <1>4
  <2>2. a[i] = b[i]
    BY <1>4, <2>1, Zenon DEF ShiftedTo
  <2>. QED
    BY <1>0, <2>1, <2>2, Zenon
<1>. QED
  BY <1>2, <1>3, <1>4, Zenon DEF ShiftedTo

LEMMA DownSound ==
  ASSUME NEW N \in Nat, NEW h \in Heaps(N), NEW ex \in [Timers -> Nat],
         NEW node \in 0 .. h.n - 1, h.a[node] \in Timers,
         PlacedBut(h, node), h.a[node] \notin HeldBut(h, node),
         OrderAbove(Times(h, ex), h.n, node)
  PROVE  Sound(HeapDown(h, ex, node), N, h.n, ex, HeldBut(h, node) \cup {h.a[node]})
<1>1. /\ DOMAIN h.a = 0 .. N - 1 /\ h.n \in 0 .. N /\ h.n \in Nat
      /\ \A i \in 0 .. h.n - 1 : i \in 0 .. N - 1
  BY DEF Heaps
<1>2. PICK n \in Nat : n = h.n
  BY <1>1
<1>3. PICK t \in Timers : t = h.a[node]
  OBVIOUS
<1>4. PICK x \in Nat : x = ex[t]
  OBVIOUS
<1>5. PICK v \in [0 .. n - 1 -> Int] : v = Times(h, ex)
  <2>1. ASSUME NEW i \in 0 .. n - 1 PROVE ex[h.a[i]] \in Int
    <3>1. h.a[i] \in Timers
      BY <1>2 DEF PlacedBut
    <3>. QED
      BY <3>1
  <2>2. Times(h, ex) \in [0 .. n - 1 -> Int]
    BY <1>2, <2>1 DEF Times
  <2>. QED
    BY <2>2
<1>6. \A i \in 0 .. n - 1 : v[i] = ex[h.a[i]]
  BY <1>2, <1>5 DEF Times
<1>7. PICK p : p = DownPath(h, ex, node)
  OBVIOUS
<1>8. /\ p \in Seq(0 .. N - 1) /\ p # <<>> /\ p[1] = node
      /\ \A j \in 1 .. Len(p) - 1 :
           GoesDown(h, ex, node, p[j]) /\ p[j + 1] = ChildOf(h, ex, p[j])
      /\ ~GoesDown(h, ex, node, p[Len(p)])
      /\ \A j, l \in 1 .. Len(p) : j < l => p[j] < p[l]
  <2>1. node \in 0 .. N - 1
    BY <1>1
  <2>2. LeadsDown(p, h, ex, node, N)
    BY <1>1, <1>7, <2>1, DownIs, Zenon
  <2>. QED
    BY <2>2, Zenon DEF LeadsDown
<1>9. PICK k \in Nat : k = Len(p) /\ k >= 1
  BY <1>8
<1>10. \A j \in 1 .. k : p[j] \in 0 .. N - 1
  BY <1>8, <1>9
\* the children of a node, and the one that expires first
<1>11. ASSUME NEW i \in 0 .. N - 1, 2 * i + 1 < n
       PROVE  LET c == ChildOf(h, ex, i)
              IN  /\ c \in 1 .. n - 1 /\ Up(c) = i
                  /\ \A m \in 1 .. n - 1 : Up(m) = i => v[c] <= v[m]
  <2>1. PICK l : l = 2 * i + 1
    OBVIOUS
  <2>2. l \in 1 .. n - 1 /\ l \in 0 .. n - 1 /\ Up(l) = i /\ Up(l + 1) = i
    BY <1>11, <2>1, Child DEF Up
  <2>3. PICK c : c = ChildOf(h, ex, i)
    OBVIOUS
  <2>4. c = IF l + 1 < n /\ ex[h.a[l + 1]] < ex[h.a[l]] THEN l + 1 ELSE l
    BY <1>2, <2>1, <2>3, Zenon DEF ChildOf
  <2>5. l + 1 < n => l + 1 \in 0 .. n - 1 /\ v[l + 1] = ex[h.a[l + 1]] /\ v[l + 1] \in Int
    BY <1>6, <2>2
  <2>6. v[l] = ex[h.a[l]] /\ v[l] \in Int
    BY <1>6, <2>2
  <2>7. c \in 1 .. n - 1 /\ Up(c) = i
    BY <2>2, <2>4
  <2>8. ASSUME NEW m \in 1 .. n - 1, Up(m) = i PROVE v[c] <= v[m]
    <3>1. m = l \/ m = l + 1
      BY <2>1, <2>8, Parent DEF Up
    <3>2. CASE m = l
      BY <2>4, <2>5, <2>6, <3>2
    <3>3. CASE m = l + 1
      <4>1. l + 1 < n
        BY <3>3
      <4>. QED
        BY <2>4, <2>5, <2>6, <3>3, <4>1
    <3>. QED
      BY <3>1, <3>2, <3>3
  <2>. QED
    BY <2>3, <2>7, <2>8
<1>12. ASSUME NEW j \in 1 .. k - 1
       PROVE  /\ p[j + 1] \in 1 .. n - 1 /\ Up(p[j + 1]) = p[j] /\ v[p[j + 1]] < x
              /\ \A i \in 1 .. n - 1 : Up(i) = p[j] => v[p[j + 1]] <= v[i]
  <2>1. j \in 1 .. k
    OBVIOUS
  <2>2. 2 * p[j] + 1 < n /\ p[j + 1] = ChildOf(h, ex, p[j]) /\ ex[t] > ex[h.a[p[j + 1]]]
    BY <1>2, <1>3, <1>8, <1>9 DEF GoesDown
  <2>3. /\ p[j + 1] \in 1 .. n - 1 /\ Up(p[j + 1]) = p[j]
        /\ \A m \in 1 .. n - 1 : Up(m) = p[j] => v[p[j + 1]] <= v[m]
    BY <1>10, <1>11, <2>1, <2>2
  <2>4. p[j + 1] \in 0 .. n - 1
    BY <2>3
  <2>5. v[p[j + 1]] = ex[h.a[p[j + 1]]] /\ v[p[j + 1]] \in Int
    BY <1>6, <2>4
  <2>6. v[p[j + 1]] < x
    BY <1>4, <2>2, <2>5
  <2>. QED
    BY <2>3, <2>6
<1>13. ASSUME NEW i \in 1 .. n - 1, Up(i) = p[k] PROVE x <= v[i]
  <2>1. p[k] \in 0 .. N - 1
    BY <1>9, <1>10
  <2>2. 2 * p[k] + 1 < n
    <3>1. i \in Nat \ {0} /\ i < n /\ (i - 1) \div 2 = p[k]
      BY <1>13 DEF Up
    <3>2. i = 2 * p[k] + 1 \/ i = 2 * p[k] + 2
      BY <3>1, Parent
    <3>. QED
      BY <2>1, <3>1, <3>2
  <2>3. PICK c : c = ChildOf(h, ex, p[k])
    OBVIOUS
  <2>4. c \in 1 .. n - 1 /\ v[c] <= v[i]
    BY <1>11, <1>13, <2>1, <2>2, <2>3
  <2>5. ~(ex[t] > ex[h.a[c]])
    BY <1>2, <1>3, <1>8, <1>9, <2>2, <2>3 DEF GoesDown
  <2>6. c \in 0 .. n - 1 /\ i \in 0 .. n - 1
    BY <2>4
  <2>7. v[c] = ex[h.a[c]] /\ v[c] \in Int /\ v[i] \in Int
    BY <1>6, <2>6
  <2>. QED
    BY <1>4, <2>4, <2>5, <2>7
<1>14. DownSteps(p, k, v, n, x)
  BY <1>8, <1>9, <1>12, <1>13, Zenon DEF DownSteps
<1>15. \A j \in 1 .. k : p[j] \in 0 .. n - 1
  <2>1. ASSUME NEW j \in 1 .. k, j # 1 PROVE p[j] \in 0 .. n - 1
    <3>1. j - 1 \in 1 .. k - 1 /\ (j - 1) + 1 = j
      BY <2>1
    <3>2. p[(j - 1) + 1] \in 1 .. n - 1
      BY <1>12, <3>1
    <3>. QED
      BY <3>1, <3>2
  <2>. QED
    BY <1>2, <1>8, <2>1
<1>16. PathIn(p, k, 0 .. n - 1)
  <2>1. ASSUME NEW j \in 1 .. k, NEW l \in 1 .. k, p[j] = p[l] PROVE j = l
    <3>1. p[j] \in Int /\ p[l] \in Int /\ ~(p[j] < p[l]) /\ ~(p[l] < p[j])
      BY <1>10, <2>1
    <3>2. ~(j < l) /\ ~(l < j)
      BY <1>8, <1>9, <3>1
    <3>. QED
      BY <3>2
  <2>. QED
    BY <1>15, <2>1, Zenon DEF PathIn
<1>17. PICK g : g = HeapDown(h, ex, node)
  OBVIOUS
<1>18. g = Shifted(h, p, t)
  BY <1>3, <1>7, <1>17 DEF HeapDown
<1>19. /\ g \in Heaps(N) /\ g.n = h.n /\ Placed(g)
       /\ ShiftedTo(g.a, h.a, 0 .. N - 1, p, k, t)
       /\ Held(g) = HeldBut(h, node) \cup {t}
  <2>1. PathIn(p, Len(p), 0 .. h.n - 1)
    BY <1>2, <1>9, <1>16
  <2>2. PlacedBut(h, p[1]) /\ t \notin HeldBut(h, p[1])
    BY <1>3, <1>8
  <2>3. HasShifted(h, g, N, p, t)
    BY <1>8, <1>18, <2>1, <2>2, ShiftPlaces, Zenon
  <2>. QED
    BY <1>8, <1>9, <2>3, Zenon DEF HasShifted
<1>20. PICK w : w = Times(g, ex)
  OBVIOUS
<1>21. ShiftedTo(w, v, 0 .. n - 1, p, k, x)
  <2>1. TimesOf(w, g.a, ex, 0 .. n - 1) /\ TimesOf(v, h.a, ex, (0 .. n - 1) \ {p[1]})
    BY <1>2, <1>6, <1>19, <1>20 DEF Times, TimesOf
  <2>2. 0 .. n - 1 \in SUBSET (0 .. N - 1)
    BY <1>1, <1>2
  <2>. QED
    BY <1>4, <1>9, <1>16, <1>19, <2>1, <2>2, ShiftedTimes, Zenon
<1>22. InOrder(w, n)
  <2>1. OrderAbove(v, n, p[1]) /\ v[p[1]] = x
    BY <1>2, <1>3, <1>4, <1>5, <1>6, <1>8
  <2>2. x \in Int
    OBVIOUS
  <2>. QED
    BY <1>9, <1>14, <1>16, <1>21, <2>1, <2>2, DownOrder, Zenon
<1>. QED
  BY <1>2, <1>3, <1>17, <1>19, <1>20, <1>22, Zenon DEF Sound

LEMMA UpSound ==
  ASSUME NEW N \in Nat, NEW h \in Heaps(N), NEW ex \in [Timers -> Nat], NEW t \in Timers,
         h.n > 0, PlacedBut(h, h.n - 1), t \notin HeldBut(h, h.n - 1),
         InOrder(Times(h, ex), h.n - 1)
  PROVE  Sound(Shifted(h, UpPath(h, ex, t, h.n - 1), t), N, h.n, ex, HeldBut(h, h.n - 1) \cup {t})
<1>1. /\ DOMAIN h.a = 0 .. N - 1 /\ h.n \in 0 .. N /\ h.n \in Nat
      /\ \A i \in 0 .. h.n - 1 : i \in 0 .. N - 1
  BY DEF Heaps
<1>2. PICK n \in Nat : n = h.n /\ n > 0
  BY <1>1
<1>4. PICK x \in Nat : x = ex[t]
  OBVIOUS
<1>5. PICK v : v = [i \in 0 .. n - 1 |-> IF i = n - 1 THEN x ELSE ex[h.a[i]]]
  OBVIOUS
<1>6. /\ v \in [0 .. n - 1 -> Int]
      /\ \A i \in 0 .. n - 1 : i # n - 1 => v[i] = ex[h.a[i]]
  <2>1. ASSUME NEW i \in 0 .. n - 1, i # n - 1 PROVE ex[h.a[i]] \in Int
    <3>1. h.a[i] \in Timers
      BY <1>2, <2>1 DEF PlacedBut
    <3>. QED
      BY <3>1
  <2>. QED
    BY <1>5, <2>1
<1>7. InOrder(v, n - 1)
  <2>1. ASSUME NEW i \in 1 .. (n - 1) - 1 PROVE v[Up(i)] <= v[i]
    <3>1. i \in 1 .. n - 1 /\ i \in 0 .. n - 1 /\ i # n - 1
      BY <1>2
    <3>2. Up(i) \in 0 .. n - 1 /\ Up(i) # n - 1
      BY <3>1, UpIn
    <3>3. Times(h, ex)[Up(i)] <= Times(h, ex)[i]
      BY <1>2 DEF InOrder
    <3>4. Times(h, ex)[Up(i)] = ex[h.a[Up(i)]] /\ Times(h, ex)[i] = ex[h.a[i]]
      BY <1>2, <3>1, <3>2 DEF Times
    <3>. QED
      BY <1>6, <3>1, <3>2, <3>3, <3>4
  <2>. QED
    BY <2>1 DEF InOrder
<1>8. PICK p : p = UpPath(h, ex, t, h.n - 1)
  OBVIOUS
<1>9. /\ p \in Seq(0 .. N - 1) /\ p # <<>> /\ p[1] = h.n - 1
      /\ \A j \in 1 .. Len(p) - 1 : GoesUp(h, ex, t, p[j]) /\ p[j + 1] = (p[j] - 1) \div 2
      /\ ~GoesUp(h, ex, t, p[Len(p)])
      /\ \A j, l \in 1 .. Len(p) : j < l => p[l] < p[j]
  <2>1. h.n - 1 \in 0 .. N - 1
    BY <1>1, <1>2
  <2>2. LeadsUp(p, h, ex, t, h.n - 1, N)
    BY <1>1, <1>8, <2>1, UpIs, Zenon
  <2>. QED
    BY <2>2, Zenon DEF LeadsUp
<1>10. PICK k \in Nat : k = Len(p) /\ k >= 1
  BY <1>9
<1>11. \A j \in 1 .. k : p[j] \in 0 .. n - 1
  <2>1. ASSUME NEW j \in 1 .. k PROVE p[j] \in 0 .. n - 1
    <3>1. p[j] \in Nat
      BY <1>9, <1>10
    <3>2. CASE j = 1
      BY <1>2, <1>9, <3>2
    <3>3. CASE j # 1
      <4>1. 1 \in 1 .. k /\ 1 < j
        BY <3>3
      <4>2. p[j] < p[1]
        BY <1>9, <1>10, <4>1
      <4>. QED
        BY <1>2, <1>9, <3>1, <4>2
    <3>. QED
      BY <3>2, <3>3
  <2>. QED
    BY <2>1
<1>12. PathIn(p, k, 0 .. n - 1)
  <2>1. ASSUME NEW j \in 1 .. k, NEW l \in 1 .. k, p[j] = p[l] PROVE j = l
    <3>1. p[j] \in Int /\ p[l] \in Int /\ ~(p[j] < p[l]) /\ ~(p[l] < p[j])
      BY <1>11, <2>1
    <3>2. ~(j < l) /\ ~(l < j)
      BY <1>9, <1>10, <3>1
    <3>. QED
      BY <3>2
  <2>. QED
    BY <1>11, <2>1, Zenon DEF PathIn
<1>13. ASSUME NEW j \in 1 .. k, p[j] > 0
       PROVE  Up(p[j]) \in 0 .. n - 1 /\ v[Up(p[j])] = ex[h.a[Up(p[j])]] /\ v[Up(p[j])] \in Int
  <2>1. p[j] \in 1 .. n - 1
    BY <1>11, <1>13
  <2>2. Up(p[j]) \in 0 .. n - 1 /\ Up(p[j]) # n - 1
    BY <2>1, UpIn
  <2>. QED
    BY <1>6, <2>2
<1>14. UpSteps(p, k, v, n, x)
  <2>1. ASSUME NEW j \in 1 .. k - 1
        PROVE  p[j] > 0 /\ p[j + 1] = Up(p[j]) /\ x < v[p[j + 1]]
    <3>1. j \in 1 .. k
      OBVIOUS
    <3>2. p[j] > 0 /\ ex[h.a[Up(p[j])]] > ex[t] /\ p[j + 1] = Up(p[j])
      BY <1>9, <1>10 DEF Up, GoesUp
    <3>. QED
      BY <1>4, <1>13, <3>1, <3>2
  <2>2. ASSUME p[k] > 0 PROVE v[Up(p[k])] <= x
    <3>1. k \in 1 .. k
      BY <1>10
    <3>2. ~(ex[h.a[Up(p[k])]] > ex[t])
      BY <1>9, <1>10, <2>2 DEF Up, GoesUp
    <3>. QED
      BY <1>4, <1>13, <2>2, <3>1, <3>2
  <2>. QED
    BY <1>9, <1>10, <2>1, <2>2, Zenon DEF UpSteps
<1>15. PICK g : g = Shifted(h, p, t)
  OBVIOUS
<1>16. /\ g \in Heaps(N) /\ g.n = h.n /\ Placed(g)
       /\ ShiftedTo(g.a, h.a, 0 .. N - 1, p, k, t)
       /\ Held(g) = HeldBut(h, h.n - 1) \cup {t}
  <2>1. PathIn(p, Len(p), 0 .. h.n - 1)
    BY <1>2, <1>10, <1>12
  <2>2. PlacedBut(h, p[1]) /\ t \notin HeldBut(h, p[1])
    BY <1>9
  <2>3. HasShifted(h, g, N, p, t)
    BY <1>9, <1>15, <2>1, <2>2, ShiftPlaces, Zenon
  <2>. QED
    BY <1>9, <1>10, <2>3, Zenon DEF HasShifted
<1>17. PICK w : w = Times(g, ex)
  OBVIOUS
<1>18. ShiftedTo(w, v, 0 .. n - 1, p, k, x)
  <2>1. TimesOf(w, g.a, ex, 0 .. n - 1)
    BY <1>2, <1>16, <1>17 DEF Times, TimesOf
  <2>2. 0 .. n - 1 \in SUBSET (0 .. N - 1)
    BY <1>1, <1>2
  <2>3. TimesOf(v, h.a, ex, (0 .. n - 1) \ {p[1]})
    BY <1>2, <1>6, <1>9 DEF TimesOf
  <2>. QED
    BY <1>4, <1>10, <1>12, <1>16, <2>1, <2>2, <2>3, ShiftedTimes, Zenon
<1>19. InOrder(w, n)
  <2>1. p[1] = n - 1
    BY <1>2, <1>9
  <2>2. x \in Int
    OBVIOUS
  <2>. QED
    BY <1>6, <1>7, <1>10, <1>12, <1>14, <1>18, <2>1, <2>2, UpOrder, Zenon
<1>. QED
  BY <1>2, <1>8, <1>15, <1>16, <1>17, <1>19, Zenon DEF Sound
-----------------------------------------------------------------------------
(* PopTimer and Tick *)

\* Sound, node by node
NodesSound(h, N, n, ex, set) ==
  /\ h \in Heaps(N) /\ h.n = n /\ n \in 0 .. N
  /\ \A i \in 0 .. n - 1 : h.a[i] \in Timers /\ h.pos[h.a[i]] = i
  /\ set = TimersIn(h.a, 0 .. n - 1)
  /\ Times(h, ex) \in [0 .. n - 1 -> Int]
  /\ \A i \in 0 .. n - 1 : Times(h, ex)[i] = ex[h.a[i]]
  /\ InOrder(Times(h, ex), n)

LEMMA SoundIs ==
  ASSUME NEW N \in Nat, NEW h, NEW n \in Nat, NEW ex \in [Timers -> Nat], NEW set,
         Sound(h, N, n, ex, set)
  PROVE  NodesSound(h, N, n, ex, set)
<1>1. h \in Heaps(N) /\ h.n = n /\ n \in 0 .. N
  BY DEF Sound, Heaps
<1>2. \A i \in 0 .. n - 1 : h.a[i] \in Timers /\ h.pos[h.a[i]] = i
  <2>1. \A i \in 0 .. n - 1 : i # -1
    OBVIOUS
  <2>. QED
    BY <1>1, <2>1, Zenon DEF Sound, Placed, PlacedBut
<1>3. \A i \in 0 .. n - 1 : ex[h.a[i]] \in Int
  BY <1>2
<1>4. Times(h, ex) = [i \in 0 .. n - 1 |-> ex[h.a[i]]]
  BY <1>1 DEF Times
<1>. QED
  <2>1. Times(h, ex) \in [0 .. n - 1 -> Int] /\ \A i \in 0 .. n - 1 : Times(h, ex)[i] = ex[h.a[i]]
    BY <1>3, <1>4
  <2>2. set = TimersIn(h.a, 0 .. n - 1) /\ InOrder(Times(h, ex), n)
    BY <1>1, Zenon DEF Sound, Held
  <2>. QED
    BY <1>1, <1>2, <2>1, <2>2, Zenon DEF NodesSound

\* What of a heap a shift changes depends on its array and its indices only.
ShiftArray(b, p, t) ==
  [i \in DOMAIN b |->
     IF i = p[Len(p)] THEN t
     ELSE IF \E j \in 1 .. Len(p) - 1 : p[j] = i
            THEN b[p[1 + CHOOSE j \in 1 .. Len(p) - 1 : p[j] = i]]
            ELSE b[i]]

ShiftIndex(a, old, p) ==
  [u \in Timers |-> IF \E j \in 1 .. Len(p) : a[p[j]] = u
                      THEN p[CHOOSE j \in 1 .. Len(p) : a[p[j]] = u]
                      ELSE old[u]]

LEMMA ShiftedIs ==
  ASSUME NEW h, NEW p, NEW t
  PROVE  Shifted(h, p, t) = [h EXCEPT !.a = ShiftArray(h.a, p, t),
                                      !.pos = ShiftIndex(ShiftArray(h.a, p, t), h.pos, p)]
BY Zenon DEF Shifted, ShiftArray, ShiftIndex

\* With one timer left nothing is sifted, but the array must stay one.
LEMMA PopLast ==
  ASSUME NEW N \in Nat, NEW h, NEW ex \in [Timers -> Nat], NEW set, Sound(h, N, 1, ex, set)
  PROVE  Sound(Popped(h, ex), N, 0, ex, set \ {h.a[0]})
<1>1. /\ h \in Heaps(N) /\ h.n = 1 /\ 0 \in 0 .. N - 1
      /\ h.a[0] \in Timers /\ h.pos[h.a[0]] = 0
      /\ set = TimersIn(h.a, 0 .. 0)
  <2>1. NodesSound(h, N, 1, ex, set)
    BY SoundIs
  <2>. QED
    BY <2>1 DEF NodesSound
<1>2. PICK e : e = [h EXCEPT !.a[0] = h.a[h.n - 1], !.n = h.n - 1]
  OBVIOUS
<1>3. e.a = h.a /\ e.n = 0 /\ e.pos = h.pos /\ DOMAIN h.a = 0 .. N - 1
  BY <1>1, <1>2 DEF Heaps
<1>4. PICK p : p = DownPath(e, ex, 0)
  OBVIOUS
<1>5. LeadsDown(p, e, ex, 0, N)
  BY <1>1, <1>3, <1>4, DownIs
<1>6. p \in Seq(0 .. N - 1) /\ p # <<>> /\ p[1] = 0
  BY <1>5 DEF LeadsDown
<1>7. Len(p) = 1
  <2>1. Len(p) \in Nat /\ Len(p) >= 1
    BY <1>6
  <2>2. ~GoesDown(e, ex, 0, p[1])
    BY <1>3, <1>6 DEF GoesDown
  <2>3. 1 \notin 1 .. Len(p) - 1
    BY <1>5, <2>2, Zenon DEF LeadsDown
  <2>4. PICK l \in Nat : l = Len(p) /\ l >= 1 /\ 1 \notin 1 .. l - 1
    BY <2>1, <2>3
  <2>. QED
    BY <2>4
<1>8. PathIn(p, Len(p), 0 .. h.n - 1)
  BY <1>1, <1>6, <1>7 DEF PathIn
<1>9. PlacedBut(h, p[1]) /\ h.a[0] \notin HeldBut(h, p[1])
  BY <1>1, <1>6 DEF PlacedBut, HeldBut, TimersIn
<1>10. PICK g : g = Shifted(h, p, h.a[0])
  OBVIOUS
<1>11. g \in Heaps(N)
  <2>1. HasShifted(h, g, N, p, h.a[0])
    BY <1>1, <1>6, <1>8, <1>9, <1>10, ShiftPlaces, Zenon
  <2>. QED
    BY <2>1 DEF HasShifted
<1>12. PICK f : f = Popped(h, ex)
  OBVIOUS
<1>13. f = Shifted(e, p, h.a[0])
  BY <1>2, <1>3, <1>4, <1>12, Zenon DEF Popped, HeapDown
<1>14. f.a = g.a /\ f.n = 0 /\ f.pos = g.pos /\ f = [a |-> f.a, n |-> f.n, pos |-> f.pos]
  <2>1. PICK a, pos : a = ShiftArray(h.a, p, h.a[0]) /\ pos = ShiftIndex(a, h.pos, p)
    OBVIOUS
  <2>2. g = [h EXCEPT !.a = a, !.pos = pos]
    BY <1>10, <2>1, ShiftedIs, Zenon
  <2>3. f = [e EXCEPT !.a = a, !.pos = pos]
    BY <1>3, <1>13, <2>1, ShiftedIs, Zenon
  <2>4. h = [a |-> h.a, n |-> h.n, pos |-> h.pos]
    BY <1>1 DEF Heaps
  <2>5. e = [a |-> h.a, n |-> 0, pos |-> h.pos]
    BY <1>1, <1>2, <1>3, <2>4
  <2>. QED
    BY <2>2, <2>3, <2>4, <2>5
<1>15. f \in Heaps(N)
  BY <1>11, <1>14 DEF Heaps
<1>16. Placed(f) /\ InOrder(Times(f, ex), 0)
  BY <1>14 DEF Placed, PlacedBut, InOrder
<1>17. Held(f) = {} /\ set \ {h.a[0]} = {}
  BY <1>1, <1>14 DEF Held, TimersIn
<1>. QED
  BY <1>12, <1>14, <1>15, <1>16, <1>17, Zenon DEF Sound

LEMMA PopMore ==
  ASSUME NEW N \in Nat, NEW h, NEW n \in Nat, n > 1,
         NEW ex \in [Timers -> Nat], NEW set, Sound(h, N, n, ex, set)
  PROVE  Sound(Popped(h, ex), N, n - 1, ex, set \ {h.a[0]})
<1>1. /\ h \in Heaps(N) /\ h.n = n /\ n \in 0 .. N
      /\ \A i \in 0 .. n - 1 : h.a[i] \in Timers /\ h.pos[h.a[i]] = i
      /\ set = TimersIn(h.a, 0 .. n - 1)
      /\ \A i \in 0 .. n - 1 : Times(h, ex)[i] = ex[h.a[i]]
      /\ InOrder(Times(h, ex), n)
  <2>1. NodesSound(h, N, n, ex, set)
    BY SoundIs
  <2>. QED
    BY <2>1, Zenon DEF NodesSound
<1>2. PICK e : e = [h EXCEPT !.a[0] = h.a[h.n - 1], !.n = h.n - 1]
  OBVIOUS
<1>3. PICK t \in Timers : t = h.a[n - 1]
  BY <1>1
<1>4. /\ e \in Heaps(N) /\ e.n = n - 1 /\ e.pos = h.pos /\ e.a[0] = t
      /\ \A i \in 1 .. n - 1 : e.a[i] = h.a[i]
  <2>1. e = [a |-> [h.a EXCEPT ![0] = t], n |-> n - 1, pos |-> h.pos]
    BY <1>1, <1>2, <1>3 DEF Heaps
  <2>2. [h.a EXCEPT ![0] = t] \in [0 .. N - 1 -> Timers \cup {NULL}]
    BY <1>1 DEF Heaps
  <2>3. e \in Heaps(N)
    BY <1>1, <2>1, <2>2 DEF Heaps
  <2>. QED
    BY <1>1, <2>1, <2>3 DEF Heaps
<1>5. PICK m \in Nat : m = n - 1 /\ m > 0
  OBVIOUS
<1>6. \A i \in 1 .. m - 1 : i \in 1 .. n - 1 /\ i \in 0 .. n - 1 /\ i # n - 1
  BY <1>5
<1>7. PlacedBut(e, 0)
  <2>1. ASSUME NEW i \in 0 .. m - 1, i # 0 PROVE e.a[i] \in Timers /\ e.pos[e.a[i]] = i
    <3>1. i \in 1 .. n - 1 /\ i \in 0 .. n - 1
      BY <1>5, <2>1
    <3>. QED
      BY <1>1, <1>4, <3>1
  <2>. QED
    BY <1>4, <1>5, <2>1 DEF PlacedBut
<1>8. \A i \in 0 .. n - 1 : i # n - 1 => h.a[i] # t
  BY <1>1, <1>3
<1>9. HeldBut(e, 0) = TimersIn(h.a, 1 .. m - 1)
  <2>1. (0 .. m - 1) \ {0} = 1 .. m - 1
    OBVIOUS
  <2>2. HeldBut(e, 0) = TimersIn(e.a, 1 .. m - 1)
    BY <1>4, <1>5, <2>1 DEF HeldBut
  <2>. QED
    BY <1>4, <1>6, <2>2 DEF TimersIn
<1>10. t \notin HeldBut(e, 0)
  BY <1>6, <1>8, <1>9 DEF TimersIn
<1>11. HeldBut(e, 0) \cup {t} = set \ {h.a[0]}
  <2>1. ASSUME NEW u \in TimersIn(h.a, 1 .. m - 1) \cup {t} PROVE u \in set \ {h.a[0]}
    <3>1. PICK i \in 1 .. n - 1 : u = h.a[i]
      BY <1>3, <1>5, <1>6, <2>1 DEF TimersIn
    <3>2. i \in 0 .. n - 1 /\ 0 \in 0 .. n - 1 /\ i # 0
      OBVIOUS
    <3>3. h.a[i] # h.a[0]
      BY <1>1, <3>2
    <3>. QED
      BY <1>1, <3>1, <3>2, <3>3 DEF TimersIn
  <2>2. ASSUME NEW u \in set, u # h.a[0] PROVE u \in TimersIn(h.a, 1 .. m - 1) \cup {t}
    <3>1. PICK i \in 0 .. n - 1 : u = h.a[i]
      BY <1>1 DEF TimersIn
    <3>2. CASE i = n - 1
      BY <1>3, <3>1, <3>2
    <3>3. CASE i # n - 1
      <4>1. i \in 1 .. m - 1
        BY <1>5, <2>2, <3>1, <3>3
      <4>. QED
        BY <3>1, <4>1 DEF TimersIn
    <3>. QED
      BY <3>2, <3>3
  <2>. QED
    BY <1>9, <2>1, <2>2
<1>12. OrderAbove(Times(e, ex), e.n, 0)
  <2>1. ASSUME NEW i \in 1 .. m - 1, Up(i) # 0 PROVE Times(e, ex)[Up(i)] <= Times(e, ex)[i]
    <3>1. Up(i) \in 0 .. m - 1 /\ i \in 0 .. m - 1
      BY UpIn
    <3>2. Up(i) \in 1 .. n - 1 /\ i \in 1 .. n - 1 /\ Up(i) \in 0 .. n - 1 /\ i \in 0 .. n - 1
      BY <1>5, <2>1, <3>1
    <3>3. Times(e, ex)[Up(i)] = ex[e.a[Up(i)]] /\ Times(e, ex)[i] = ex[e.a[i]]
      BY <1>4, <1>5, <3>1 DEF Times
    <3>4. Times(h, ex)[Up(i)] <= Times(h, ex)[i]
      BY <1>1, <3>2 DEF InOrder
    <3>. QED
      BY <1>1, <1>4, <3>2, <3>3, <3>4
  <2>. QED
    BY <1>4, <1>5, <2>1 DEF OrderAbove
<1>13. Sound(HeapDown(e, ex, 0), N, e.n, ex, HeldBut(e, 0) \cup {e.a[0]})
  <2>1. 0 \in 0 .. e.n - 1
    BY <1>4, <1>5
  <2>. QED
    BY <1>4, <1>7, <1>10, <1>12, <2>1, DownSound, Zenon
<1>. QED
  BY <1>2, <1>4, <1>11, <1>13, Zenon DEF Popped

LEMMA PopSound ==
  ASSUME NEW N \in Nat, NEW h, NEW n \in Nat, n > 0,
         NEW ex \in [Timers -> Nat], NEW set, Sound(h, N, n, ex, set)
  PROVE  Sound(Popped(h, ex), N, n - 1, ex, set \ {h.a[0]})
<1>1. CASE n = 1
  <2>1. n - 1 = 0 /\ Sound(h, N, 1, ex, set)
    BY <1>1
  <2>. QED
    BY <2>1, PopLast, Zenon
<1>2. CASE n # 1
  <2>1. n > 1
    BY <1>2
  <2>. QED
    BY <2>1, PopMore, Zenon
<1>. QED
  BY <1>1, <1>2

\* f[k] is the heap after k pops.
IsPops(f, h, ex, n) == f = [k \in 0 .. n |-> IF k = 0 THEN h ELSE Popped(f[k - 1], ex)]

LEMMA PopsExist ==
  ASSUME NEW h, NEW ex, NEW n \in Nat
  PROVE  \E f : IsPops(f, h, ex, n)
<1>. DEFINE S == {m \in Nat : \E f : IsPops(f, h, ex, m)}
<1>1. 0 \in S
  <2>1. PICK f : f = [k \in 0 .. 0 |-> h]
    OBVIOUS
  <2>2. \A k \in 0 .. 0 : (IF k = 0 THEN h ELSE Popped(f[k - 1], ex)) = h
    OBVIOUS
  <2>3. f = [k \in 0 .. 0 |-> IF k = 0 THEN h ELSE Popped(f[k - 1], ex)]
    BY <2>1, <2>2, Zenon
  <2>. QED
    BY <2>3, Zenon DEF IsPops
<1>2. ASSUME NEW m \in Nat, m \in S PROVE m + 1 \in S
  <2>1. PICK f : IsPops(f, h, ex, m)
    BY <1>2
  <2>2. PICK g : g = [k \in 0 .. m + 1 |-> IF k = 0 THEN h ELSE Popped(f[k - 1], ex)]
    OBVIOUS
  <2>3. ASSUME NEW k \in 0 .. m + 1, k # 0 PROVE g[k - 1] = f[k - 1]
    <3>1. k - 1 \in 0 .. m /\ k - 1 \in 0 .. m + 1
      BY <2>3
    <3>. QED
      BY <2>1, <2>2, <3>1, Zenon DEF IsPops
  <2>4. \A k \in 0 .. m + 1 : (IF k = 0 THEN h ELSE Popped(f[k - 1], ex))
                              = (IF k = 0 THEN h ELSE Popped(g[k - 1], ex))
    BY <2>3, Zenon
  <2>5. IsPops(g, h, ex, m + 1)
    BY <2>2, <2>4, Zenon DEF IsPops
  <2>. QED
    BY <2>5
<1>. HIDE DEF S
<1>3. 0 .. n \subseteq S
  BY <1>1, <1>2, Count
<1>4. n \in S
  BY <1>3
<1>. QED
  BY <1>4 DEF S

\* The timers the first k pops have taken out
Out(f, k) == {f[j].a[0] : j \in 0 .. k - 1}

LEMMA PopsSound ==
  ASSUME NEW N \in Nat, NEW h, NEW n \in Nat, NEW ex \in [Timers -> Nat], NEW set,
         Sound(h, N, n, ex, set), NEW f, IsPops(f, h, ex, n)
  PROVE  \A k \in 0 .. n : Sound(f[k], N, n - k, ex, set \ Out(f, k))
<1>. DEFINE S == {k \in Nat : Sound(f[k], N, n - k, ex, set \ Out(f, k))}
<1>1. 0 \in S
  <2>1. Out(f, 0) = {} /\ n - 0 = n /\ 0 \in 0 .. n
    BY DEF Out
  <2>2. f[0] = h
    BY <2>1, Zenon DEF IsPops
  <2>3. set \ Out(f, 0) = set
    BY <2>1
  <2>4. Sound(f[0], N, n - 0, ex, set \ Out(f, 0))
    BY <2>1, <2>2, <2>3, Zenon
  <2>. QED
    BY <2>4
<1>2. ASSUME NEW k \in 0 .. n - 1, k \in S PROVE k + 1 \in S
  <2>1. PICK m \in Nat : m = n - k /\ m > 0
    OBVIOUS
  <2>2. Sound(Popped(f[k], ex), N, m - 1, ex, (set \ Out(f, k)) \ {f[k].a[0]})
    <3>1. Sound(f[k], N, m, ex, set \ Out(f, k))
      BY <1>2, <2>1
    <3>. QED
      BY <2>1, <3>1, PopSound, Zenon
  <2>3. f[k + 1] = Popped(f[k], ex)
    <3>1. k + 1 \in 0 .. n /\ k + 1 # 0 /\ (k + 1) - 1 = k
      OBVIOUS
    <3>2. f[k + 1] = Popped(f[(k + 1) - 1], ex)
      BY <3>1, Zenon DEF IsPops
    <3>. QED
      BY <3>1, <3>2, Zenon
  <2>4. (set \ Out(f, k)) \ {f[k].a[0]} = set \ Out(f, k + 1)
    <3>1. 0 .. (k + 1) - 1 = (0 .. k - 1) \cup {k}
      OBVIOUS
    <3>2. Out(f, k + 1) = Out(f, k) \cup {f[k].a[0]}
      BY <3>1, Zenon DEF Out
    <3>. QED
      BY <3>2
  <2>5. m - 1 = n - (k + 1)
    BY <2>1
  <2>6. Sound(f[k + 1], N, n - (k + 1), ex, set \ Out(f, k + 1))
    BY <2>2, <2>3, <2>4, <2>5, Zenon
  <2>. QED
    BY <2>6
<1>. HIDE DEF S
<1>3. 0 .. n \subseteq S
  BY <1>1, <1>2, Count
<1>. QED
  BY <1>3 DEF S

\* No two of the first last pops take out the same timer.
Distinct(f, last) == \A j, l \in 0 .. last - 1 : f[j].a[0] = f[l].a[0] => j = l

\* Popping until the root is still to come takes out what has expired, each timer once.
TakesDue(f, ex, set, c, last) ==
  /\ Out(f, last) = {t \in set : ex[t] <= c}
  /\ Distinct(f, last)

LEMMA PopsTakeDue ==
  ASSUME NEW N \in Nat, NEW h, NEW n \in Nat, NEW ex \in [Timers -> Nat], NEW set,
         Sound(h, N, n, ex, set), NEW f, IsPops(f, h, ex, n),
         NEW c \in Nat, NEW last \in 0 .. n,
         last < n => ~(ex[f[last].a[0]] <= c),
         \A j \in 0 .. last - 1 : ex[f[j].a[0]] <= c
  PROVE  TakesDue(f, ex, set, c, last)
<1>1. ASSUME NEW k \in 0 .. n PROVE NodesSound(f[k], N, n - k, ex, set \ Out(f, k))
  <2>1. n - k \in Nat
    OBVIOUS
  <2>2. \A j \in 0 .. n : Sound(f[j], N, n - j, ex, set \ Out(f, j))
    BY PopsSound, Zenon
  <2>3. Sound(f[k], N, n - k, ex, set \ Out(f, k))
    BY <2>2, Zenon
  <2>. QED
    BY <2>1, <2>3, SoundIs, Zenon
<1>2. ASSUME NEW k \in 0 .. n - 1
      PROVE  f[k].a[0] \in Timers /\ f[k].a[0] \in set \ Out(f, k)
  <2>1. k \in 0 .. n /\ 0 \in 0 .. (n - k) - 1
    OBVIOUS
  <2>2. f[k].a[0] \in Timers /\ set \ Out(f, k) = TimersIn(f[k].a, 0 .. (n - k) - 1)
    BY <1>1, <2>1 DEF NodesSound
  <2>3. f[k].a[0] \in TimersIn(f[k].a, 0 .. (n - k) - 1)
    BY <2>1, Zenon DEF TimersIn
  <2>. QED
    BY <2>2, <2>3
<1>3. ASSUME NEW t \in set, ex[t] <= c PROVE t \in Out(f, last)
  <2>. SUFFICES ASSUME t \notin Out(f, last) PROVE FALSE
    OBVIOUS
  <2>1. PICK m \in Nat : m = n - last
    OBVIOUS
  <2>2. PICK g : g = f[last]
    OBVIOUS
  <2>3. NodesSound(g, N, m, ex, set \ Out(f, last))
    BY <1>1, <2>1, <2>2
  <2>4. PICK v : v = Times(g, ex)
    OBVIOUS
  <2>5. /\ v \in [0 .. m - 1 -> Int] /\ InOrder(v, m)
        /\ \A i \in 0 .. m - 1 : v[i] = ex[g.a[i]]
        /\ set \ Out(f, last) = TimersIn(g.a, 0 .. m - 1)
    BY <2>3, <2>4, Zenon DEF NodesSound
  <2>6. PICK i \in 0 .. m - 1 : t = g.a[i]
    BY <2>5 DEF TimersIn
  <2>7. 0 \in 0 .. m - 1 /\ last < n
    BY <2>1, <2>6
  <2>8. v[0] <= v[i]
    BY <2>5, <2>6, RootLeast
  <2>9. v[0] \in Int /\ v[i] \in Int /\ v[0] = ex[g.a[0]] /\ v[i] = ex[t]
    BY <2>5, <2>6, <2>7
  <2>10. ~(v[0] <= c)
    BY <2>2, <2>7, <2>9
  <2>. QED
    BY <1>3, <2>8, <2>9, <2>10
<1>4. ASSUME NEW t \in Out(f, last) PROVE t \in set /\ ex[t] <= c
  <2>1. PICK j \in 0 .. last - 1 : t = f[j].a[0]
    BY DEF Out
  <2>2. j \in 0 .. n - 1
    OBVIOUS
  <2>. QED
    BY <1>2, <2>1, <2>2
<1>5. ASSUME NEW j \in 0 .. last - 1, NEW l \in 0 .. last - 1, f[j].a[0] = f[l].a[0]
      PROVE  j = l
  <2>1. \A a, b \in 0 .. last - 1 : a < b => f[a].a[0] \in Out(f, b)
    BY DEF Out
  <2>2. \A a \in 0 .. last - 1 : f[a].a[0] \notin Out(f, a)
    BY <1>2
  <2>3. ~(j < l) /\ ~(l < j)
    BY <1>5, <2>1, <2>2
  <2>. QED
    BY <2>3
<1>. QED
  BY <1>3, <1>4, <1>5 DEF TakesDue, Distinct
-----------------------------------------------------------------------------
(* The inductive invariant *)

\* A timer not made yet was never in the heap, nor fired.
Fresh == \A t \in Timers : t > made => fired[t] = 0 /\ ~InHeap(t)

\* No timer expires later than a refreshed one would: Refresh only moves to a later
\* time, so that sifting down is enough (timer.cpp:63).
Soon == \A t \in Timers : m_iExpireTime[t] <= now + Lifetime

Contents == TimersIn(m_aTimers, 0 .. m_iCurNum - 1)

HeapIs(set) == Sound(Heap, m_iCapacity, m_iCurNum, m_iExpireTime, set)

\* What holds of the rest of the state
Rest ==
  /\ m_iCapacity \in Nat \ {0} /\ m_iCurNum \in Nat
  /\ m_iExpireTime \in [Timers -> Nat]
  /\ callback \in [Timers -> BOOLEAN]
  /\ fired \in [Timers -> Nat]
  /\ made \in 0 .. MaxTimers /\ now \in 0 .. MaxClock
  /\ Fresh /\ Soon

HeapInv == Rest /\ HeapIs(Contents)

LEMMA HeapRecord ==
  /\ Heap.a = m_aTimers /\ Heap.n = m_iCurNum /\ Heap.pos = m_iPos
  /\ \A t : InHeap(t) <=> t \in Contents
BY DEF Heap, InHeap, Contents, TimersIn

LEMMA BecomesIs ==
  ASSUME NEW N, NEW h \in Heaps(N), Becomes(h)
  PROVE  Heap' = h /\ m_iCurNum' = h.n
BY DEF Heaps, Becomes, Heap

LEMMA InvNodes ==
  ASSUME HeapInv
  PROVE  /\ Heap \in Heaps(m_iCapacity) /\ m_iCurNum \in 0 .. m_iCapacity
         /\ \A i \in 0 .. m_iCurNum - 1 : m_aTimers[i] \in Timers /\ m_iPos[m_aTimers[i]] = i
         /\ \A i \in 0 .. m_iCurNum - 1 : Times(Heap, m_iExpireTime)[i] = m_iExpireTime[m_aTimers[i]]
         /\ InOrder(Times(Heap, m_iExpireTime), m_iCurNum)
<1>1. NodesSound(Heap, m_iCapacity, m_iCurNum, m_iExpireTime, Contents)
  BY SoundIs DEF HeapInv, Rest, HeapIs
<1>. QED
  BY <1>1, HeapRecord, Zenon DEF NodesSound

LEMMA InvImplies == HeapInv => TypeOK /\ HeapSound
<1>. SUFFICES ASSUME HeapInv PROVE TypeOK /\ HeapSound
  OBVIOUS
<1>1. Heap \in Heaps(m_iCapacity) /\ m_iCurNum \in 0 .. m_iCapacity
  BY InvNodes
<1>2. TypeOK
  <2>1. /\ m_aTimers \in [0 .. m_iCapacity - 1 -> Timers \cup {NULL}]
        /\ m_iPos \in [Timers -> 0 .. m_iCapacity - 1]
    BY <1>1, HeapRecord DEF Heaps
  <2>2. \A i \in 0 .. m_iCurNum - 1 : m_aTimers[i] \in Timers
    BY InvNodes
  <2>. QED
    BY <1>1, <2>1, <2>2 DEF HeapInv, Rest, TypeOK
<1>3. HeapOrder
  <2>1. ASSUME NEW i \in 1 .. m_iCurNum - 1
        PROVE  m_iExpireTime[m_aTimers[(i - 1) \div 2]] <= m_iExpireTime[m_aTimers[i]]
    <3>1. Up(i) \in 0 .. m_iCurNum - 1 /\ i \in 0 .. m_iCurNum - 1
      BY <1>1, UpIn
    <3>2. Times(Heap, m_iExpireTime)[Up(i)] <= Times(Heap, m_iExpireTime)[i]
      BY InvNodes DEF InOrder
    <3>. QED
      BY <3>1, <3>2, InvNodes DEF Up
  <2>. QED
    BY <2>1 DEF HeapOrder
<1>4. PositionsRight
  BY InvNodes DEF PositionsRight
<1>. QED
  BY <1>2, <1>3, <1>4 DEF HeapSound

LEMMA InitInv == Init => HeapInv
<1>. SUFFICES ASSUME Init PROVE HeapInv
  OBVIOUS
<1>1. m_iCurNum = 0 /\ Contents = {}
  BY DEF Init, Contents, TimersIn
<1>2. Rest
  BY <1>1, HeapRecord, HeapAssumption DEF Init, Rest, Fresh, Soon
<1>3. Heap \in Heaps(m_iCapacity)
  BY HeapAssumption DEF Init, Heap, Heaps
<1>4. Sound(Heap, m_iCapacity, m_iCurNum, m_iExpireTime, Contents)
  BY <1>1, <1>3, HeapRecord DEF Sound, Placed, PlacedBut, Held, TimersIn, InOrder
<1>. QED
  BY <1>2, <1>4 DEF HeapInv, HeapIs

-----------------------------------------------------------------------------
(* The steps *)

\* AddTimer: the heap has one more, and any other timer expires when it did.
AddTimerDone(t) ==
  /\ m_iCapacity' \in Nat \ {0} /\ m_iCurNum' \in Nat
  /\ Sound(Heap', m_iCapacity', m_iCurNum', m_iExpireTime', Contents \cup {t})

LEMMA AddTimerAdds ==
  ASSUME HeapInv, AddTimer
  PROVE  made + 1 \in Timers /\ AddTimerDone(made + 1)
<1>1. PICK t : t = made + 1
  OBVIOUS
<1>2. t \in Timers /\ t > made /\ t \notin Contents
  BY <1>1, HeapAssumption, HeapRecord DEF AddTimer, HeapInv, Rest, Fresh, Timers
<1>3. PICK N : N = NewCapacity
  OBVIOUS
<1>4. /\ N \in Nat \ {0} /\ N >= m_iCapacity /\ m_iCurNum + 1 \in 0 .. N
      /\ Resized \in [0 .. N - 1 -> Timers \cup {NULL}]
      /\ \A i \in 0 .. m_iCurNum - 1 : Resized[i] = m_aTimers[i]
  <2>1. /\ m_iCapacity \in Nat \ {0} /\ m_iCurNum \in 0 .. m_iCapacity
        /\ m_aTimers \in [0 .. m_iCapacity - 1 -> Timers \cup {NULL}]
    BY InvImplies DEF TypeOK
  <2>2. CASE Full
    <3>1. N = 2 * m_iCapacity /\ m_iCurNum = m_iCapacity
      BY <1>3, <2>1, <2>2 DEF Full, NewCapacity
    <3>2. Resized = [i \in 0 .. N - 1 |-> IF i < m_iCurNum THEN m_aTimers[i] ELSE NULL]
      BY <2>2, <3>1 DEF Resized
    <3>. QED
      BY <2>1, <3>1, <3>2
  <2>3. CASE ~Full
    BY <1>3, <2>1, <2>3 DEF Full, NewCapacity, Resized
  <2>. QED
    BY <2>2, <2>3
<1>5. PICK h : h = [a |-> Resized, n |-> m_iCurNum + 1, pos |-> m_iPos]
  OBVIOUS
<1>6. h.n = m_iCurNum + 1 /\ h.a = Resized /\ h.pos = m_iPos /\ h.n - 1 = m_iCurNum
  BY <1>5 DEF HeapInv, Rest
<1>7. h \in Heaps(N)
  <2>1. m_iPos \in [Timers -> 0 .. N - 1]
    BY <1>4, InvImplies DEF TypeOK
  <2>. QED
    BY <1>4, <1>5, <2>1 DEF Heaps
<1>8. PICK ex : ex = m_iExpireTime'
  OBVIOUS
<1>9. ex \in [Timers -> Nat] /\ \A u \in Timers : u # t => ex[u] = m_iExpireTime[u]
  <2>1. PICK d \in Delays : ex = [m_iExpireTime EXCEPT ![t] = now + d]
    BY <1>1, <1>8 DEF AddTimer
  <2>2. now + d \in Nat
    BY HeapAssumption DEF HeapInv, Rest
  <2>. QED
    BY <1>2, <2>1, <2>2 DEF HeapInv, Rest
<1>10. HeldBut(h, h.n - 1) = Contents
  <2>1. (0 .. h.n - 1) \ {h.n - 1} = 0 .. m_iCurNum - 1
    BY <1>6 DEF HeapInv, Rest
  <2>. QED
    BY <1>4, <1>6, <2>1 DEF HeldBut, Contents, TimersIn
<1>11. PlacedBut(h, h.n - 1)
  <2>1. ASSUME NEW i \in 0 .. h.n - 1, i # h.n - 1 PROVE h.a[i] \in Timers /\ h.pos[h.a[i]] = i
    <3>1. i \in 0 .. m_iCurNum - 1
      BY <1>6, <2>1 DEF HeapInv, Rest
    <3>. QED
      BY <1>4, <1>6, <3>1, InvNodes
  <2>. QED
    BY <2>1 DEF PlacedBut
<1>12. InOrder(Times(h, ex), h.n - 1)
  <2>1. ASSUME NEW i \in 1 .. m_iCurNum - 1 PROVE Times(h, ex)[Up(i)] <= Times(h, ex)[i]
    <3>1. Up(i) \in 0 .. m_iCurNum - 1 /\ i \in 0 .. m_iCurNum - 1
      BY UpIn DEF HeapInv, Rest
    <3>2. ASSUME NEW j \in 0 .. m_iCurNum - 1
          PROVE  Times(h, ex)[j] = Times(Heap, m_iExpireTime)[j]
      <4>1. j \in 0 .. h.n - 1
        BY <1>6 DEF HeapInv, Rest
      <4>2. Times(h, ex)[j] = ex[m_aTimers[j]]
        BY <1>4, <1>6, <4>1 DEF Times
      <4>3. m_aTimers[j] \in Timers /\ m_aTimers[j] # t
        BY <1>2, InvNodes DEF Contents, TimersIn
      <4>4. Times(Heap, m_iExpireTime)[j] = m_iExpireTime[m_aTimers[j]]
        BY InvNodes
      <4>. QED
        BY <1>9, <4>2, <4>3, <4>4
    <3>3. Times(Heap, m_iExpireTime)[Up(i)] <= Times(Heap, m_iExpireTime)[i]
      BY InvNodes DEF InOrder
    <3>. QED
      BY <3>1, <3>2, <3>3
  <2>. QED
    BY <1>6, <2>1 DEF InOrder
<1>13. PICK g : g = Shifted(h, UpPath(h, ex, t, h.n - 1), t)
  OBVIOUS
<1>14. Sound(g, N, h.n, ex, HeldBut(h, h.n - 1) \cup {t})
  <2>1. h.n > 0 /\ N \in Nat /\ t \notin HeldBut(h, h.n - 1)
    BY <1>2, <1>4, <1>6, <1>10 DEF HeapInv, Rest
  <2>. QED
    BY <1>2, <1>7, <1>9, <1>11, <1>12, <1>13, <2>1, UpSound, Zenon
<1>15. Becomes(g) /\ m_iCapacity' = N
  BY <1>1, <1>3, <1>5, <1>6, <1>8, <1>13, Zenon DEF AddTimer
<1>16. g \in Heaps(N) /\ g.n = h.n
  BY <1>14 DEF Sound
<1>17. Heap' = g /\ m_iCurNum' = m_iCurNum + 1
  BY <1>6, <1>15, <1>16, BecomesIs
<1>. QED
  BY <1>1, <1>2, <1>4, <1>6, <1>8, <1>10, <1>14, <1>15, <1>17 DEF AddTimerDone, HeapInv, Rest

LEMMA RefreshKeeps ==
  ASSUME HeapInv, NEW t \in Timers, Refresh(t)
  PROVE  m_iCurNum' \in Nat /\ Sound(Heap', m_iCapacity, m_iCurNum', m_iExpireTime', Contents)
<1>1. PICK node \in 0 .. m_iCurNum - 1 : m_aTimers[node] = t /\ m_iPos[t] = node
  <2>1. PICK i \in 0 .. m_iCurNum - 1 : m_aTimers[i] = t
    BY DEF Refresh, InHeap
  <2>2. m_iPos[t] = i
    BY <2>1, InvNodes
  <2>. QED
    BY <2>1, <2>2
<1>2. PICK n \in Nat : n = m_iCurNum
  BY DEF HeapInv, Rest
<1>3. PICK h \in Heaps(m_iCapacity) : h = Heap
  BY InvNodes
<1>4. h.n = n /\ h.a = m_aTimers /\ h.pos = m_iPos /\ h.a[node] = t /\ node \in 0 .. h.n - 1
  BY <1>1, <1>2, <1>3, HeapRecord
<1>5. PICK ex : ex = m_iExpireTime'
  OBVIOUS
<1>6. /\ ex \in [Timers -> Nat] /\ ex[t] >= m_iExpireTime[t]
      /\ \A u \in Timers : u # t => ex[u] = m_iExpireTime[u]
  <2>1. ex = [m_iExpireTime EXCEPT ![t] = now + Lifetime]
    BY <1>5 DEF Refresh
  <2>2. now + Lifetime \in Nat /\ m_iExpireTime[t] <= now + Lifetime
    BY HeapAssumption DEF HeapInv, Rest, Soon
  <2>. QED
    BY <2>1, <2>2 DEF HeapInv, Rest
<1>7. \A i \in 0 .. n - 1 : h.a[i] \in Timers /\ h.pos[h.a[i]] = i /\ (i # node => h.a[i] # t)
  BY <1>1, <1>2, <1>4, InvNodes
<1>8. PlacedBut(h, node)
  BY <1>4, <1>7 DEF PlacedBut
<1>9. h.a[node] \notin HeldBut(h, node)
  BY <1>4, <1>7 DEF HeldBut, TimersIn
<1>10. PICK old : old = [i \in 0 .. n - 1 |-> m_iExpireTime[h.a[i]]]
  OBVIOUS
<1>11. PICK v : v = Times(h, ex)
  OBVIOUS
<1>12. /\ \A i \in 0 .. n - 1 : old[i] \in Int /\ v[i] \in Int /\ v[i] >= old[i]
       /\ \A i \in 0 .. n - 1 : i # node => v[i] = old[i]
  <2>1. ASSUME NEW i \in 0 .. n - 1
        PROVE  /\ old[i] \in Int /\ v[i] \in Int /\ v[i] >= old[i]
               /\ i # node => v[i] = old[i]
    <3>1. old[i] = m_iExpireTime[h.a[i]] /\ v[i] = ex[h.a[i]]
      BY <1>4, <1>10, <1>11 DEF Times
    <3>2. m_iExpireTime[h.a[i]] \in Nat /\ ex[h.a[i]] \in Nat
      BY <1>6, <1>7 DEF HeapInv, Rest
    <3>3. CASE h.a[i] = t
      BY <1>6, <1>7, <3>1, <3>2, <3>3
    <3>4. CASE h.a[i] # t
      BY <1>6, <1>7, <3>1, <3>2, <3>4
    <3>. QED
      BY <3>3, <3>4
  <2>. QED
    BY <2>1
<1>13. ASSUME NEW i \in 1 .. n - 1
       PROVE  /\ old[Up(i)] <= old[i] /\ Up(i) \in 0 .. n - 1 /\ i \in 0 .. n - 1
              /\ Up(i) < i
  <2>1. Up(i) \in 0 .. n - 1 /\ i \in 0 .. n - 1 /\ Up(i) < i
    BY UpIn
  <2>2. Times(Heap, m_iExpireTime)[Up(i)] <= Times(Heap, m_iExpireTime)[i]
    BY <1>2, InvNodes DEF InOrder
  <2>3. Times(Heap, m_iExpireTime) = old
    BY <1>2, <1>3, <1>4, <1>10 DEF Times
  <2>. QED
    BY <2>1, <2>2, <2>3
<1>14. OrderAbove(v, n, node)
  <2>1. ASSUME NEW i \in 1 .. n - 1, Up(i) # node PROVE v[Up(i)] <= v[i]
    BY <1>12, <1>13, <2>1
  <2>2. ASSUME NEW i \in 1 .. n - 1, Up(i) = node, node > 0 PROVE v[Up(node)] <= v[i]
    <3>1. node \in 1 .. n - 1
      BY <1>2, <2>2
    <3>2. Up(node) \in 0 .. n - 1 /\ Up(node) # node /\ old[Up(node)] <= old[node]
      BY <1>13, <3>1
    <3>3. old[node] <= old[i] /\ i \in 0 .. n - 1 /\ i # node
      BY <1>13, <2>2
    <3>. QED
      BY <1>12, <3>1, <3>2, <3>3
  <2>. QED
    BY <2>1, <2>2, Zenon DEF OrderAbove
<1>15. PICK g : g = HeapDown(h, ex, node)
  OBVIOUS
<1>16. Sound(g, m_iCapacity, h.n, ex, HeldBut(h, node) \cup {h.a[node]})
  <2>1. m_iCapacity \in Nat /\ h.a[node] \in Timers /\ OrderAbove(Times(h, ex), h.n, node)
    BY <1>4, <1>11, <1>14 DEF HeapInv, Rest
  <2>. QED
    BY <1>4, <1>6, <1>8, <1>9, <1>15, <2>1, DownSound, Zenon
<1>17. HeldBut(h, node) \cup {h.a[node]} = Contents
  BY <1>1, <1>2, <1>4 DEF HeldBut, Contents, TimersIn
<1>18. Becomes(g)
  BY <1>1, <1>3, <1>5, <1>15, Zenon DEF Refresh
<1>19. g \in Heaps(m_iCapacity) /\ g.n = n
  BY <1>4, <1>16 DEF Sound
<1>20. Heap' = g /\ m_iCurNum' = n
  BY <1>18, <1>19, BecomesIs
<1>. QED
  BY <1>4, <1>5, <1>16, <1>17, <1>20

\* The timers a Tick takes out
Expired == {t \in Contents : m_iExpireTime[t] <= now}

\* Tick: they are gone, and the callbacks they had were called once.
TickDone ==
  /\ m_iCurNum' \in Nat
  /\ Sound(Heap', m_iCapacity, m_iCurNum', m_iExpireTime, Contents \ Expired)
  /\ fired' = [t \in Timers |-> fired[t] + IF t \in Expired /\ callback[t] THEN 1 ELSE 0]

LEMMA AfterPopsIs ==
  ASSUME m_iCurNum \in Nat
  PROVE  IsPops(AfterPops, Heap, m_iExpireTime, m_iCurNum)
<1>1. \E f : IsPops(f, Heap, m_iExpireTime, m_iCurNum)
  BY PopsExist
<1>. QED
  BY <1>1, Zenon DEF AfterPops, IsPops

\* calls of Tick holds the pops that took t out, at most one.
CallsRight(f, last, t, has) ==
  Cardinality({k \in 0 .. last - 1 : f[k].a[0] = t /\ has})
    = IF t \in Out(f, last) /\ has THEN 1 ELSE 0

LEMMA CallsOnce ==
  ASSUME NEW last \in Nat, NEW f, NEW t, NEW has \in BOOLEAN, Distinct(f, last)
  PROVE  CallsRight(f, last, t, has)
<1>. DEFINE calls == {k \in 0 .. last - 1 : f[k].a[0] = t /\ has}
<1>1. CASE t \in Out(f, last) /\ has
  <2>1. PICK k \in 0 .. last - 1 : f[k].a[0] = t
    BY <1>1 DEF Out
  <2>2. calls = {k}
    BY <1>1, <2>1 DEF Distinct
  <2>3. Cardinality({k}) = 1
    BY FS_Singleton
  <2>. QED
    BY <1>1, <2>2, <2>3 DEF CallsRight
<1>2. CASE ~(t \in Out(f, last) /\ has)
  <2>1. calls = {}
    BY <1>2 DEF Out
  <2>2. Cardinality({}) = 0
    BY FS_EmptySet
  <2>. QED
    BY <1>2, <2>1, <2>2 DEF CallsRight
<1>. QED
  BY <1>1, <1>2

LEMMA TickTakes ==
  ASSUME HeapInv, Tick
  PROVE  TickDone
<1>. DEFINE due(k) == k < m_iCurNum /\ m_iExpireTime[AfterPops[k].a[0]] <= now
            first(k) == ~due(k) /\ \A j \in 0 .. k - 1 : due(j)
            last == CHOOSE k \in 0 .. m_iCurNum : first(k)
<1>1. /\ m_iCurNum \in Nat /\ m_iExpireTime \in [Timers -> Nat] /\ now \in Nat
      /\ m_iCapacity \in Nat /\ callback \in [Timers -> BOOLEAN]
      /\ Sound(Heap, m_iCapacity, m_iCurNum, m_iExpireTime, Contents)
  BY DEF HeapInv, Rest, HeapIs
<1>2. /\ Becomes(AfterPops[last])
      /\ fired' = [t \in Timers |->
                     fired[t] + Cardinality({k \in 0 .. last - 1 :
                                               AfterPops[k].a[0] = t /\ callback[t]})]
  BY Zenon DEF Tick, Due
<1>3. \E k \in 0 .. m_iCurNum : first(k)
  <2>. DEFINE T == {k \in 0 .. m_iCurNum : ~due(k)}
  <2>1. m_iCurNum \in T /\ T \in SUBSET Nat
    BY <1>1
  <2>2. PICK k \in T : \A j \in T : k <= j
    BY <2>1, LeastOf
  <2>3. ASSUME NEW j \in 0 .. k - 1 PROVE due(j)
    <3>1. j \in 0 .. m_iCurNum /\ ~(k <= j)
      BY <1>1
    <3>2. j \notin T
      BY <2>2, <3>1
    <3>. QED
      BY <3>1, <3>2
  <2>. QED
    BY <2>2, <2>3
<1>4. last \in 0 .. m_iCurNum /\ first(last)
  <2>. HIDE DEF first
  <2>. QED
    BY <1>3, Zenon
<1>. HIDE DEF last
<1>5. PICK f : f = AfterPops
  OBVIOUS
<1>6. IsPops(f, Heap, m_iExpireTime, m_iCurNum)
  BY <1>1, <1>5, AfterPopsIs
<1>7. TakesDue(f, m_iExpireTime, Contents, now, last)
  <2>1. last < m_iCurNum => ~(m_iExpireTime[f[last].a[0]] <= now)
    BY <1>4, <1>5
  <2>2. \A j \in 0 .. last - 1 : m_iExpireTime[f[j].a[0]] <= now
    BY <1>4, <1>5
  <2>. QED
    BY <1>1, <1>4, <1>6, <2>1, <2>2, PopsTakeDue
<1>8. Out(f, last) = Expired /\ Distinct(f, last)
  BY <1>7 DEF TakesDue, Expired
<1>9. Sound(f[last], m_iCapacity, m_iCurNum - last, m_iExpireTime, Contents \ Expired)
  <2>1. \A k \in 0 .. m_iCurNum :
          Sound(f[k], m_iCapacity, m_iCurNum - k, m_iExpireTime, Contents \ Out(f, k))
    BY <1>1, <1>6, PopsSound, Zenon
  <2>. QED
    BY <1>4, <1>8, <2>1, Zenon
<1>10. f[last] \in Heaps(m_iCapacity) /\ f[last].n = m_iCurNum - last
  BY <1>9 DEF Sound
<1>11. Heap' = f[last] /\ m_iCurNum' = m_iCurNum - last /\ m_iCurNum - last \in Nat
  BY <1>1, <1>2, <1>4, <1>5, <1>10, BecomesIs
<1>12. ASSUME NEW t \in Timers
       PROVE  Cardinality({k \in 0 .. last - 1 : f[k].a[0] = t /\ callback[t]})
                = IF t \in Expired /\ callback[t] THEN 1 ELSE 0
  <2>1. last \in Nat /\ callback[t] \in BOOLEAN
    BY <1>1, <1>4
  <2>2. CallsRight(f, last, t, callback[t])
    BY <1>8, <2>1, CallsOnce, Zenon
  <2>. QED
    BY <1>8, <2>2, Zenon DEF CallsRight
<1>13. fired' = [t \in Timers |-> fired[t] + IF t \in Expired /\ callback[t] THEN 1 ELSE 0]
  BY <1>2, <1>5, <1>12, Zenon
<1>. QED
  BY <1>9, <1>11, <1>13, Zenon DEF TickDone

LEMMA NewContents ==
  ASSUME NEW set, NEW N, NEW ex, Sound(Heap', N, m_iCurNum', ex, set)
  PROVE  Contents' = set
BY DEF Sound, Held, Contents, Heap

\* The invariant of a step, from the heap it leaves and the rest of the state
LEMMA InvAfter ==
  ASSUME NEW set, Sound(Heap', m_iCapacity', m_iCurNum', m_iExpireTime', set),
         m_iCapacity' \in Nat \ {0}, m_iCurNum' \in Nat,
         m_iExpireTime' \in [Timers -> Nat], callback' \in [Timers -> BOOLEAN],
         fired' \in [Timers -> Nat], made' \in 0 .. MaxTimers, now' \in 0 .. MaxClock,
         \A t \in Timers : m_iExpireTime'[t] <= now' + Lifetime,
         \A t \in Timers : t > made' => fired'[t] = 0 /\ t \notin set
  PROVE  HeapInv'
<1>2. Contents' = set
  BY NewContents
<1>3. \A t : InHeap(t)' <=> t \in set
  BY <1>2 DEF InHeap, Contents, TimersIn
<1>4. Fresh' /\ Soon'
  BY <1>3 DEF Fresh, Soon
<1>5. HeapIs(Contents)'
  BY <1>2, Zenon DEF HeapIs
<1>. QED
  BY <1>2, <1>4, <1>5 DEF HeapInv, Rest

LEMMA NextInv == HeapInv /\ [Next]_vars => HeapInv'
<1>. SUFFICES ASSUME HeapInv, [Next]_vars PROVE HeapInv'
  OBVIOUS
<1>0. /\ m_iCapacity \in Nat \ {0} /\ m_iCurNum \in Nat
      /\ m_iExpireTime \in [Timers -> Nat] /\ callback \in [Timers -> BOOLEAN]
      /\ fired \in [Timers -> Nat] /\ made \in 0 .. MaxTimers /\ now \in 0 .. MaxClock
      /\ \A t \in Timers : m_iExpireTime[t] <= now + Lifetime
      /\ \A t \in Timers : t > made => fired[t] = 0 /\ t \notin Contents
  BY HeapRecord DEF HeapInv, Rest, Fresh, Soon
<1>1. CASE AddTimer
  <2>1. PICK t \in Timers : t = made + 1 /\ AddTimerDone(t)
    BY <1>1, AddTimerAdds
  <2>2. PICK d \in Delays : m_iExpireTime' = [m_iExpireTime EXCEPT ![t] = now + d]
    BY <1>1, <2>1 DEF AddTimer
  <2>3. now + d \in Nat /\ now + d <= now + Lifetime
    BY <1>0, HeapAssumption
  <2>4. /\ m_iExpireTime' \in [Timers -> Nat]
        /\ \A u \in Timers : m_iExpireTime'[u] <= now + Lifetime
    BY <1>0, <2>2, <2>3
  <2>5. callback' \in [Timers -> BOOLEAN] /\ fired' = fired /\ now' = now /\ made' = made + 1
        /\ made' \in 0 .. MaxTimers
    BY <1>0, <1>1, <2>1, HeapAssumption DEF AddTimer
  <2>6. \A u \in Timers : u > made' => fired'[u] = 0 /\ u \notin Contents \cup {t}
    BY <1>0, <2>1, <2>5 DEF Timers
  <2>. QED
    BY <1>0, <2>1, <2>4, <2>5, <2>6, InvAfter DEF AddTimerDone
<1>2. ASSUME NEW t \in Timers, Refresh(t) PROVE HeapInv'
  <2>1. m_iCurNum' \in Nat /\ Sound(Heap', m_iCapacity, m_iCurNum', m_iExpireTime', Contents)
    BY <1>2, RefreshKeeps
  <2>2. /\ m_iExpireTime' = [m_iExpireTime EXCEPT ![t] = now + Lifetime]
        /\ UNCHANGED <<m_iCapacity, callback, fired, made, now>>
    BY <1>2 DEF Refresh
  <2>3. /\ m_iExpireTime' \in [Timers -> Nat]
        /\ \A u \in Timers : m_iExpireTime'[u] <= now + Lifetime
    BY <1>0, <2>2, HeapAssumption
  <2>. QED
    BY <1>0, <2>1, <2>2, <2>3, InvAfter
<1>3. ASSUME NEW t \in Timers, DelTimer(t) PROVE HeapInv'
  <2>1. UNCHANGED <<array, m_iExpireTime, fired, made, now>>
        /\ callback' \in [Timers -> BOOLEAN]
    BY <1>0, <1>3 DEF DelTimer
  <2>2. UNCHANGED <<m_iCapacity, m_iCurNum, Heap>>
    BY <2>1 DEF array, Heap
  <2>. QED
    BY <1>0, <2>1, <2>2, InvAfter DEF HeapInv, HeapIs
<1>4. CASE Tick
  <2>1. TickDone
    BY <1>4, TickTakes
  <2>2. UNCHANGED <<m_iCapacity, m_iExpireTime, callback, made, now>>
    BY <1>4 DEF Tick
  <2>3. fired' \in [Timers -> Nat] /\ \A t \in Timers \ Contents : fired'[t] = fired[t]
    BY <1>0, <2>1 DEF TickDone, Expired
  <2>. QED
    BY <1>0, <2>1, <2>2, <2>3, InvAfter DEF TickDone
<1>5. CASE ClockTick
  <2>1. UNCHANGED <<array, m_iExpireTime, callback, fired, made>> /\ now' = now + 1
        /\ now' \in 0 .. MaxClock
    BY <1>0, <1>5, HeapAssumption DEF ClockTick
  <2>2. UNCHANGED <<m_iCapacity, m_iCurNum, Heap>>
    BY <2>1 DEF array, Heap
  <2>3. \A t \in Timers : m_iExpireTime'[t] <= now' + Lifetime
    BY <1>0, <2>1, HeapAssumption
  <2>. QED
    BY <1>0, <2>1, <2>2, <2>3, InvAfter DEF HeapInv, HeapIs
<1>6. CASE UNCHANGED vars
  <2>1. UNCHANGED <<m_iCapacity, m_iCurNum, m_iExpireTime, callback, fired, made, now, Heap>>
    BY <1>6 DEF vars, array, Heap
  <2>. QED
    BY <1>0, <2>1, InvAfter DEF HeapInv, HeapIs
<1>. QED
  BY <1>1, <1>2, <1>3, <1>4, <1>5, <1>6 DEF Next

-----------------------------------------------------------------------------
(* The theorems *)

\* The seconds every timer has left
Left == [t \in Timers |-> IF m_iExpireTime[t] > now THEN m_iExpireTime[t] - now ELSE 0]

\* A timer set to expire in d seconds has d left.
LEMMA LeftSet ==
  ASSUME NEW t \in Timers, NEW d \in Nat, m_iExpireTime \in [Timers -> Nat], now \in Nat,
         m_iExpireTime' = [m_iExpireTime EXCEPT ![t] = now + d], now' = now
  PROVE  Left' = [Left EXCEPT ![t] = d]
<1>1. \A u \in Timers : m_iExpireTime'[u] = IF u = t THEN now + d ELSE m_iExpireTime[u]
  OBVIOUS
<1>2. Left' \in [Timers -> Nat] /\ [Left EXCEPT ![t] = d] \in [Timers -> Nat]
  BY <1>1 DEF Left
<1>3. \A u \in Timers : Left'[u] = [Left EXCEPT ![t] = d][u]
  BY <1>1 DEF Left
<1>. QED
  BY <1>2, <1>3

LEMMA AlwaysInv == Spec => []HeapInv
BY InitInv, NextInv, PTL DEF Spec

\* The array has a place for every index and a timer in every node the heap uses,
\* whatever Resize copied and HeapDown and AddTimer moved (timer.cpp:26-132).
THEOREM HeapTypeCorrect == Spec => []TypeOK
BY AlwaysInv, InvImplies, PTL

\* No timer expires before its parent, and every timer knows the node it is in:
\* Adjust may start at m_iPos and sift down only (timer.cpp:63-64).
THEOREM HeapStaysSound == Spec => []HeapSound
BY AlwaysInv, InvImplies, PTL

\* The array heap is the set of timers EventLoop works with: AddTimer and Adjust lose
\* none and double none, and a Tick takes out those that have expired and no other,
\* calling each of their callbacks once (timer.cpp:69-82).
THEOREM HeapImplementsTimerSet == Spec => ImplementsTimerSet
<1>1. Init => Set!Init
  BY HeapAssumption DEF Init, Set!Init, Timers
<1>2. HeapInv /\ [Next]_vars => [Set!Next]_(Set!vars)
  <2>. SUFFICES ASSUME HeapInv, [Next]_vars
                PROVE  Set!Next \/ UNCHANGED <<Contents, callback, Left, fired>>
    BY DEF Set!vars, Contents, Left, TimersIn
  <2>0. /\ m_iExpireTime \in [Timers -> Nat] /\ now \in Nat /\ Lifetime \in Nat
        /\ \A t : InHeap(t) <=> t \in Contents
        /\ \A t \in Timers : t > made => fired[t] = 0 /\ t \notin Contents
        /\ Contents \subseteq Timers
    BY HeapRecord, InvImplies, HeapAssumption
    DEF HeapInv, Rest, Fresh, TypeOK, Contents, TimersIn
  <2>1. CASE AddTimer
    <3>1. PICK t \in Timers : t = made + 1 /\ AddTimerDone(t)
      BY <2>1, AddTimerAdds
    <3>2. Contents' = Contents \cup {t}
      BY <3>1, NewContents DEF AddTimerDone
    <3>3. PICK d \in Delays : m_iExpireTime' = [m_iExpireTime EXCEPT ![t] = now + d]
      BY <2>1, <3>1 DEF AddTimer
    <3>4. now' = now /\ d \in 0 .. Lifetime /\ d \in Nat
      BY <2>1, HeapAssumption DEF AddTimer
    <3>5. Left' = [Left EXCEPT ![t] = d]
      BY <2>0, <3>3, <3>4, LeftSet, Zenon
    <3>6. fired[t] = 0 /\ t \notin Contents
      BY <2>0, <3>1 DEF HeapInv, Rest
    <3>7. Set!AddTimer(t)
      BY <2>1, <3>1, <3>2, <3>4, <3>5, <3>6 DEF AddTimer, Set!AddTimer, Contents, Left, TimersIn
    <3>. QED
      BY <3>7 DEF Set!Next
  <2>2. ASSUME NEW t \in Timers, Refresh(t) PROVE Set!Next
    <3>1. Contents' = Contents
      BY <2>2, RefreshKeeps, NewContents
    <3>2. Left' = [Left EXCEPT ![t] = Lifetime]
      BY <2>0, <2>2, LeftSet, Zenon DEF Refresh
    <3>3. Set!Refresh(t)
      BY <2>0, <2>2, <3>1, <3>2 DEF Refresh, Set!Refresh, Contents, Left, TimersIn
    <3>. QED
      BY <3>3 DEF Set!Next
  <2>3. ASSUME NEW t \in Timers, DelTimer(t) PROVE Set!Next
    <3>1. Contents' = Contents /\ Left' = Left
      BY <2>3 DEF DelTimer, array, Contents, Left
    <3>2. Set!DelTimer(t)
      BY <2>0, <2>3, <3>1 DEF DelTimer, Set!DelTimer, Contents, Left, TimersIn
    <3>. QED
      BY <3>2 DEF Set!Next
  <2>4. CASE Tick
    <3>1. TickDone
      BY <2>4, TickTakes
    <3>2. Contents' = Contents \ Expired
      BY <3>1, NewContents DEF TickDone
    <3>3. Left' = Left
      BY <2>4 DEF Tick, Left
    <3>4. Expired = {t \in Contents : Left[t] = 0}
      BY <2>0 DEF Expired, Left
    <3>5. Set!Tick
      BY <2>4, <3>1, <3>2, <3>3, <3>4
      DEF Tick, TickDone, Set!Tick, Contents, Left, TimersIn
    <3>. QED
      BY <3>5 DEF Set!Next
  <2>5. CASE ClockTick
    <3>1. Contents' = Contents
      BY <2>5 DEF ClockTick, array, Contents
    <3>2. Left' = [t \in Timers |-> IF Left[t] = 0 THEN 0 ELSE Left[t] - 1]
      BY <2>0, <2>5 DEF ClockTick, Left
    <3>3. Set!Second
      BY <2>5, <3>1, <3>2 DEF ClockTick, Set!Second, Contents, Left, TimersIn
    <3>. QED
      BY <3>3 DEF Set!Next
  <2>6. CASE UNCHANGED vars
    BY <2>6 DEF vars, array, Contents, Left
  <2>. QED
    BY <2>1, <2>2, <2>3, <2>4, <2>5, <2>6 DEF Next
<1>. QED
  BY <1>1, <1>2, AlwaysInv, PTL DEF Spec, ImplementsTimerSet, Set!Spec
=============================================================================
