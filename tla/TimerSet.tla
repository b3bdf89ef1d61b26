------------------------------ MODULE TimerSet ------------------------------
(***************************************************************************)
(* What http/timer.h promises main.cpp of its timer heap: a set of timers, *)
(* each with the seconds it has left.  Tick takes out the timers that have *)
(* none left and calls the callbacks of those that have one.  EventLoop    *)
(* uses the heap in this form.                                             *)
(***************************************************************************)
EXTENDS Naturals

CONSTANTS Timers, Lifetime

VARIABLES heap, callback, left,
          fired  \* timer: how often its callback was called

vars == <<heap, callback, left, fired>>

Init ==
  /\ heap = {}
  /\ callback = [t \in Timers |-> FALSE]
  /\ left = [t \in Timers |-> 0]
  /\ fired = [t \in Timers |-> 0]

AddTimer(t) ==
  /\ fired[t] = 0 /\ t \notin heap
  /\ heap' = heap \cup {t}
  /\ callback' = [callback EXCEPT ![t] = TRUE]
  /\ \E d \in 0 .. Lifetime : left' = [left EXCEPT ![t] = d]
  /\ UNCHANGED fired

\* m_iExpireTime set anew, then Adjust
Refresh(t) ==
  /\ t \in heap /\ callback[t]
  /\ left' = [left EXCEPT ![t] = Lifetime]
  /\ UNCHANGED <<heap, callback, fired>>

DelTimer(t) ==
  /\ t \in heap
  /\ callback' = [callback EXCEPT ![t] = FALSE]
  /\ UNCHANGED <<heap, left, fired>>

Tick ==
  LET expired == {t \in heap : left[t] = 0}
  IN  /\ heap' = heap \ expired
      /\ fired' = [t \in Timers |->
                     fired[t] + IF t \in expired /\ callback[t] THEN 1 ELSE 0]
      /\ UNCHANGED <<callback, left>>

Second ==
  /\ left' = [t \in Timers |-> IF left[t] = 0 THEN 0 ELSE left[t] - 1]
  /\ UNCHANGED <<heap, callback, fired>>

Next == (\E t \in Timers : AddTimer(t) \/ Refresh(t) \/ DelTimer(t)) \/ Tick \/ Second

Spec == Init /\ [][Next]_vars
=============================================================================
