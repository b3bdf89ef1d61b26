------------------------------ MODULE MCLogFile ------------------------------
(* Instances of LogFile for TLC: a day has one minute, a month two days. *)
EXTENDS LogFile, TLC

Month == [m \in Minutes |-> m \div 2]
Day == [m \in Minutes |-> m % 2]
Clock == [m \in Minutes |-> 0]

ThreadSymmetry == Permutations(Threads)

=============================================================================
