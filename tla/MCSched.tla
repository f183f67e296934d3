------------------------------ MODULE MCSched -------------------------------
(* Instances of Sched for TLC.                                             *)
EXTENDS Sched, TLC

CONSTANTS p1, p2, p3

\* max_time_slice of one and of two run queues.
MCSlice1 == <<2>>
MCSlice2 == <<1, 2>>

\* The threads of the group are interchangeable, and so are the others.
MCSymmetry == Permutations(Group) \cup Permutations(Proc \ Group)
=============================================================================
