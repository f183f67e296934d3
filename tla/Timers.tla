------------------------------- MODULE Timers -------------------------------
(***************************************************************************)
(* What the timers of schedule/sched.c promise: a timer armed for n ticks  *)
(* expires at the n-th tick that follows, unless it is deleted first,      *)
(* whatever happens to the other timers in between.                        *)
(***************************************************************************)
EXTENDS Integers

CONSTANTS Timer, Times

VARIABLES
  left,     \* ticks left of each timer, 0 when it is not armed
  expired   \* the timers that expired in the last step

Init == left = [t \in Timer |-> 0] /\ expired = {}

Add(t, n) ==
  /\ left[t] = 0
  /\ left' = [left EXCEPT ![t] = n]
  /\ expired' = {}

Del(t) ==
  /\ left[t] # 0
  /\ left' = [left EXCEPT ![t] = 0]
  /\ expired' = {}

Tick ==
  /\ left' = [t \in Timer |-> IF left[t] = 0 THEN 0 ELSE left[t] - 1]
  /\ expired' = {t \in Timer : left[t] = 1}

Next == \/ Tick
        \/ \E t \in Timer : Del(t) \/ \E n \in Times : Add(t, n)

Spec == Init /\ [][Next]_<<left, expired>>
=============================================================================
