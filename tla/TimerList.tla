----------------------------- MODULE TimerList -----------------------------
(***************************************************************************)
(* The timer list of schedule/sched.c.  A timer keeps the ticks between    *)
(* the expiry of its predecessor in the list and its own.                  *)
(***************************************************************************)
EXTENDS Integers, Sequences, SequencesExt

CONSTANTS
  Timer,  \* the timers (one per sleeping process)
  Times   \* the durations they are armed for

VARIABLES
  timer_list,  \* the linked timers, in the order of the list
  expires,     \* timer->expires
  expired      \* the timers that expired in the last step

vars == <<timer_list, expires, expired>>

\* The ticks until the i-th timer of the list expires.
Due[i \in 0..Len(timer_list)] ==
  IF i = 0 THEN 0 ELSE Due[i - 1] + expires[timer_list[i]]

Init == /\ timer_list = <<>>
        /\ expires = [t \in Timer |-> 0]
        /\ expired = {}

\* Where the loop of add_timer stops: it goes past every timer that expires
\* no later than n ticks from now.
Place(n) ==
  CHOOSE i \in 1..Len(timer_list) + 1 :
    /\ i <= Len(timer_list) => n < Due[i]
    /\ \A j \in 1..i - 1 : n >= Due[j]

\* Fault: the timer that follows keeps its duration.
WithTimerFollowerKept(t, n) == [expires EXCEPT ![t] = n - Due[Place(n) - 1]]

\* timer->expires after add_timer: what is left of n, and the timer that
\* follows counts from the new one.
WithTimer(t, n) ==
  LET i == Place(n)
      e == n - Due[i - 1]
  IN [u \in Timer |-> CASE u = t -> e
                        [] i <= Len(timer_list) /\ u = timer_list[i]
                             -> expires[u] - e
                        [] OTHER -> expires[u]]

add_timer(t, n) ==
  /\ ~Contains(timer_list, t)
  /\ expires' = WithTimer(t, n)
  /\ timer_list' = InsertAt(timer_list, Place(n), t)
  /\ expired' = {}

\* timer->expires after del_timer: the timer that follows takes over.
WithoutTimer(i) ==
  IF i = Len(timer_list) THEN expires
  ELSE [expires EXCEPT ![timer_list[i + 1]] = @ + expires[timer_list[i]]]

del_timer(t) ==
  \E i \in DOMAIN timer_list :
    /\ timer_list[i] = t
    /\ expires' = WithoutTimer(i)
    /\ timer_list' = RemoveAt(timer_list, i)
    /\ expired' = {}

(* run_timer_list: one tick is taken from the first timer, then the timers *)
(* at the head with nothing left wake their processes and are deleted.     *)
run_timer_list ==
  LET e == IF timer_list = <<>> THEN expires
           ELSE [expires EXCEPT ![Head(timer_list)] = @ - 1]
      n == CHOOSE n \in 0..Len(timer_list) :
             /\ \A i \in 1..n : e[timer_list[i]] = 0
             /\ n < Len(timer_list) => e[timer_list[n + 1]] # 0
  IN /\ expires' = e
     /\ timer_list' = SubSeq(timer_list, n + 1, Len(timer_list))
     /\ expired' = {timer_list[i] : i \in 1..n}

Next == \/ run_timer_list
        \/ \E t \in Timer : del_timer(t) \/ \E n \in Times : add_timer(t, n)

Spec == Init /\ [][Next]_vars

-----------------------------------------------------------------------------
(* The linked timers are linked once, and the first one is not exhausted   *)
(* between two ticks (the assertion of run_timer_list), although a timer   *)
(* behind it may have 0 to wait and may become the first by a deletion.    *)
TypeOK ==
  /\ timer_list \in Seq(Timer)
  /\ expires \in [Timer -> Nat]
  /\ IsInjective(timer_list)
  /\ timer_list # <<>> => expires[Head(timer_list)] > 0

\* The ticks until t expires.
Left == [t \in Timer |->
           IF Contains(timer_list, t)
           THEN Due[CHOOSE i \in DOMAIN timer_list : timer_list[i] = t] ELSE 0]

T == INSTANCE Timers WITH left <- Left

\* Each timer expires at its own time: the list implements module Timers, and
\* the assertion of run_timer_list holds.
Implements == T!Spec /\ []TypeOK
=============================================================================
