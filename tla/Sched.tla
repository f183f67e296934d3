------------------------------- MODULE Sched -------------------------------
(***************************************************************************)
(* The process scheduler of ucore (schedule/sched.c with the round-robin   *)
(* and multi-level feedback classes) and the system calls and interrupts   *)
(* that drive it.  One CPU; the kernel is not preempted while it runs on   *)
(* behalf of a process, so a process leaves the CPU only inside            *)
(* schedule().  The timer interrupt may come between any two steps.        *)
(*                                                                         *)
(* The run queues are kept as ONE sequence, runq, in order of arrival:     *)
(* queue i is the subsequence of the processes whose proc->rq is i.        *)
(* RR_sched_class is the case of one queue, MLFQ_sched_class that of four. *)
(* The timer list is the abstract one of module Timers, which module       *)
(* TimerList implements.                                                   *)
(***************************************************************************)
EXTENDS List

CONSTANTS
  Proc,       \* the process slots (idleproc is not one of them)
  Idle,       \* idleproc
  Group,      \* the processes that form one thread group
  Levels,     \* number of run queues
  MaxSlice,   \* max_time_slice of each run queue
  Times       \* the durations given to do_sleep or as an IPC timeout

ASSUME SchedAssumption ==
  /\ Idle \notin Proc
  /\ IsFiniteSet(Proc)
  /\ Group \subseteq Proc
  /\ Levels \in Nat \ {0}
  /\ MaxSlice \in [1..Levels -> Nat \ {0}]
  /\ Times \subseteq Nat \ {0}

VARIABLES
  state,         \* proc->state
  wait_state,    \* proc->wait_state
  exiting,       \* the processes with PF_EXITING in proc->flags
  need_resched,  \* the processes (or Idle) with proc->need_resched set
  time_slice,    \* proc->time_slice
  rq,            \* proc->rq, 0 for NULL
  runq,          \* the run queues, in order of arrival
  timer,         \* ticks left of the timer of a process, 0 when unlinked
  linked,        \* the processes whose wait_t is linked in a wait queue
  current,       \* the process on the CPU
  pc             \* where a process is: see PC

vars == <<state, wait_state, exiting, need_resched, time_slice, rq, runq,
          timer, linked, current, pc>>

State == {"UNINIT", "SLEEPING", "RUNNABLE", "ZOMBIE"}

\* "none" is 0.  WT_KSEM stands for the waits without WT_INTERRUPTED,
\* WT_USEM for the interruptible waits in a wait queue.
WaitState == {"none", "WT_TIMER", "WT_KSEM", "WT_USEM", "WT_SIGNAL"}
Interruptible == {"WT_TIMER", "WT_USEM", "WT_SIGNAL"}

\* user: in user mode; trap: at the end of trap(); signal: in do_signal, the
\* last call of trap(); block: marked not runnable, about to call schedule();
\* switched: inside that call; stop, stopped: the same for do_signal_stop;
\* exit: in do_exit, about to call __do_exit.
PC == {"user", "trap", "signal", "block", "switched", "stop", "stopped",
       "exit"}

-----------------------------------------------------------------------------
(* The run queue.                                                          *)

\* MLFQ_enqueue: an exhausted slice moves the process one queue down (the
\* last queue keeps it), otherwise it goes to the first queue.
EnqueueLevel(p) ==
  IF rq[p] # 0 /\ time_slice[p] = 0
  THEN IF rq[p] < Levels THEN rq[p] + 1 ELSE rq[p]
  ELSE 1

\* Fault: a slice longer than the queue allows is kept.
EnqueueSliceKeepsLong(p) ==
  IF time_slice[p] = 0 THEN MaxSlice[EnqueueLevel(p)] ELSE time_slice[p]

\* RR_enqueue: the slice is refilled when it is exhausted or too long.
EnqueueSlice(p) ==
  LET max == MaxSlice[EnqueueLevel(p)] IN
  IF time_slice[p] = 0 \/ time_slice[p] > max THEN max ELSE time_slice[p]

\* proc->rq after sched_class_enqueue of the processes S.
LevelsWith(S) == [p \in Proc |-> IF p \in S THEN EnqueueLevel(p) ELSE rq[p]]

\* proc->time_slice after enqueue of S and RR_proc_tick of C.
SlicesWith(S, C) ==
  [p \in Proc |-> IF p \in S THEN EnqueueSlice(p)
                  ELSE IF p \in C /\ time_slice[p] > 0 THEN time_slice[p] - 1
                  ELSE time_slice[p]]

\* Fault: the newest process of the first queue is picked.
IsNextNewest(q, level, i) ==
  \A j \in DOMAIN q : \/ level[q[i]] < level[q[j]]
                      \/ level[q[i]] = level[q[j]] /\ i >= j

\* MLFQ_pick_next: the head of the first queue that is not empty.
IsNext(q, level, i) ==
  \A j \in DOMAIN q : \/ level[q[i]] < level[q[j]]
                      \/ level[q[i]] = level[q[j]] /\ i <= j

\* wakeup_proc only warns about a RUNNABLE process.
Asleep(S) == {p \in S : state[p] # "RUNNABLE"}

\* Faults of wakeup_proc: it enqueues the process on the CPU, or none.
EnqueuedCurrentToo(S) == Asleep(S)
EnqueuedNone(S) == {}

\* The processes of S that wakeup_proc enqueues.
Enqueued(S) == Asleep(S) \ {current}

(* wakeup_proc for every process of S.  Processes woken by one handler are *)
(* enqueued in any order.  The slice of the processes C is charged.        *)
Wakeup(S, C) ==
  /\ state' = [p \in Proc |-> IF p \in Asleep(S) THEN "RUNNABLE" ELSE state[p]]
  /\ wait_state' = [p \in Proc |-> IF p \in Asleep(S) THEN "none"
                                   ELSE wait_state[p]]
  /\ \E w \in Listings(Enqueued(S)) : runq' = runq \o w
  /\ rq' = LevelsWith(Enqueued(S))
  /\ time_slice' = SlicesWith(Enqueued(S), C)

\* schedule(): the process leaves the CPU to the next one of the run queue.
Schedule ==
  LET again == {p \in Proc : p = current /\ state[p] = "RUNNABLE"}
      q     == IF again = {} THEN runq ELSE Append(runq, current)
      level == LevelsWith(again)
  IN /\ need_resched' = need_resched \ {current}
     /\ rq' = level
     /\ time_slice' = SlicesWith(again, {})
     /\ \/ /\ q = <<>>
           /\ current' = Idle
           /\ runq' = q
        \/ \E i \in DOMAIN q :
              /\ IsNext(q, level, i)
              /\ current' = q[i]
              /\ runq' = list_del(q, i)

-----------------------------------------------------------------------------
\* proc_init: one process is in the run queue and idleproc is on the CPU.
Init ==
  \E p \in Proc :
    /\ state = [q \in Proc |-> IF q = p THEN "RUNNABLE" ELSE "UNINIT"]
    /\ wait_state = [q \in Proc |-> "none"]
    /\ exiting = {}
    /\ need_resched = {Idle}
    /\ time_slice = [q \in Proc |-> IF q = p THEN MaxSlice[1] ELSE 0]
    /\ rq = [q \in Proc |-> IF q = p THEN 1 ELSE 0]
    /\ runq = <<p>>
    /\ timer = [q \in Proc |-> 0]
    /\ linked = {}
    /\ current = Idle
    /\ pc = [q \in Proc |-> "user"]

InUser(p) == current = p /\ pc[p] = "user"

Alive(p) == state[p] \in {"SLEEPING", "RUNNABLE"}

Threads(p) == IF p \in Group THEN {q \in Group : Alive(q)} ELSE {p}

\* cpu_idle
IdleSchedule ==
  /\ current = Idle
  /\ Idle \in need_resched
  /\ Schedule
  /\ UNCHANGED <<state, wait_state, exiting, timer, linked, pc>>

\* Fault: the timer of the process on the CPU expires without waking it.
ExpiredNotCurrent == {p \in Proc : timer[p] = 1 /\ p # current}

Expired == {p \in Proc : timer[p] = 1}

(* The timer interrupt, run_timer_list: expired timers wake their process, *)
(* then the slice of the process on the CPU is charged (proc_tick).  From  *)
(* user mode, trap() goes on to its last part.                             *)
Tick ==
  /\ timer' = [p \in Proc |-> IF timer[p] = 0 THEN 0 ELSE timer[p] - 1]
  /\ Wakeup(Expired, {current})
  /\ need_resched' = IF current = Idle \/ time_slice[current] <= 1
                     THEN need_resched \cup {current} ELSE need_resched
  /\ pc' = [p \in Proc |-> IF InUser(p) THEN "trap" ELSE pc[p]]
  /\ UNCHANGED <<exiting, linked, current>>

(* __do_exit, as far as the scheduler is concerned: reached from do_exit,  *)
(* or from may_killed in the last part of trap().                          *)
ExitSelf(p) ==
  /\ current = p
  /\ pc[p] = "exit" \/ (pc[p] = "trap" /\ p \in exiting)
  /\ state' = [state EXCEPT ![p] = "ZOMBIE"]
  /\ pc' = [pc EXCEPT ![p] = "block"]
  /\ UNCHANGED <<wait_state, exiting, need_resched, time_slice, rq, runq,
                 timer, linked, current>>

\* The last part of trap(), past may_killed: schedule() if asked for.
TrapSchedule(p) ==
  /\ current = p /\ pc[p] = "trap"
  /\ p \notin exiting
  /\ p \in need_resched
  /\ Schedule
  /\ pc' = [pc EXCEPT ![p] = "signal"]
  /\ UNCHANGED <<state, wait_state, exiting, timer, linked>>

AtDoSignal(p) ==
  /\ current = p
  /\ \/ pc[p] = "signal"
     \/ pc[p] = "trap" /\ p \notin exiting /\ p \notin need_resched

TrapReturn(p) ==
  /\ AtDoSignal(p)
  /\ pc' = [pc EXCEPT ![p] = "user"]
  /\ UNCHANGED <<state, wait_state, exiting, need_resched, time_slice, rq,
                 runq, timer, linked, current>>

\* schedule() called by a process that marked itself not runnable.
Block(p) ==
  /\ current = p /\ pc[p] \in {"block", "stop"}
  /\ Schedule
  /\ pc' = [pc EXCEPT ![p] = IF @ = "stop" THEN "stopped" ELSE "switched"]
  /\ UNCHANGED <<state, wait_state, exiting, timer, linked>>

\* Fault: the timer of a call that ends early stays armed.
del_timer_nothing(p) == UNCHANGED timer

del_timer(p) == timer' = [timer EXCEPT ![p] = 0]

(* A blocked process is on the CPU again: del_timer, wait_current_del, and *)
(* the system call returns; do_signal_stop goes on in do_signal.           *)
Resume(p) ==
  /\ current = p /\ pc[p] \in {"switched", "stopped"}
  /\ del_timer(p)
  /\ linked' = linked \ {p}
  /\ pc' = [pc EXCEPT ![p] = IF @ = "stopped" THEN "signal" ELSE "trap"]
  /\ UNCHANGED <<state, wait_state, exiting, need_resched, time_slice, rq,
                 runq, current>>

-----------------------------------------------------------------------------
(* System calls of the process on the CPU.                                 *)

do_yield(p) ==
  /\ InUser(p)
  /\ need_resched' = need_resched \cup {p}
  /\ pc' = [pc EXCEPT ![p] = "trap"]
  /\ UNCHANGED <<state, wait_state, exiting, time_slice, rq, runq, timer,
                 linked, current>>

do_sleep(p, t) ==
  /\ InUser(p)
  /\ state' = [state EXCEPT ![p] = "SLEEPING"]
  /\ wait_state' = [wait_state EXCEPT ![p] = "WT_TIMER"]
  /\ timer' = [timer EXCEPT ![p] = t]
  /\ pc' = [pc EXCEPT ![p] = "block"]
  /\ UNCHANGED <<exiting, need_resched, time_slice, rq, runq, linked, current>>

\* wait_current_set, with a timer when the call has a timeout (t # 0).
wait_current_set(p, w, t) ==
  /\ InUser(p)
  /\ t # 0 => w \in Interruptible
  /\ state' = [state EXCEPT ![p] = "SLEEPING"]
  /\ wait_state' = [wait_state EXCEPT ![p] = w]
  /\ linked' = linked \cup {p}
  /\ timer' = [timer EXCEPT ![p] = t]
  /\ pc' = [pc EXCEPT ![p] = "block"]
  /\ UNCHANGED <<exiting, need_resched, time_slice, rq, runq, current>>

(* wakeup_wait with del = 1, by the process on the CPU or by an interrupt  *)
(* handler: then q may be the process on the CPU, before its schedule().   *)
wakeup_wait(q) ==
  /\ q \in linked
  /\ linked' = linked \ {q}
  /\ Wakeup({q}, {})
  /\ UNCHANGED <<exiting, need_resched, timer, current, pc>>

\* __do_kill on q: a process in an interruptible wait is woken.
do_kill(p, q) ==
  /\ InUser(p)
  /\ state[q] # "UNINIT"
  /\ q \notin exiting
  /\ exiting' = exiting \cup {q}
  /\ Wakeup({q} \cap {r \in Proc : wait_state[r] \in Interruptible}, {})
  /\ pc' = [pc EXCEPT ![p] = "trap"]
  /\ UNCHANGED <<need_resched, timer, linked, current>>

\* do_exit, the system call or the default action of a signal: __do_kill on
\* the other threads of the group, then __do_exit.
do_exit(p) ==
  LET killed == Threads(p) \ ({p} \cup exiting) IN
  /\ InUser(p) \/ AtDoSignal(p)
  /\ exiting' = exiting \cup killed
  /\ Wakeup({q \in killed : wait_state[q] \in Interruptible}, {})
  /\ pc' = [pc EXCEPT ![p] = "exit"]
  /\ UNCHANGED <<need_resched, timer, linked, current>>

do_exit_thread(p) ==
  /\ InUser(p)
  /\ pc' = [pc EXCEPT ![p] = "exit"]
  /\ UNCHANGED <<state, wait_state, exiting, need_resched, time_slice, rq,
                 runq, timer, linked, current>>

\* Fault: SIGKILL wakes its target whatever the state of the target.
SignalWakesAny(q, sigkill) == wait_state[q] \in Interruptible \/ sigkill

\* SIGKILL also ends an uninterruptible wait.
SignalWakes(q, sigkill) ==
  state[q] = "SLEEPING" /\ (wait_state[q] \in Interruptible \/ sigkill)

\* signal_wakeup: try_to_wakeup wakes q and the stopped threads of its group.
signal_wakeup(p, q, sigkill) ==
  /\ InUser(p)
  /\ state[q] # "UNINIT"
  /\ SignalWakes(q, sigkill)
  /\ Wakeup({q} \cup {r \in Threads(q) : wait_state[r] = "WT_SIGNAL"}, {})
  /\ pc' = [pc EXCEPT ![p] = "trap"]
  /\ UNCHANGED <<exiting, need_resched, timer, linked, current>>

(* do_signal_stop, at the end of trap(): stop_proc on every thread of the  *)
(* group that is not exiting and not in an uninterruptible wait.           *)
do_signal_stop(p) ==
  LET stopped == {q \in Threads(p) \ exiting :
                    state[q] = "RUNNABLE" \/ wait_state[q] \in Interruptible}
  IN /\ AtDoSignal(p)
     /\ state' = [q \in Proc |-> IF q \in stopped THEN "SLEEPING" ELSE state[q]]
     /\ wait_state' = [q \in Proc |-> IF q \in stopped THEN "WT_SIGNAL"
                                      ELSE wait_state[q]]
     /\ runq' \in Kept(runq, Proc \ stopped)
     /\ pc' = [pc EXCEPT ![p] = "stop"]
     /\ UNCHANGED <<exiting, need_resched, time_slice, rq, timer, linked,
                    current>>

\* The slice that do_fork takes from the parent for the child.
ForkSlice(p) == time_slice[p] \div 2

\* do_fork: the child takes half of the slice and wakeup_proc enqueues it.
do_fork(p, q) ==
  /\ InUser(p)
  /\ state[q] = "UNINIT"
  /\ state' = [state EXCEPT ![q] = "RUNNABLE"]
  /\ time_slice' = [time_slice EXCEPT
       ![p] = @ - ForkSlice(p),
       ![q] = IF ForkSlice(p) = 0 \/ ForkSlice(p) > MaxSlice[1]
              THEN MaxSlice[1] ELSE ForkSlice(p)]
  /\ rq' = [rq EXCEPT ![q] = 1]
  /\ runq' = Append(runq, q)
  /\ pc' = [pc EXCEPT ![p] = "trap"]
  /\ UNCHANGED <<wait_state, exiting, need_resched, timer, linked, current>>

\* do_fork without memory for the child: its half of the slice is gone.
do_fork_fails(p) ==
  /\ InUser(p)
  /\ time_slice' = [time_slice EXCEPT ![p] = @ - ForkSlice(p)]
  /\ pc' = [pc EXCEPT ![p] = "trap"]
  /\ UNCHANGED <<state, wait_state, exiting, need_resched, rq, runq, timer,
                 linked, current>>

\* do_wait finds the zombie q and frees its slot.
do_wait(p, q) ==
  /\ InUser(p)
  /\ state[q] = "ZOMBIE"
  /\ state' = [state EXCEPT ![q] = "UNINIT"]
  /\ exiting' = exiting \ {q}
  /\ need_resched' = need_resched \ {q}
  /\ time_slice' = [time_slice EXCEPT ![q] = 0]
  /\ rq' = [rq EXCEPT ![q] = 0]
  /\ pc' = [pc EXCEPT ![p] = "trap", ![q] = "user"]
  /\ UNCHANGED <<wait_state, runq, timer, linked, current>>

Syscall(p) ==
  \/ do_yield(p) \/ do_exit(p) \/ do_exit_thread(p) \/ do_fork_fails(p)
  \/ \E t \in Times : do_sleep(p, t)
  \/ \E w \in {"WT_KSEM", "WT_USEM"}, t \in Times \cup {0} :
       wait_current_set(p, w, t)
  \/ \E q \in Proc : \/ do_kill(p, q) \/ do_fork(p, q) \/ do_wait(p, q)
                     \/ \E sigkill \in BOOLEAN : signal_wakeup(p, q, sigkill)

Kernel(p) == ExitSelf(p) \/ TrapSchedule(p) \/ TrapReturn(p) \/ Block(p)
             \/ Resume(p)

Next == \/ IdleSchedule \/ Tick
        \/ \E p \in Proc : \/ Kernel(p) \/ Syscall(p) \/ do_signal_stop(p)
                           \/ wakeup_wait(p)

Spec == Init /\ [][Next]_vars

(* The timer interrupt keeps coming and the kernel code of the process on  *)
(* the CPU keeps running; nothing is assumed of user code.                 *)
Fairness == /\ WF_vars(Tick) /\ WF_vars(IdleSchedule)
            /\ \A p \in Proc : WF_vars(Kernel(p))

FairSpec == Spec /\ Fairness

-----------------------------------------------------------------------------
TypeOK ==
  /\ state \in [Proc -> State]
  /\ wait_state \in [Proc -> WaitState]
  /\ exiting \subseteq Proc
  /\ need_resched \subseteq Proc \cup {Idle}
  /\ time_slice \in [Proc -> Nat]
  /\ rq \in [Proc -> 0..Levels]
  /\ runq \in Seq(Proc)
  /\ timer \in [Proc -> Nat]
  /\ linked \subseteq Proc
  /\ current \in Proc \cup {Idle}
  /\ pc \in [Proc -> PC]

(* A process is in a run queue exactly when it is RUNNABLE and not on the  *)
(* CPU, and it is there once: no runnable process is lost by the races of  *)
(* wakeup_proc, stop_proc and schedule(), and the assertions of RR_enqueue *)
(* and RR_dequeue on run_link hold.                                        *)
RunQueueExact ==
  /\ Range(runq) = {p \in Proc : state[p] = "RUNNABLE" /\ p # current}
  /\ \A i, j \in DOMAIN runq : i # j => runq[i] # runq[j]

(* A sleeping process has somebody to wake it: a reason to wait, and for   *)
(* that reason a running timer or a linked wait_t.  A process that is not  *)
(* sleeping has wait_state 0 (the assertion of do_fork), so run_timer_list *)
(* and __do_kill read a wait_state that is not stale.                      *)
SleepersAreHeld ==
  \A p \in Proc :
    /\ (state[p] = "SLEEPING") <=> (wait_state[p] # "none")
    /\ wait_state[p] = "WT_TIMER" => timer[p] > 0
    /\ wait_state[p] \in {"WT_KSEM", "WT_USEM"} => p \in linked

(* No timer and no wait queue refers to a process that is not inside the   *)
(* call that armed it: timers and wait_t live on its kernel stack.  So no  *)
(* handler wakes a zombie (the assertion of wakeup_proc) or a freed slot.  *)
NoDanglingTimer ==
  \A p \in Proc : timer[p] > 0 \/ p \in linked => pc[p] \in {"block", "switched"}
                                                  /\ state[p] # "ZOMBIE"

(* A process waiting in a run queue has a slice to run for, and no slice   *)
(* is longer than its queue allows, whatever mix of fork, preemption and   *)
(* change of queue it went through.                                        *)
SlicesInBounds ==
  \A p \in Proc :
    /\ rq[p] # 0 => time_slice[p] <= MaxSlice[rq[p]]
    /\ p \in Range(runq) => time_slice[p] > 0

(* The state of a process changes along the edges of the diagram at the    *)
(* top of proc.c, and a zombie is only ever freed.                         *)
StateDiagram ==
  [][\A p \in Proc : state'[p] # state[p] =>
       <<state[p], state'[p]>> \in
          {<<"UNINIT", "RUNNABLE">>, <<"RUNNABLE", "SLEEPING">>,
           <<"SLEEPING", "RUNNABLE">>, <<"RUNNABLE", "ZOMBIE">>,
           <<"ZOMBIE", "UNINIT">>}]_vars

(* Round robin starves nobody: a runnable process gets the CPU unless it   *)
(* is stopped first.                                                       *)
RunnableRuns ==
  \A p \in Proc : (state[p] = "RUNNABLE") ~> (current = p \/ state[p] # "RUNNABLE")

(* do_sleep ends: a process waiting for its timer is on the CPU again, or  *)
(* it was stopped by a signal.                                             *)
SleepEnds ==
  \A p \in Proc : (wait_state[p] = "WT_TIMER") ~> (current = p \/ wait_state[p] = "WT_SIGNAL")

(* A killed process exits: do_kill sets PF_EXITING, the process is woken   *)
(* and does not go back to user mode.                                      *)
KilledExits ==
  \A p \in Proc : (p \in exiting) ~> (state[p] \in {"ZOMBIE", "UNINIT"}
                                      \/ wait_state[p] = "WT_KSEM")
=============================================================================
