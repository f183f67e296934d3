---------------------------- MODULE SchedProofs ----------------------------
(***************************************************************************)
(* Proofs about module Sched, for any number of processes, any thread      *)
(* group, any number of run queues and any slices.                         *)
(***************************************************************************)
EXTENDS Sched, QueueLemmas

USE ZenonT(30)

\* The processes that are to be in a run queue.
Ready == {p \in Proc : state[p] = "RUNNABLE" /\ p # current}

\* The types of the variables other than the run queue.
TypeRest ==
  /\ state \in [Proc -> State]
  /\ wait_state \in [Proc -> WaitState]
  /\ exiting \subseteq Proc
  /\ need_resched \subseteq Proc \cup {Idle}
  /\ timer \in [Proc -> Nat]
  /\ linked \subseteq Proc
  /\ current \in Proc \cup {Idle}
  /\ pc \in [Proc -> PC]

\* proc->rq and proc->time_slice; a process of the run queue has a slice.
SliceInv ==
  /\ time_slice \in [Proc -> Nat]
  /\ rq \in [Proc -> 0..Levels]
  /\ \A p \in Proc : rq[p] # 0 => time_slice[p] <= MaxSlice[rq[p]]
  /\ \A p \in Ready : time_slice[p] > 0

\* The process on the CPU is RUNNABLE unless it is about to call schedule().
CurrentRuns ==
  current \in Proc /\ pc[current] \notin {"block", "stop"}
    => state[current] = "RUNNABLE"

\* A free slot is where alloc_proc leaves it.
FreeSlots == \A p \in Proc : state[p] = "UNINIT" => pc[p] = "user"

(* The inductive invariant.  RunQueueExact alone is not inductive: that    *)
(* do_fork never enqueues the process on the CPU needs CurrentRuns, and    *)
(* that a tick never wakes a zombie needs NoDanglingTimer, which in turn   *)
(* needs FreeSlots and SleepersAreHeld.                                    *)
IInv ==
  /\ TypeRest
  /\ IsQueueOf(runq, Ready)
  /\ SliceInv
  /\ SleepersAreHeld
  /\ NoDanglingTimer
  /\ CurrentRuns
  /\ FreeSlots

-----------------------------------------------------------------------------
\* What the run queue holds, in the terms of module Sched.
LEMMA ReadyQueue ==
  ASSUME IsQueueOf(runq, Ready)
  PROVE  runq \in Seq(Proc) /\ RunQueueExact
<1>1. runq \in Seq(Ready) /\ Ready \subseteq Proc
  BY DEF IsQueueOf, Ready
<1>2. runq \in Seq(Proc)
  BY <1>1, SeqMonotonic
<1>3. Range(runq) = Ready /\ DOMAIN runq = 1..Len(runq)
  BY QueueElements
<1> QED
  BY <1>2, <1>3, QueueParts DEF RunQueueExact, Ready

\* EnqueueLevel and EnqueueSlice stay within the run queues and their slices.
LEMMA EnqueueBounds ==
  ASSUME SliceInv, NEW p \in Proc
  PROVE  /\ EnqueueLevel(p) \in 1..Levels
         /\ EnqueueSlice(p) \in Nat \ {0}
         /\ EnqueueSlice(p) <= MaxSlice[EnqueueLevel(p)]
<1>1. EnqueueLevel(p) \in 1..Levels
  BY SchedAssumption, SMTT(30) DEF SliceInv, EnqueueLevel
<1>2. MaxSlice[EnqueueLevel(p)] \in Nat \ {0}
  BY <1>1, SchedAssumption
<1>3. time_slice[p] \in Nat
  BY DEF SliceInv
<1> QED
  BY <1>1, <1>2, <1>3, SMTT(30) DEF EnqueueSlice

\* wakeup_proc keeps the run queue exact whichever processes it is given.
LEMMA WakeupQueue ==
  ASSUME IInv, NEW S \in SUBSET Proc, NEW C, Wakeup(S, C), current' = current
  PROVE  IsQueueOf(runq', Ready')
<1>1. PICK w \in Listings(Enqueued(S)) : runq' = runq \o w
  BY DEF Wakeup
<1>2. IsFiniteSet(Enqueued(S))
  <2>1. Enqueued(S) \in SUBSET Proc
    BY DEF Enqueued, Asleep
  <2> QED
    BY <2>1, SchedAssumption, FS_Subset
<1>3. IsQueueOf(w, Enqueued(S))
  BY <1>2, EnumerationQueue
<1>4. Ready \cap Enqueued(S) = {}
  BY DEF Ready, Enqueued, Asleep
<1>5. Ready' = Ready \cup Enqueued(S)
  BY DEF Ready, Enqueued, Asleep, Wakeup, IInv, TypeRest
<1> QED
  BY <1>1, <1>3, <1>4, <1>5, ConcatQueue DEF IInv

\* wakeup_proc, with the tick of a process on the CPU, keeps the slices.
LEMMA WakeupSlices ==
  ASSUME IInv, NEW S \in SUBSET Proc, NEW C, C \subseteq {current},
         Wakeup(S, C), current' = current
  PROVE  SliceInv'
<1>1. /\ rq' = LevelsWith(Enqueued(S))
      /\ time_slice' = SlicesWith(Enqueued(S), C)
      /\ SliceInv
  BY DEF Wakeup, IInv
<1>2. Ready' = Ready \cup Enqueued(S)
  BY DEF Ready, Enqueued, Asleep, Wakeup, IInv, TypeRest
<1>3. ASSUME NEW p \in Proc
      PROVE  /\ time_slice'[p] \in Nat /\ rq'[p] \in 0..Levels
             /\ rq'[p] # 0 => time_slice'[p] <= MaxSlice[rq'[p]]
             /\ p \in Ready' => time_slice'[p] > 0
  <2>1. CASE p \in Enqueued(S)
    <3>1. rq'[p] = EnqueueLevel(p) /\ time_slice'[p] = EnqueueSlice(p)
      BY <1>1, <2>1 DEF LevelsWith, SlicesWith
    <3> QED
      BY <1>1, <3>1, EnqueueBounds, SMTT(30)
  <2>2. CASE p \notin Enqueued(S)
    <3>1. /\ rq'[p] = rq[p] /\ time_slice[p] \in Nat /\ rq[p] \in 0..Levels
          /\ time_slice'[p] = IF p \in C /\ time_slice[p] > 0
                              THEN time_slice[p] - 1 ELSE time_slice[p]
          /\ rq[p] # 0 => time_slice[p] <= MaxSlice[rq[p]]
      BY <1>1, <2>2 DEF LevelsWith, SlicesWith, SliceInv
    <3>2. rq[p] # 0 => MaxSlice[rq[p]] \in Nat
      BY <3>1, SchedAssumption, SMTT(30)
    <3>3. p \in Ready' => p \in Ready /\ p \notin C /\ time_slice[p] > 0
      BY <1>1, <1>2, <2>2 DEF Ready, SliceInv
    <3> QED
      BY <3>1, <3>2, <3>3, SMTT(30)
  <2> QED
    BY <2>1, <2>2
<1>4. /\ rq' = [p \in Proc |-> rq'[p]]
      /\ time_slice' = [p \in Proc |-> time_slice'[p]]
  BY <1>1 DEF LevelsWith, SlicesWith
<1>5. rq' \in [Proc -> 0..Levels] /\ time_slice' \in [Proc -> Nat]
  BY <1>3, <1>4
<1>6. \A p \in Ready' : p \in Proc
  BY DEF Ready
<1> QED
  BY <1>3, <1>5, <1>6 DEF SliceInv

(* schedule(): the old process is queued again if it is RUNNABLE, the new  *)
(* one leaves the queue, and nobody else moves.                            *)
LEMMA ScheduleQueue ==
  ASSUME IInv, Schedule, state' = state
  PROVE  /\ IsQueueOf(runq', Ready')
         /\ current' \in Proc \cup {Idle}
         /\ current' \in Proc => state[current'] = "RUNNABLE"
         /\ SliceInv'
<1> DEFINE again == {p \in Proc : p = current /\ state[p] = "RUNNABLE"}
           q     == IF again = {} THEN runq ELSE Append(runq, current)
           all   == Ready \cup again
<1>1. IsQueueOf(q, all)
  <2>1. CASE again = {}
    BY <2>1 DEF IInv
  <2>2. CASE again # {}
    <3>1. again = {current} /\ current \notin Ready
      BY <2>2 DEF Ready
    <3> QED
      BY <2>2, <3>1, AppendQueue DEF IInv
  <2> QED
    BY <2>1, <2>2
<1>2. all = {p \in Proc : state[p] = "RUNNABLE"}
  BY DEF Ready
<1>3. \/ q = <<>> /\ current' = Idle /\ runq' = q
      \/ \E i \in DOMAIN q : current' = q[i] /\ runq' = list_del(q, i)
  BY DEF Schedule
<1> HIDE DEF q
<1>4. /\ IsQueueOf(runq', all \ {current'})
      /\ current' \in Proc \cup {Idle}
      /\ current' \in Proc => state[current'] = "RUNNABLE"
  <2>1. CASE q = <<>> /\ current' = Idle /\ runq' = q
    <3>1. all = {}
      BY <1>1, <2>1, EmptyQueue
    <3>2. all \ {current'} = {}
      BY <3>1
    <3> HIDE DEF all
    <3> QED
      BY <2>1, <3>1, <3>2, EmptyQueue, SchedAssumption
  <2>2. CASE \E i \in DOMAIN q : current' = q[i] /\ runq' = list_del(q, i)
    <3>1. PICK i \in DOMAIN q : current' = q[i] /\ runq' = list_del(q, i)
      BY <2>2
    <3>2. q[i] \in all
      BY <1>1, QueueElements
    <3> QED
      BY <1>1, <1>2, <3>1, <3>2, RemoveQueue
  <2> QED
    BY <1>3, <2>1, <2>2
<1>5. Ready' = all \ {current'}
  BY <1>2 DEF Ready
<1>6. /\ rq' = LevelsWith(again) /\ time_slice' = SlicesWith(again, {})
      /\ SliceInv
  BY DEF Schedule, IInv
<1>7. ASSUME NEW p \in Proc
      PROVE  /\ time_slice'[p] \in Nat /\ rq'[p] \in 0..Levels
             /\ rq'[p] # 0 => time_slice'[p] <= MaxSlice[rq'[p]]
             /\ p \in Ready' => time_slice'[p] > 0
  <2>1. CASE p \in again
    <3>1. rq'[p] = EnqueueLevel(p) /\ time_slice'[p] = EnqueueSlice(p)
      BY <1>6, <2>1 DEF LevelsWith, SlicesWith
    <3> QED
      BY <1>6, <3>1, EnqueueBounds, SMTT(30)
  <2>2. CASE p \notin again
    <3>1. rq'[p] = rq[p] /\ time_slice'[p] = time_slice[p]
      BY <1>6, <2>2 DEF LevelsWith, SlicesWith
    <3>2. p \in Ready' => p \in Ready
      BY <1>5, <2>2
    <3> QED
      BY <1>6, <3>1, <3>2 DEF SliceInv
  <2> QED
    BY <2>1, <2>2
<1>8. rq' \in [Proc -> 0..Levels] /\ time_slice' \in [Proc -> Nat]
  <2>1. /\ rq' = [p \in Proc |-> rq'[p]]
        /\ time_slice' = [p \in Proc |-> time_slice'[p]]
    BY <1>6 DEF LevelsWith, SlicesWith
  <2> QED
    BY <1>7, <2>1
<1>9. SliceInv'
  <2>1. \A p \in Ready' : p \in Proc
    BY DEF Ready
  <2> QED
    BY <1>7, <1>8, <2>1 DEF SliceInv
<1> QED
  BY <1>4, <1>5, <1>9

\* The threads of a group are processes.
LEMMA ThreadsInProc ==
  ASSUME NEW p \in Proc
  PROVE  Threads(p) \subseteq Proc
BY SchedAssumption DEF Threads

\* What a handler that calls wakeup_proc on the processes S leaves.
Woken(S) ==
  /\ IsQueueOf(runq', Ready')
  /\ SliceInv'
  /\ state' \in [Proc -> State] /\ wait_state' \in [Proc -> WaitState]
  /\ \A p \in Proc :
       /\ (state'[p] = "SLEEPING") <=> (wait_state'[p] # "none")
       /\ wait_state'[p] # "none" => wait_state'[p] = wait_state[p] /\ p \notin S
       /\ state'[p] # "RUNNABLE" => state'[p] = state[p]
       /\ state[p] \in {"RUNNABLE", "ZOMBIE", "UNINIT"} => state'[p] = state[p]

(* A handler that calls wakeup_proc on processes that are neither zombies  *)
(* nor free slots, and that only lets go of timers and wait queues.        *)
LEMMA WakeupKeeps ==
  ASSUME IInv, NEW S \in SUBSET Proc, NEW C, C \subseteq {current},
         Wakeup(S, C), current' = current,
         \A p \in S : state[p] \in {"SLEEPING", "RUNNABLE"}
  PROVE  Woken(S)
<1>1. IsQueueOf(runq', Ready') /\ SliceInv'
  BY WakeupQueue, WakeupSlices
<1>2. /\ state' = [p \in Proc |-> IF p \in Asleep(S) THEN "RUNNABLE"
                                  ELSE state[p]]
      /\ wait_state' = [p \in Proc |-> IF p \in Asleep(S) THEN "none"
                                       ELSE wait_state[p]]
      /\ state \in [Proc -> State] /\ wait_state \in [Proc -> WaitState]
  BY DEF Wakeup, IInv, TypeRest
<1>3. \A p \in Proc : (state[p] = "SLEEPING") <=> (wait_state[p] # "none")
  BY DEF IInv, SleepersAreHeld
<1>4. \A p \in Proc : p \in Asleep(S) <=> p \in S /\ state[p] = "SLEEPING"
  BY DEF Asleep
<1> QED
  BY <1>1, <1>2, <1>3, <1>4 DEF Woken, State, WaitState

-----------------------------------------------------------------------------
\* Every step of the scheduler keeps the inductive invariant.
THEOREM Inductive == IInv /\ [Next]_vars => IInv'
<1> SUFFICES ASSUME IInv, [Next]_vars PROVE IInv'
  OBVIOUS
<1> USE DEF PC, State, WaitState, Interruptible
<1>1. ASSUME IdleSchedule PROVE IInv'
  <2>1. Schedule /\ state' = state /\ wait_state' = wait_state
        /\ timer' = timer /\ linked' = linked /\ exiting' = exiting
    BY <1>1 DEF IdleSchedule
  <2>2. /\ IsQueueOf(runq', Ready') /\ SliceInv'
        /\ current' \in Proc \cup {Idle}
        /\ current' \in Proc => state[current'] = "RUNNABLE"
    BY <2>1, ScheduleQueue
  <2>3. TypeRest'
    BY <1>1, <2>1, <2>2 DEF IInv, TypeRest, Schedule, IdleSchedule
  <2>4. SleepersAreHeld' /\ CurrentRuns'
    BY <2>1, <2>2 DEF IInv, SleepersAreHeld, CurrentRuns
  <2>5. NoDanglingTimer' /\ FreeSlots'
    BY <1>1, <2>1 DEF IInv, TypeRest, NoDanglingTimer, FreeSlots, CurrentRuns, IdleSchedule
  <2> QED
    BY <2>2, <2>3, <2>4, <2>5 DEF IInv
<1>2. ASSUME NEW p \in Proc, TrapSchedule(p) PROVE IInv'
  <2>1. Schedule /\ state' = state /\ wait_state' = wait_state
        /\ timer' = timer /\ linked' = linked /\ exiting' = exiting
    BY <1>2 DEF TrapSchedule
  <2>2. /\ IsQueueOf(runq', Ready') /\ SliceInv'
        /\ current' \in Proc \cup {Idle}
        /\ current' \in Proc => state[current'] = "RUNNABLE"
    BY <2>1, ScheduleQueue
  <2>3. TypeRest'
    BY <1>2, <2>1, <2>2 DEF IInv, TypeRest, Schedule, TrapSchedule
  <2>4. SleepersAreHeld' /\ CurrentRuns'
    BY <2>1, <2>2 DEF IInv, SleepersAreHeld, CurrentRuns
  <2>5. NoDanglingTimer' /\ FreeSlots'
    BY <1>2, <2>1 DEF IInv, TypeRest, NoDanglingTimer, FreeSlots, CurrentRuns, TrapSchedule
  <2> QED
    BY <2>2, <2>3, <2>4, <2>5 DEF IInv
<1>3. ASSUME NEW p \in Proc, Block(p) PROVE IInv'
  <2>1. Schedule /\ state' = state /\ wait_state' = wait_state
        /\ timer' = timer /\ linked' = linked /\ exiting' = exiting
    BY <1>3 DEF Block
  <2>2. /\ IsQueueOf(runq', Ready') /\ SliceInv'
        /\ current' \in Proc \cup {Idle}
        /\ current' \in Proc => state[current'] = "RUNNABLE"
    BY <2>1, ScheduleQueue
  <2>3. TypeRest'
    BY <1>3, <2>1, <2>2 DEF IInv, TypeRest, Schedule, Block
  <2>4. SleepersAreHeld' /\ CurrentRuns'
    BY <2>1, <2>2 DEF IInv, SleepersAreHeld, CurrentRuns
  <2>5. NoDanglingTimer' /\ FreeSlots'
    BY <1>3, <2>1 DEF IInv, TypeRest, NoDanglingTimer, FreeSlots, CurrentRuns, Block
  <2> QED
    BY <2>2, <2>3, <2>4, <2>5 DEF IInv
<1>4. ASSUME Tick PROVE IInv'
  <2> DEFINE S == Expired
  <2>1. S \in SUBSET Proc /\ Wakeup(S, {current}) /\ current' = current
    BY <1>4 DEF Tick, Expired, InUser
  <2>2. \A x \in S : state[x] \in {"SLEEPING", "RUNNABLE"}
    BY <1>4, SMTT(30) DEF IInv, TypeRest, SleepersAreHeld, NoDanglingTimer, FreeSlots,
             CurrentRuns, Tick, Expired, InUser
  <2> HIDE DEF S
  <2>3. Woken(S)
    BY <2>1, <2>2, WakeupKeeps
  <2>4. TypeRest'
    BY <1>4, <2>3, SMTT(30) DEF Woken, IInv, TypeRest, Tick, Expired, InUser
  <2>5. SleepersAreHeld'
    BY <1>4, <2>3, SMTT(30) DEF Woken, IInv, TypeRest, SleepersAreHeld, S, Tick, Expired, InUser
  <2>6. NoDanglingTimer'
    BY <1>4, <2>3, SMTT(30) DEF Woken, IInv, TypeRest, NoDanglingTimer, Tick, Expired, InUser
  <2>7. CurrentRuns' /\ FreeSlots'
    BY <1>4, <2>3 DEF Woken, IInv, TypeRest, CurrentRuns, FreeSlots, Tick, Expired, InUser
  <2> QED
    BY <2>3, <2>4, <2>5, <2>6, <2>7 DEF Woken, IInv
<1>5. ASSUME NEW p \in Proc, ExitSelf(p) PROVE IInv'
  <2>1. runq' = runq /\ Ready' = Ready /\ rq' = rq
    BY <1>5 DEF IInv, TypeRest, Ready, CurrentRuns, ExitSelf
  <2>2. IsQueueOf(runq', Ready') /\ SliceInv'
    BY <1>5, <2>1 DEF IInv, SliceInv, ExitSelf
  <2>3. TypeRest'
    BY <1>5 DEF IInv, TypeRest, ExitSelf
  <2>4. SleepersAreHeld'
    BY <1>5 DEF IInv, TypeRest, SleepersAreHeld, CurrentRuns, NoDanglingTimer, ExitSelf
  <2>5. NoDanglingTimer'
    BY <1>5 DEF IInv, TypeRest, NoDanglingTimer, CurrentRuns, ExitSelf
  <2>6. CurrentRuns' /\ FreeSlots'
    BY <1>5 DEF IInv, TypeRest, CurrentRuns, FreeSlots, ExitSelf
  <2> QED
    BY <2>2, <2>3, <2>4, <2>5, <2>6 DEF IInv
<1>6. ASSUME NEW p \in Proc, TrapReturn(p) PROVE IInv'
  <2>1. runq' = runq /\ Ready' = Ready /\ rq' = rq
    BY <1>6 DEF IInv, TypeRest, Ready, CurrentRuns, TrapReturn, AtDoSignal
  <2>2. IsQueueOf(runq', Ready') /\ SliceInv'
    BY <1>6, <2>1 DEF IInv, SliceInv, TrapReturn, AtDoSignal
  <2>3. TypeRest'
    BY <1>6 DEF IInv, TypeRest, TrapReturn, AtDoSignal
  <2>4. SleepersAreHeld'
    BY <1>6 DEF IInv, TypeRest, SleepersAreHeld, CurrentRuns, NoDanglingTimer, TrapReturn, AtDoSignal
  <2>5. NoDanglingTimer'
    BY <1>6 DEF IInv, TypeRest, NoDanglingTimer, CurrentRuns, TrapReturn, AtDoSignal
  <2>6. CurrentRuns' /\ FreeSlots'
    BY <1>6 DEF IInv, TypeRest, CurrentRuns, FreeSlots, TrapReturn, AtDoSignal
  <2> QED
    BY <2>2, <2>3, <2>4, <2>5, <2>6 DEF IInv
<1>7. ASSUME NEW p \in Proc, Resume(p) PROVE IInv'
  <2>1. runq' = runq /\ Ready' = Ready /\ rq' = rq
    BY <1>7 DEF IInv, TypeRest, Ready, CurrentRuns, Resume, del_timer
  <2>2. IsQueueOf(runq', Ready') /\ SliceInv'
    BY <1>7, <2>1 DEF IInv, SliceInv, Resume, del_timer
  <2>3. TypeRest'
    BY <1>7 DEF IInv, TypeRest, Resume, del_timer
  <2>4. SleepersAreHeld'
    BY <1>7 DEF IInv, TypeRest, SleepersAreHeld, CurrentRuns, NoDanglingTimer, Resume, del_timer
  <2>5. NoDanglingTimer'
    BY <1>7, SMTT(30) DEF IInv, TypeRest, NoDanglingTimer, CurrentRuns, Resume, del_timer
  <2>6. CurrentRuns' /\ FreeSlots'
    BY <1>7 DEF IInv, TypeRest, CurrentRuns, FreeSlots, Resume, del_timer
  <2> QED
    BY <2>2, <2>3, <2>4, <2>5, <2>6 DEF IInv
<1>8. ASSUME NEW p \in Proc, do_yield(p) PROVE IInv'
  <2>1. runq' = runq /\ Ready' = Ready /\ rq' = rq
    BY <1>8 DEF IInv, TypeRest, Ready, CurrentRuns, do_yield, InUser
  <2>2. IsQueueOf(runq', Ready') /\ SliceInv'
    BY <1>8, <2>1 DEF IInv, SliceInv, do_yield, InUser
  <2>3. TypeRest'
    BY <1>8 DEF IInv, TypeRest, do_yield, InUser
  <2>4. SleepersAreHeld'
    BY <1>8 DEF IInv, TypeRest, SleepersAreHeld, CurrentRuns, NoDanglingTimer, do_yield, InUser
  <2>5. NoDanglingTimer'
    BY <1>8 DEF IInv, TypeRest, NoDanglingTimer, CurrentRuns, do_yield, InUser
  <2>6. CurrentRuns' /\ FreeSlots'
    BY <1>8 DEF IInv, TypeRest, CurrentRuns, FreeSlots, do_yield, InUser
  <2> QED
    BY <2>2, <2>3, <2>4, <2>5, <2>6 DEF IInv
<1>9. ASSUME NEW p \in Proc, NEW t \in Times, do_sleep(p, t) PROVE IInv'
  <2>0. t \in Nat \ {0}
    BY SchedAssumption
  <2>1. runq' = runq /\ Ready' = Ready /\ rq' = rq
    BY <1>9, <2>0 DEF IInv, TypeRest, Ready, CurrentRuns, do_sleep, InUser
  <2>2. IsQueueOf(runq', Ready') /\ SliceInv'
    BY <1>9, <2>1 DEF IInv, SliceInv, do_sleep, InUser
  <2>3. TypeRest'
    BY <1>9, <2>0 DEF IInv, TypeRest, do_sleep, InUser
  <2>4. SleepersAreHeld'
    BY <1>9, <2>0, SMTT(30) DEF IInv, TypeRest, SleepersAreHeld, CurrentRuns, NoDanglingTimer, do_sleep, InUser
  <2>5. NoDanglingTimer'
    BY <1>9, <2>0 DEF IInv, TypeRest, NoDanglingTimer, CurrentRuns, do_sleep, InUser
  <2>6. CurrentRuns' /\ FreeSlots'
    BY <1>9, <2>0 DEF IInv, TypeRest, CurrentRuns, FreeSlots, do_sleep, InUser
  <2> QED
    BY <2>2, <2>3, <2>4, <2>5, <2>6 DEF IInv
<1>10. ASSUME NEW p \in Proc, NEW w \in {"WT_KSEM", "WT_USEM"},
             NEW t \in Times \cup {0}, wait_current_set(p, w, t) PROVE IInv'
  <2>0. t \in Nat
    BY SchedAssumption, SMTT(30)
  <2>1. runq' = runq /\ Ready' = Ready /\ rq' = rq
    BY <1>10, <2>0 DEF IInv, TypeRest, Ready, CurrentRuns, wait_current_set, InUser
  <2>2. IsQueueOf(runq', Ready') /\ SliceInv'
    BY <1>10, <2>1 DEF IInv, SliceInv, wait_current_set, InUser
  <2>3. TypeRest'
    BY <1>10, <2>0 DEF IInv, TypeRest, wait_current_set, InUser
  <2>4. SleepersAreHeld'
    BY <1>10, <2>0 DEF IInv, TypeRest, SleepersAreHeld, CurrentRuns, NoDanglingTimer, wait_current_set, InUser
  <2>5. NoDanglingTimer'
    BY <1>10, <2>0 DEF IInv, TypeRest, NoDanglingTimer, CurrentRuns, wait_current_set, InUser
  <2>6. CurrentRuns' /\ FreeSlots'
    BY <1>10, <2>0 DEF IInv, TypeRest, CurrentRuns, FreeSlots, wait_current_set, InUser
  <2> QED
    BY <2>2, <2>3, <2>4, <2>5, <2>6 DEF IInv
<1>11. ASSUME NEW q \in Proc, wakeup_wait(q) PROVE IInv'
  <2> DEFINE S == {q}
  <2>1. S \in SUBSET Proc /\ Wakeup(S, {}) /\ current' = current
    BY <1>11 DEF wakeup_wait
  <2>2. \A x \in S : state[x] \in {"SLEEPING", "RUNNABLE"}
    BY <1>11 DEF IInv, TypeRest, SleepersAreHeld, NoDanglingTimer, FreeSlots,
             CurrentRuns, wakeup_wait
  <2> HIDE DEF S
  <2>3. Woken(S)
    BY <2>1, <2>2, WakeupKeeps
  <2>4. TypeRest'
    BY <1>11, <2>3 DEF Woken, IInv, TypeRest, wakeup_wait
  <2>5. SleepersAreHeld'
    BY <1>11, <2>3 DEF Woken, IInv, TypeRest, SleepersAreHeld, S, wakeup_wait
  <2>6. NoDanglingTimer'
    BY <1>11, <2>3 DEF Woken, IInv, TypeRest, NoDanglingTimer, wakeup_wait
  <2>7. CurrentRuns' /\ FreeSlots'
    BY <1>11, <2>3 DEF Woken, IInv, TypeRest, CurrentRuns, FreeSlots, wakeup_wait
  <2> QED
    BY <2>3, <2>4, <2>5, <2>6, <2>7 DEF Woken, IInv
<1>12. ASSUME NEW p \in Proc, NEW q \in Proc, do_kill(p, q) PROVE IInv'
  <2> DEFINE S == {q} \cap {r \in Proc : wait_state[r] \in Interruptible}
  <2>1. S \in SUBSET Proc /\ Wakeup(S, {}) /\ current' = current
    BY <1>12 DEF do_kill, InUser
  <2>2. \A x \in S : state[x] \in {"SLEEPING", "RUNNABLE"}
    BY <1>12 DEF IInv, TypeRest, SleepersAreHeld, NoDanglingTimer, FreeSlots,
             CurrentRuns, do_kill, InUser
  <2> HIDE DEF S
  <2>3. Woken(S)
    BY <2>1, <2>2, WakeupKeeps
  <2>4. TypeRest'
    BY <1>12, <2>3 DEF Woken, IInv, TypeRest, do_kill, InUser
  <2>5. SleepersAreHeld'
    BY <1>12, <2>3 DEF Woken, IInv, TypeRest, SleepersAreHeld, S, do_kill, InUser
  <2>6. NoDanglingTimer'
    BY <1>12, <2>3, SMTT(30) DEF Woken, IInv, TypeRest, NoDanglingTimer, do_kill, InUser
  <2>7. CurrentRuns' /\ FreeSlots'
    BY <1>12, <2>3, SMTT(30) DEF Woken, IInv, TypeRest, CurrentRuns, FreeSlots, do_kill, InUser
  <2> QED
    BY <2>3, <2>4, <2>5, <2>6, <2>7 DEF Woken, IInv
<1>13. ASSUME NEW p \in Proc, do_exit(p) PROVE IInv'
  <2> DEFINE S == {q \in Threads(p) \ ({p} \cup exiting) :
                    wait_state[q] \in Interruptible}
  <2>1. S \in SUBSET Proc /\ Wakeup(S, {}) /\ current' = current
    BY <1>13, ThreadsInProc DEF do_exit
  <2>2. \A x \in S : state[x] \in {"SLEEPING", "RUNNABLE"}
    BY <1>13 DEF IInv, TypeRest, SleepersAreHeld, NoDanglingTimer, FreeSlots,
             CurrentRuns, do_exit, InUser, AtDoSignal, Threads, Alive
  <2> HIDE DEF S
  <2>3. Woken(S)
    BY <2>1, <2>2, WakeupKeeps
  <2>4. TypeRest'
    BY <1>13, <2>3, ThreadsInProc DEF Woken, IInv, TypeRest, do_exit
  <2>5. SleepersAreHeld'
    BY <1>13, <2>3 DEF Woken, IInv, TypeRest, SleepersAreHeld, S, do_exit, InUser, AtDoSignal, Threads, Alive
  <2>6. NoDanglingTimer'
    BY <1>13, <2>3, SMTT(30) DEF Woken, IInv, TypeRest, NoDanglingTimer, do_exit, InUser, AtDoSignal, Threads, Alive
  <2>7. CurrentRuns' /\ FreeSlots'
    BY <1>13, <2>3, SMTT(30) DEF Woken, IInv, TypeRest, CurrentRuns, FreeSlots, do_exit, InUser, AtDoSignal, Threads, Alive
  <2> QED
    BY <2>3, <2>4, <2>5, <2>6, <2>7 DEF Woken, IInv
<1>14. ASSUME NEW p \in Proc, do_exit_thread(p) PROVE IInv'
  <2>1. runq' = runq /\ Ready' = Ready /\ rq' = rq
    BY <1>14 DEF IInv, TypeRest, Ready, CurrentRuns, do_exit_thread, InUser
  <2>2. IsQueueOf(runq', Ready') /\ SliceInv'
    BY <1>14, <2>1 DEF IInv, SliceInv, do_exit_thread, InUser
  <2>3. TypeRest'
    BY <1>14 DEF IInv, TypeRest, do_exit_thread, InUser
  <2>4. SleepersAreHeld'
    BY <1>14 DEF IInv, TypeRest, SleepersAreHeld, CurrentRuns, NoDanglingTimer, do_exit_thread, InUser
  <2>5. NoDanglingTimer'
    BY <1>14 DEF IInv, TypeRest, NoDanglingTimer, CurrentRuns, do_exit_thread, InUser
  <2>6. CurrentRuns' /\ FreeSlots'
    BY <1>14 DEF IInv, TypeRest, CurrentRuns, FreeSlots, do_exit_thread, InUser
  <2> QED
    BY <2>2, <2>3, <2>4, <2>5, <2>6 DEF IInv
<1>15. ASSUME NEW p \in Proc, NEW q \in Proc, NEW sigkill \in BOOLEAN, 
             signal_wakeup(p, q, sigkill) PROVE IInv'
  <2> DEFINE S == {q} \cup {r \in Threads(q) : wait_state[r] = "WT_SIGNAL"}
  <2>1. S \in SUBSET Proc /\ Wakeup(S, {}) /\ current' = current
    BY <1>15, ThreadsInProc DEF signal_wakeup
  <2>2. \A x \in S : state[x] \in {"SLEEPING", "RUNNABLE"}
    BY <1>15 DEF IInv, TypeRest, SleepersAreHeld, NoDanglingTimer, FreeSlots,
             CurrentRuns, signal_wakeup, SignalWakes, InUser,
             Threads, Alive
  <2> HIDE DEF S
  <2>3. Woken(S)
    BY <2>1, <2>2, WakeupKeeps
  <2>4. TypeRest'
    BY <1>15, <2>3 DEF Woken, IInv, TypeRest, signal_wakeup, SignalWakes, InUser,
             Threads, Alive
  <2>5. SleepersAreHeld'
    BY <1>15, <2>3 DEF Woken, IInv, TypeRest, SleepersAreHeld, S, signal_wakeup, SignalWakes, InUser,
             Threads, Alive
  <2>6. NoDanglingTimer'
    BY <1>15, <2>3, SMTT(30) DEF Woken, IInv, TypeRest, NoDanglingTimer, signal_wakeup, SignalWakes, InUser,
             Threads, Alive
  <2>7. CurrentRuns' /\ FreeSlots'
    BY <1>15, <2>3, SMTT(30) DEF Woken, IInv, TypeRest, CurrentRuns, FreeSlots, signal_wakeup, SignalWakes, InUser,
             Threads, Alive
  <2> QED
    BY <2>3, <2>4, <2>5, <2>6, <2>7 DEF Woken, IInv
<1>16. ASSUME NEW p \in Proc, do_signal_stop(p) PROVE IInv'
  <2> DEFINE stopped == {q \in Threads(p) \ exiting :
                           state[q] = "RUNNABLE"
                             \/ wait_state[q] \in Interruptible}
  <2>1. IsQueueOf(runq', Ready')
    <3>1. Ready' = Ready \cap (Proc \ stopped)
      BY <1>16 DEF IInv, TypeRest, Ready, do_signal_stop
    <3>2. IsFiniteSet(Ready')
      <4>1. Ready' \in SUBSET Proc
        BY DEF Ready
      <4> QED
        BY <4>1, SchedAssumption, FS_Subset
    <3>3. runq' \in Kept(runq, Proc \ stopped)
      BY <1>16 DEF do_signal_stop
    <3>4. runq' \in Listings(Range(runq) \cap (Proc \ stopped))
      BY <3>3 DEF Kept
    <3>5. Range(runq) = Ready
      BY QueueElements DEF IInv
    <3> QED
      BY <3>1, <3>2, <3>4, <3>5, EnumerationQueue
  <2>2. SliceInv'
    BY <1>16 DEF IInv, TypeRest, SliceInv, Ready, do_signal_stop
  <2>3. TypeRest'
    BY <1>16 DEF IInv, TypeRest, do_signal_stop, AtDoSignal, Threads, Alive
  <2>4. SleepersAreHeld'
    BY <1>16 DEF IInv, TypeRest, SleepersAreHeld, CurrentRuns, NoDanglingTimer, do_signal_stop, AtDoSignal, Threads, Alive
  <2>5. NoDanglingTimer'
    BY <1>16 DEF IInv, TypeRest, NoDanglingTimer, CurrentRuns, do_signal_stop, AtDoSignal, Threads, Alive
  <2>6. CurrentRuns' /\ FreeSlots'
    BY <1>16 DEF IInv, TypeRest, CurrentRuns, FreeSlots, do_signal_stop, AtDoSignal, Threads, Alive
  <2> QED
    BY <2>1, <2>2, <2>3, <2>4, <2>5, <2>6 DEF IInv
<1>17. ASSUME NEW p \in Proc, NEW q \in Proc, do_fork(p, q) PROVE IInv'
  <2>1. IsQueueOf(runq', Ready')
    <3>1. p # q
      BY <1>17 DEF IInv, CurrentRuns, do_fork, InUser
    <3>2. Ready' = Ready \cup {q} /\ q \notin Ready /\ runq' = Append(runq, q)
      BY <1>17, <3>1 DEF IInv, TypeRest, Ready, do_fork, InUser
    <3> QED
      BY <3>2, AppendQueue DEF IInv
  <2>2. SliceInv'
    <3> DEFINE h == ForkSlice(p)
    <3>1. p # q /\ current = p /\ current' = p
      BY <1>17 DEF IInv, CurrentRuns, do_fork, InUser
    <3>2. h \in Nat /\ time_slice[p] \in Nat /\ h <= time_slice[p]
      BY SMTT(30) DEF IInv, SliceInv, ForkSlice
    <3>3. 1 \in 1..Levels /\ MaxSlice[1] \in Nat \ {0}
      BY SchedAssumption, SMTT(30)
    <3> HIDE DEF h
    <3>4. /\ time_slice' = [time_slice EXCEPT
                ![p] = @ - h,
                ![q] = IF h = 0 \/ h > MaxSlice[1] THEN MaxSlice[1] ELSE h]
          /\ rq' = [rq EXCEPT ![q] = 1]
          /\ state' = [state EXCEPT ![q] = "RUNNABLE"]
      BY <1>17 DEF do_fork, h
    <3>5. time_slice' \in [Proc -> Nat] /\ rq' \in [Proc -> 0..Levels]
      BY <3>2, <3>3, <3>4, SMTT(30) DEF IInv, SliceInv
    <3>6. ASSUME NEW r \in Proc
          PROVE  /\ rq'[r] # 0 => time_slice'[r] <= MaxSlice[rq'[r]]
                 /\ r \in Ready' => time_slice'[r] > 0
      <4>1. CASE r = q
        BY <3>1, <3>2, <3>3, <3>4, <4>1, SMTT(30) DEF IInv, SliceInv
      <4>2. CASE r = p
        <5>1. /\ time_slice'[r] = time_slice[r] - h /\ rq'[r] = rq[r]
              /\ r \notin Ready'
          BY <3>1, <3>4, <4>2 DEF IInv, SliceInv, Ready
        <5>2. rq[r] # 0 => MaxSlice[rq[r]] \in Nat
                           /\ time_slice[r] <= MaxSlice[rq[r]]
          BY SchedAssumption, SMTT(30) DEF IInv, SliceInv
        <5> QED
          BY <3>2, <4>2, <5>1, <5>2, SMTT(30)
      <4>3. CASE r # p /\ r # q
        BY <3>1, <3>4, <4>3 DEF IInv, SliceInv, Ready, TypeRest
      <4> QED
        BY <4>1, <4>2, <4>3
    <3>7. \A r \in Ready' : r \in Proc
      BY DEF Ready
    <3> QED
      BY <3>5, <3>6, <3>7 DEF SliceInv
  <2>3. TypeRest'
    BY <1>17 DEF IInv, TypeRest, do_fork, InUser
  <2>4. SleepersAreHeld'
    BY <1>17 DEF IInv, TypeRest, SleepersAreHeld, CurrentRuns, NoDanglingTimer, do_fork, InUser
  <2>5. NoDanglingTimer'
    BY <1>17 DEF IInv, TypeRest, NoDanglingTimer, CurrentRuns, do_fork, InUser
  <2>6. CurrentRuns' /\ FreeSlots'
    BY <1>17 DEF IInv, TypeRest, CurrentRuns, FreeSlots, do_fork, InUser
  <2> QED
    BY <2>1, <2>2, <2>3, <2>4, <2>5, <2>6 DEF IInv
<1>18. ASSUME NEW p \in Proc, do_fork_fails(p) PROVE IInv'
  <2>1. runq' = runq /\ Ready' = Ready /\ rq' = rq
    BY <1>18 DEF IInv, TypeRest, Ready, CurrentRuns, do_fork_fails, InUser
  <2>2. IsQueueOf(runq', Ready') /\ SliceInv'
    <3>1. /\ time_slice[p] \in Nat /\ ForkSlice(p) \in Nat
          /\ ForkSlice(p) <= time_slice[p] /\ p \notin Ready
      BY <1>18, SMTT(30) DEF IInv, SliceInv, ForkSlice, Ready, do_fork_fails, InUser
    <3>2. \A r \in Proc : rq[r] # 0 => MaxSlice[rq[r]] \in Nat
      BY SchedAssumption, SMTT(30) DEF IInv, SliceInv
    <3> QED
      BY <1>18, <2>1, <3>1, <3>2, SMTT(30) DEF IInv, SliceInv, do_fork_fails
  <2>3. TypeRest'
    BY <1>18 DEF IInv, TypeRest, do_fork_fails, InUser
  <2>4. SleepersAreHeld'
    BY <1>18 DEF IInv, TypeRest, SleepersAreHeld, CurrentRuns, NoDanglingTimer, do_fork_fails, InUser
  <2>5. NoDanglingTimer'
    BY <1>18 DEF IInv, TypeRest, NoDanglingTimer, CurrentRuns, do_fork_fails, InUser
  <2>6. CurrentRuns' /\ FreeSlots'
    BY <1>18 DEF IInv, TypeRest, CurrentRuns, FreeSlots, do_fork_fails, InUser
  <2> QED
    BY <2>2, <2>3, <2>4, <2>5, <2>6 DEF IInv
<1>19. ASSUME NEW p \in Proc, NEW q \in Proc, do_wait(p, q) PROVE IInv'
  <2>1. runq' = runq /\ Ready' = Ready
    BY <1>19 DEF IInv, TypeRest, Ready, do_wait, InUser
  <2>2. IsQueueOf(runq', Ready') /\ SliceInv'
    <3>1. q \notin Ready
      BY <1>19 DEF Ready, do_wait
    <3> QED
      BY <1>19, <2>1, <3>1, SchedAssumption, SMTT(30) DEF IInv, SliceInv, do_wait
  <2>3. TypeRest'
    BY <1>19 DEF IInv, TypeRest, do_wait, InUser
  <2>4. SleepersAreHeld'
    BY <1>19 DEF IInv, TypeRest, SleepersAreHeld, CurrentRuns, NoDanglingTimer, do_wait, InUser
  <2>5. NoDanglingTimer'
    BY <1>19 DEF IInv, TypeRest, NoDanglingTimer, CurrentRuns, do_wait, InUser
  <2>6. CurrentRuns' /\ FreeSlots'
    BY <1>19 DEF IInv, TypeRest, CurrentRuns, FreeSlots, do_wait, InUser
  <2> QED
    BY <2>2, <2>3, <2>4, <2>5, <2>6 DEF IInv
<1>20. ASSUME UNCHANGED vars PROVE IInv'
  BY <1>20 DEF IInv, vars, TypeRest, Ready, SliceInv, SleepersAreHeld, NoDanglingTimer,
     CurrentRuns, FreeSlots
<1> QED
  BY <1>1, <1>2, <1>3, <1>4, <1>5, <1>6, <1>7, <1>8, <1>9, <1>10,
     <1>11, <1>12, <1>13, <1>14, <1>15, <1>16, <1>17, <1>18, <1>19, <1>20
     DEF Next, Kernel, Syscall

\* The state proc_init leaves.
THEOREM Initial == Init => IInv
<1> SUFFICES ASSUME Init PROVE IInv
  OBVIOUS
<1>1. PICK p \in Proc :
        /\ state = [q \in Proc |-> IF q = p THEN "RUNNABLE" ELSE "UNINIT"]
        /\ wait_state = [q \in Proc |-> "none"]
        /\ exiting = {}
        /\ need_resched = {Idle}
        /\ time_slice = [q \in Proc |-> IF q = p THEN MaxSlice[1] ELSE 0]
        /\ rq = [q \in Proc |-> IF q = p THEN 1 ELSE 0]
        /\ runq = <<p>>
        /\ timer = [q \in Proc |-> 0]
        /\ linked = {}
        /\ current = Idle
        /\ pc = [q \in Proc |-> "user"]
  BY DEF Init
<1>2. Ready = {p}
  BY <1>1, SchedAssumption DEF Ready
<1>3. IsQueueOf(runq, Ready)
  BY <1>1, <1>2, SMTT(30) DEF IsQueueOf
<1>4. TypeRest
  BY <1>1 DEF TypeRest, State, WaitState, PC
<1>5. SliceInv
  <2>1. 1 \in 1..Levels /\ 0 \in 0..Levels /\ MaxSlice[1] \in Nat \ {0}
    BY SchedAssumption, SMTT(30)
  <2> QED
    BY <1>1, <1>2, <2>1, SMTT(30) DEF SliceInv
<1>6. SleepersAreHeld /\ NoDanglingTimer
  BY <1>1, SMTT(30) DEF SleepersAreHeld, NoDanglingTimer
<1>7. CurrentRuns /\ FreeSlots
  BY <1>1, SchedAssumption DEF CurrentRuns, FreeSlots
<1> QED
  BY <1>3, <1>4, <1>5, <1>6, <1>7 DEF IInv

\* The inductive invariant holds in every state the scheduler reaches.
THEOREM Invariant == Spec => []IInv
BY Initial, Inductive, PTL DEF Spec

-----------------------------------------------------------------------------
\* The variables keep their types: no slice becomes negative, and the run
\* queues hold processes only.
THEOREM TypeCorrect == Spec => []TypeOK
<1>1. IInv => TypeOK
  BY ReadyQueue DEF IInv, TypeRest, SliceInv, TypeOK
<1> QED
  BY <1>1, Invariant, PTL

\* The run queues hold exactly the RUNNABLE processes that are not on the
\* CPU, each once, through every interleaving of wakeup_proc, stop_proc,
\* schedule() and the timer interrupt.
THEOREM RunQueueCorrect == Spec => []RunQueueExact
<1>1. IInv => RunQueueExact
  BY ReadyQueue DEF IInv
<1> QED
  BY <1>1, Invariant, PTL

\* Every sleeper is held by its timer or by a wait queue.
THEOREM SleepersCorrect == Spec => []SleepersAreHeld
<1>1. IInv => SleepersAreHeld
  BY DEF IInv
<1> QED
  BY <1>1, Invariant, PTL

\* No timer and no wait queue outlives the call of its process.
THEOREM TimersCorrect == Spec => []NoDanglingTimer
<1>1. IInv => NoDanglingTimer
  BY DEF IInv
<1> QED
  BY <1>1, Invariant, PTL

\* Slices stay within the bounds of their queues.
THEOREM SlicesCorrect == Spec => []SlicesInBounds
<1>1. IInv => SlicesInBounds
  <2>1. ASSUME IInv PROVE Range(runq) = Ready
    BY <2>1, QueueElements DEF IInv
  <2> QED
    BY <2>1 DEF IInv, SliceInv, SlicesInBounds
<1> QED
  BY <1>1, Invariant, PTL

\* The states of a process change along the diagram of proc.c.
THEOREM StateDiagramCorrect == Spec => StateDiagram
<1> DEFINE Edge(p) ==
      state'[p] # state[p] =>
        <<state[p], state'[p]>> \in
          {<<"UNINIT", "RUNNABLE">>, <<"RUNNABLE", "SLEEPING">>,
           <<"SLEEPING", "RUNNABLE">>, <<"RUNNABLE", "ZOMBIE">>,
           <<"ZOMBIE", "UNINIT">>}
<1>1. ASSUME IInv, Next PROVE \A p \in Proc : Edge(p)
  <2> SUFFICES ASSUME NEW r \in Proc PROVE Edge(r)
    OBVIOUS
  <2> USE DEF Interruptible
  <2>1. CASE IdleSchedule
    BY <2>1 DEF IdleSchedule
  <2>2. CASE Tick
    <3>1. r \in Expired => state[r] \in {"SLEEPING", "RUNNABLE"}
      BY <1>1, SMTT(30) DEF IInv, TypeRest, State, NoDanglingTimer, FreeSlots, Expired
    <3> QED
      BY <1>1, <2>2, <3>1 DEF IInv, TypeRest, Tick, Wakeup, Asleep
  <2>3. ASSUME NEW p \in Proc, Kernel(p) PROVE Edge(r)
    <3>1. CASE ExitSelf(p)
      BY <1>1, <3>1 DEF IInv, TypeRest, CurrentRuns, ExitSelf
    <3>2. CASE ~ExitSelf(p)
      BY <2>3, <3>2 DEF Kernel, TrapSchedule, TrapReturn, Block, Resume
    <3> QED
      BY <3>1, <3>2
  <2>4. ASSUME NEW p \in Proc, Syscall(p) PROVE Edge(r)
    <3>1. CASE \/ do_yield(p) \/ do_exit_thread(p) \/ do_fork_fails(p)
      BY <3>1 DEF do_yield, do_exit_thread, do_fork_fails
    <3>2. CASE do_exit(p)
      BY <1>1, <3>2 DEF IInv, TypeRest, SleepersAreHeld, do_exit, Wakeup, Asleep
    <3>3. CASE \E t \in Times : do_sleep(p, t)
      BY <1>1, <3>3 DEF IInv, TypeRest, CurrentRuns, do_sleep, InUser
    <3>4. CASE \E w \in {"WT_KSEM", "WT_USEM"}, t \in Times \cup {0} :
                 wait_current_set(p, w, t)
      BY <1>1, <3>4 DEF IInv, TypeRest, CurrentRuns, wait_current_set, InUser
    <3>5. ASSUME NEW q \in Proc, do_kill(p, q) PROVE Edge(r)
      BY <1>1, <3>5 DEF IInv, TypeRest, SleepersAreHeld, do_kill, Wakeup, Asleep
    <3>6. ASSUME NEW q \in Proc, do_fork(p, q) PROVE Edge(r)
      BY <1>1, <3>6 DEF IInv, TypeRest, do_fork
    <3>7. ASSUME NEW q \in Proc, do_wait(p, q) PROVE Edge(r)
      BY <1>1, <3>7 DEF IInv, TypeRest, do_wait
    <3>8. ASSUME NEW q \in Proc, NEW sigkill \in BOOLEAN,
                 signal_wakeup(p, q, sigkill)
          PROVE Edge(r)
      BY <1>1, <3>8 DEF IInv, TypeRest, SleepersAreHeld, signal_wakeup,
                        SignalWakes, Wakeup, Asleep
    <3> QED
      BY <2>4, <3>1, <3>2, <3>3, <3>4, <3>5, <3>6, <3>7, <3>8 DEF Syscall
  <2>5. ASSUME NEW p \in Proc, do_signal_stop(p) PROVE Edge(r)
    BY <1>1, <2>5 DEF IInv, TypeRest, SleepersAreHeld, do_signal_stop
  <2>6. ASSUME NEW p \in Proc, wakeup_wait(p) PROVE Edge(r)
    <3>1. p \in linked /\ (r = p => state[r] \in {"SLEEPING", "RUNNABLE"})
      BY <1>1, <2>6 DEF IInv, TypeRest, State, NoDanglingTimer, FreeSlots,
                        wakeup_wait
    <3> QED
      BY <1>1, <2>6, <3>1 DEF IInv, TypeRest, wakeup_wait, Wakeup, Asleep
  <2> QED
    BY <1>1, <2>1, <2>2, <2>3, <2>4, <2>5, <2>6 DEF Next
<1>2. IInv /\ [Next]_vars => [\A p \in Proc : Edge(p)]_vars
  BY <1>1
<1>3. (\A p \in Proc : Edge(p)) <=>
        \A p \in Proc : state'[p] # state[p] =>
          <<state[p], state'[p]>> \in
            {<<"UNINIT", "RUNNABLE">>, <<"RUNNABLE", "SLEEPING">>,
             <<"SLEEPING", "RUNNABLE">>, <<"RUNNABLE", "ZOMBIE">>,
             <<"ZOMBIE", "UNINIT">>}
  OBVIOUS
<1> QED
  BY <1>2, Invariant, PTL DEF Spec, StateDiagram
=============================================================================
