----------------------------- MODULE SyncProofs -----------------------------
(***************************************************************************)
(* Proofs about the waits of sync/: the lock of an address space (MmLock)  *)
(* and events (Event), for any number of processes.  A SIGKILL may end the *)
(* wait for the lock.                                                      *)
(***************************************************************************)
EXTENDS MmLock, Event, QueueLemmas

USE ZenonT(30)

\* The threads in down() that up() has not chosen.
Waiting == {p \in Thread : /\ pc[p] \in {"lock", "faultlock"}
                         /\ wakeup_flags[p] = "WT_INTERRUPTED"}

\* The types of the variables other than the queue and panic.
TypeRest ==
  /\ value \in 0..1
  /\ asleep \subseteq Waiting
  /\ wakeup_flags \in [Thread -> {"WT_INTERRUPTED", "WT_KSEM"}]
  /\ locked_by \in Thread \cup {NoProc}
  /\ pc \in [Thread -> PC]

\* One thread has the lock, and a free lock is nobody's.
OneHolder == /\ \A p, q \in Holders : p = q
             /\ value = 1 => Holders = {}

\* The queue holds who waits, and nobody waits for a free lock.
QueueExact == /\ IsQueueOf(wait_queue, Waiting)
              /\ value = 1 => Waiting = {}

(* The inductive invariant.  That the lock is exclusive is not inductive:  *)
(* up() gives the lock to the thread at the head of the queue, which must  *)
(* be one that waits, and down() takes a free lock, which must have no     *)
(* holder.  After a failed assertion the queue no longer matters.          *)
IInv ==
  /\ TypeRest
  /\ OneHolder
  /\ LockedByHolder
  /\ ~panic => QueueExact

-----------------------------------------------------------------------------
\* The lock is free, and nobody waits for it, when mm_create has made it.
LEMMA Initially == Init => IInv
<1> SUFFICES ASSUME Init PROVE IInv
  OBVIOUS
<1>1. Waiting = {} /\ Holders = {}
  BY DEF Init, Waiting, Holders, Granted
<1>2. IsQueueOf(wait_queue, Waiting)
  BY <1>1, EmptyQueue DEF Init
<1>3. TypeRest
  BY <1>1, SMTT(30) DEF Init, TypeRest, PC
<1>4. LockedByHolder
  BY MmLockAssumption DEF Init, LockedByHolder
<1> QED
  BY <1>1, <1>2, <1>3, <1>4 DEF IInv, OneHolder, QueueExact

\* What lock_mm and do_pgfault do with a free lock.
LEMMA Takes ==
  ASSUME IInv, ~panic, NEW p \in Thread, CanTake, Take(p),
         NEW at \in {"in", "fault"}, pc' = [pc EXCEPT ![p] = at], UNCHANGED panic
  PROVE  /\ IInv'
         /\ Holders = {} /\ Holders' = {p}
<1>1. value = 1 /\ Holders = {} /\ Waiting = {} /\ value' = 0
  BY SMTT(30) DEF IInv, TypeRest, OneHolder, QueueExact, CanTake, Take
<1>2. Holders' = {p} /\ Waiting' = {}
  BY <1>1 DEF IInv, TypeRest, Holders, Granted, Waiting, Take
<1>3. TypeRest'
  BY <1>1, <1>2, SMTT(30) DEF IInv, TypeRest, Take, PC
<1>4. LockedByHolder'
  BY <1>1, MmLockAssumption DEF IInv, TypeRest, LockedByHolder, Take, Holders
<1>5. IsQueueOf(wait_queue', Waiting')
  BY <1>1, <1>2 DEF IInv, QueueExact, Take
<1> QED
  BY <1>1, <1>2, <1>3, <1>4, <1>5, SMTT(30) DEF IInv, OneHolder, QueueExact

\* What lock_mm and do_pgfault do with a lock that is taken.
LEMMA Waits ==
  ASSUME IInv, ~panic, NEW p \in Thread, pc[p] = "out", ~CanTake, Wait(p),
         NEW at \in {"lock", "faultlock"}, pc' = [pc EXCEPT ![p] = at],
         UNCHANGED panic
  PROVE  IInv' /\ Holders' = Holders
<1>1. value = 0 /\ value' = 0
  BY SMTT(30) DEF IInv, TypeRest, CanTake, Wait
<1>2. Holders' = Holders /\ Waiting' = Waiting \cup {p} /\ p \notin Waiting
  BY DEF IInv, TypeRest, Holders, Granted, Waiting, Wait
<1>3. TypeRest'
  BY <1>1, <1>2 DEF IInv, TypeRest, Wait, PC
<1>4. LockedByHolder'
  BY MmLockAssumption DEF IInv, TypeRest, LockedByHolder, Wait
<1>5. IsQueueOf(wait_queue', Waiting')
  BY <1>2, AppendQueue DEF IInv, QueueExact, Wait
<1> QED
  BY <1>1, <1>2, <1>3, <1>4, <1>5, SMTT(30) DEF IInv, OneHolder, QueueExact

\* Back from schedule(): who was chosen by up() goes on with the lock, who
\* was not fails the assertion and changes nothing about the lock.
LEMMA DownReturns ==
  ASSUME IInv, ~panic, NEW p \in Thread, down_returns(p)
  PROVE  IInv' /\ Holders' = Holders
<1>1. CASE wakeup_flags[p] = "WT_KSEM"
  <2>1. p \in Holders /\ value' = 0 /\ p \notin Waiting
    BY <1>1, SMTT(30) DEF IInv, TypeRest, OneHolder, Holders, Granted, Waiting, down_returns
  <2>2. Holders' = Holders /\ Waiting' = Waiting
    BY <1>1 DEF IInv, TypeRest, Holders, Granted, Waiting, down_returns
  <2>3. TypeRest'
    BY <1>1, <2>2 DEF IInv, TypeRest, PC, down_returns
  <2>4. LockedByHolder'
    BY <1>1, <2>1, MmLockAssumption
    DEF IInv, TypeRest, OneHolder, Holders, LockedByHolder, down_returns
  <2>5. IsQueueOf(wait_queue', Waiting')
    <3>1. Waiting \subseteq Thread /\ IsFiniteSet(Waiting)
      BY MmLockAssumption, FS_Subset DEF Waiting
    <3>2. Waiting \cap (Thread \ {p}) = Waiting
      BY <2>1, <3>1
    <3> QED
      BY <2>2, <3>1, <3>2, KeptQueue, SMTT(30) DEF IInv, QueueExact, down_returns
  <2> QED
    BY <2>1, <2>2, <2>3, <2>4, <2>5, SMTT(30) DEF IInv, OneHolder, QueueExact
<1>2. CASE wakeup_flags[p] # "WT_KSEM"
  <2>1. panic' /\ UNCHANGED <<value, asleep, wakeup_flags, locked_by, pc>>
    BY <1>2 DEF down_returns
  <2>2. Holders' = Holders /\ Waiting' = Waiting
    BY <2>1 DEF Holders, Granted, Waiting
  <2> QED
    BY <2>1, <2>2 DEF IInv, TypeRest, OneHolder, LockedByHolder
<1> QED
  BY <1>1, <1>2

\* unlock_mm sets the lock free or gives it to the first of those who wait.
LEMMA Unlocks ==
  ASSUME IInv, ~panic, NEW p \in Thread, unlock_mm(p)
  PROVE  /\ IInv'
         /\ Holders = {p}
         /\ Holders' = {} \/ \E q \in Thread : q # p /\ Holders' = {q}
<1>1. Holders = {p} /\ value = 0 /\ p \notin Waiting
  BY SMTT(30) DEF IInv, TypeRest, OneHolder, Holders, Waiting, unlock_mm
<1>2. \A q \in Thread \ {p} : pc[q] \notin {"in", "nested", "fault"} /\ ~Granted(q)
  BY <1>1 DEF Holders
<1>3. LockedByHolder'
  BY <1>2, MmLockAssumption DEF IInv, TypeRest, LockedByHolder, unlock_mm
<1>4. CASE wait_queue = <<>>
  <2>1. value' = 1 /\ UNCHANGED <<wait_queue, asleep, wakeup_flags, panic>>
    BY <1>1, <1>4, SMTT(30) DEF unlock_mm, up
  <2>2. Waiting = {}
    BY <1>4, EmptyQueue DEF IInv, QueueExact
  <2>3. Holders' = {} /\ Waiting' = {}
    BY <1>2, <2>1, <2>2 DEF IInv, TypeRest, Holders, Granted, Waiting, unlock_mm
  <2>4. TypeRest'
    BY <2>1, <2>2, <2>3, SMTT(30) DEF IInv, TypeRest, PC, unlock_mm
  <2> QED
    BY <1>1, <1>3, <1>4, <2>1, <2>3, <2>4, EmptyQueue
    DEF IInv, OneHolder, QueueExact
<1>5. CASE wait_queue # <<>> /\ Head(wait_queue) \in asleep
  <2> DEFINE h == Head(wait_queue)
  <2>1. /\ value' = 0 /\ wait_queue' = Tail(wait_queue) /\ asleep' = asleep \ {h}
        /\ wakeup_flags' = [wakeup_flags EXCEPT ![h] = "WT_KSEM"]
        /\ pc' = [pc EXCEPT ![p] = "out"] /\ locked_by' = NoProc
    BY <1>1, <1>5 DEF unlock_mm, up
  <2>2. h \in Waiting /\ IsQueueOf(wait_queue', Waiting \ {h})
    BY <1>5, <2>1, TailQueue DEF IInv, QueueExact
  <2> HIDE DEF h
  <2>3. h \in Thread /\ h # p /\ pc[h] \in {"lock", "faultlock"}
    BY <1>1, <2>2 DEF Waiting
  <2>4. Holders' = {h}
    BY <1>2, <2>1, <2>3 DEF IInv, TypeRest, Holders, Granted
  <2>5. Waiting' = Waiting \ {h}
    BY <1>1, <2>1, <2>3 DEF IInv, TypeRest, Waiting
  <2>6. TypeRest'
    BY <2>1, <2>3, <2>5, SMTT(30) DEF IInv, TypeRest, PC
  <2> QED
    BY <1>1, <1>3, <2>1, <2>2, <2>3, <2>4, <2>5, <2>6
    DEF IInv, OneHolder, QueueExact
<1>6. CASE wait_queue # <<>> /\ Head(wait_queue) \notin asleep
  <2>1. panic' /\ UNCHANGED <<value, asleep, wakeup_flags>>
    BY <1>6 DEF unlock_mm, up
  <2>2. Holders' = {} /\ Waiting' = Waiting
    BY <1>1, <1>2, <2>1 DEF IInv, TypeRest, Holders, Granted, Waiting, unlock_mm
  <2>3. TypeRest'
    BY <2>1, <2>2 DEF IInv, TypeRest, PC, unlock_mm
  <2> QED
    BY <1>1, <1>3, <2>1, <2>2, <2>3 DEF IInv, OneHolder
<1> QED
  BY <1>4, <1>5, <1>6

\* A page fault of the thread that has the lock begins or ends.
LEMMA Nests ==
  ASSUME IInv, ~panic, NEW p \in Thread, locked_by = p,
         NEW at \in {"in", "nested"}, pc' = [pc EXCEPT ![p] = at],
         UNCHANGED <<value, wait_queue, asleep, wakeup_flags, locked_by, panic>>
  PROVE  IInv' /\ Holders' = Holders
<1>1. pc[p] \in {"in", "nested", "fault"}
  BY MmLockAssumption DEF IInv, LockedByHolder
<1>2. Holders' = Holders /\ Waiting' = Waiting
  BY <1>1 DEF IInv, TypeRest, Holders, Granted, Waiting
<1>3. TypeRest' /\ LockedByHolder'
  BY <1>1, <1>2, MmLockAssumption DEF IInv, TypeRest, PC, LockedByHolder
<1> QED
  BY <1>2, <1>3 DEF IInv, OneHolder, QueueExact

\* What a step does to the holder of the lock.
Passes == \/ Holders' = Holders
          \/ \E p \in Thread : M!Acquire(p) \/ M!Release(p)
          \/ \E p, q \in Thread : M!HandOver(p, q)

\* Each step keeps the invariant and is a step of the abstract lock.
LEMMA Steps == IInv /\ [Next]_vars => IInv' /\ Passes
<1> SUFFICES ASSUME IInv, [Next]_vars PROVE IInv' /\ Passes
  OBVIOUS
<1>1. ASSUME NEW p \in Thread, ~panic, lock_mm(p) PROVE IInv' /\ Passes
  <2>1. CASE CanTake
    <3>1. IInv' /\ Holders = {} /\ Holders' = {p}
      BY <1>1, <2>1, Takes DEF lock_mm
    <3> QED
      BY <3>1 DEF Passes, M!Acquire
  <2>2. CASE ~CanTake
    BY <1>1, <2>2, Waits DEF lock_mm, Passes
  <2> QED
    BY <2>1, <2>2
<1>2. ASSUME NEW p \in Thread, ~panic, do_pgfault(p) PROVE IInv' /\ Passes
  <2>1. CASE CanTake
    <3>1. IInv' /\ Holders = {} /\ Holders' = {p}
      BY <1>2, <2>1, Takes DEF do_pgfault
    <3> QED
      BY <3>1 DEF Passes, M!Acquire
  <2>2. CASE ~CanTake /\ locked_by = p
    BY <1>2, <2>2, Nests DEF do_pgfault, Passes
  <2>3. CASE ~CanTake /\ locked_by # p
    <3>1. pc[p] = "out"
      BY <1>2, <2>3 DEF do_pgfault, IInv, LockedByHolder
    <3> QED
      BY <1>2, <2>3, <3>1, Waits DEF do_pgfault, Passes
  <2> QED
    BY <2>1, <2>2, <2>3
<1>3. ASSUME NEW p \in Thread, ~panic, down_returns(p) PROVE IInv' /\ Passes
  BY <1>3, DownReturns DEF Passes
<1>4. ASSUME NEW p \in Thread, ~panic, unlock_mm(p) PROVE IInv' /\ Passes
  <2>1. /\ IInv' /\ Holders = {p}
        /\ Holders' = {} \/ \E q \in Thread : q # p /\ Holders' = {q}
    BY <1>4, Unlocks
  <2> QED
    BY <2>1 DEF Passes, M!Release, M!HandOver
<1>5. ASSUME NEW p \in Thread, ~panic, pgfault_returns(p) PROVE IInv' /\ Passes
  <2>1. locked_by = p
    BY <1>5 DEF pgfault_returns, IInv, LockedByHolder
  <2> QED
    BY <1>5, <2>1, Nests DEF pgfault_returns, Passes
<1>6. ASSUME NEW p \in Thread, ~panic, signal_wakeup(p) PROVE IInv' /\ Passes
  <2>1. Holders' = Holders /\ Waiting' = Waiting
    BY <1>6 DEF signal_wakeup, Holders, Granted, Waiting
  <2> QED
    BY <1>6, <2>1
    DEF signal_wakeup, IInv, TypeRest, OneHolder, LockedByHolder, QueueExact, Passes
<1>7. CASE UNCHANGED vars
  <2>1. Holders' = Holders /\ Waiting' = Waiting
    BY <1>7 DEF vars, Holders, Granted, Waiting
  <2> QED
    BY <1>7, <2>1
    DEF vars, IInv, TypeRest, OneHolder, LockedByHolder, QueueExact, Passes
<1> QED
  BY <1>1, <1>2, <1>3, <1>4, <1>5, <1>6, <1>7 DEF Next, Kernel

\* The invariant of the lock holds in every behaviour.
LEMMA Invariance == Spec => []IInv
BY Initially, Steps, PTL DEF Spec

-----------------------------------------------------------------------------
(* locked_by, which do_pgfault reads without the lock, names the thread    *)
(* that runs with the lock and no other, for any number of threads.        *)
THEOREM LockedByCorrect == Spec => []LockedByHolder
<1>1. IInv => LockedByHolder
  BY DEF IInv
<1> QED
  BY <1>1, Invariance, PTL

(* Nobody waits for a free lock, and a waiter is in the queue or has been  *)
(* given the lock and woken: down() and up() lose no wakeup.               *)
THEOREM WakeupsKept == Spec => []NoLostWakeup
<1>1. IInv => NoLostWakeup
  <2> SUFFICES ASSUME IInv, ~panic
               PROVE  /\ value = 1 => wait_queue = <<>> /\ Holders = {}
                      /\ \A p \in Thread : pc[p] \in {"lock", "faultlock"} =>
                           (p \in Range(wait_queue)) # (Granted(p) /\ p \notin asleep)
    BY DEF NoLostWakeup
  <2>1. Range(wait_queue) = Waiting /\ asleep \subseteq Waiting
    BY QueueElements DEF IInv, TypeRest, QueueExact
  <2>2. value = 1 => wait_queue = <<>> /\ Holders = {}
    <3>1. value = 1 => Waiting = {} /\ Holders = {} /\ wait_queue \in Seq({})
      BY DEF IInv, OneHolder, QueueExact, IsQueueOf
    <3>2. \A q : q \in Seq({}) => q = <<>>
      BY EmptySeq, SMTT(30)
    <3> QED
      BY <3>1, <3>2
  <2>3. ASSUME NEW p \in Thread, pc[p] \in {"lock", "faultlock"}
        PROVE  (p \in Waiting) # (Granted(p) /\ p \notin asleep)
    <3>1. p \in Waiting <=> wakeup_flags[p] = "WT_INTERRUPTED"
      BY <2>3 DEF Waiting
    <3>2. Granted(p) <=> wakeup_flags[p] = "WT_KSEM"
      BY <2>3 DEF Granted
    <3>3. wakeup_flags[p] \in {"WT_INTERRUPTED", "WT_KSEM"}
      BY DEF IInv, TypeRest
    <3>4. CASE wakeup_flags[p] = "WT_KSEM"
      BY <2>1, <3>1, <3>2, <3>4
    <3>5. CASE wakeup_flags[p] = "WT_INTERRUPTED"
      BY <3>1, <3>2, <3>5
    <3> QED
      BY <3>3, <3>4, <3>5
  <2> QED
    BY <2>1, <2>2, <2>3
<1> QED
  BY <1>1, Invariance, PTL

(* The semaphore of an address space implements the exclusive lock of      *)
(* module Mutex: at most one thread is between lock_mm and unlock_mm, also *)
(* while up() passes the lock to a waiter, and whatever page faults and    *)
(* SIGKILLs come in between.                                               *)
THEOREM LockIsExclusive == Spec => Exclusive
<1>1. Init => M!Init
  BY DEF Init, M!Init, Holders, Granted
<1>2. IInv /\ [Next]_vars => [M!Next]_Holders
  BY Steps DEF Passes, M!Next
<1> QED
  BY <1>1, <1>2, Invariance, PTL DEF Spec, Exclusive, M!Spec

\* After a failed assertion, too, the queue of the lock is a list of threads.
LEMMA LockTypes == Spec => []TypeOK
<1> DEFINE Queue == wait_queue \in Seq(Thread) /\ panic \in BOOLEAN
<1>1. Init => Queue
  BY EmptySeq DEF Init
<1>2. IInv /\ Queue /\ [Next]_vars => Queue'
  <2> SUFFICES ASSUME IInv, Queue, [Next]_vars PROVE Queue'
    OBVIOUS
  <2>1. CASE UNCHANGED vars
    BY <2>1 DEF vars
  <2>2. ASSUME ~panic, NEW p \in Thread, down_returns(p)
        PROVE  Queue'
    <3>1. IsFiniteSet(Waiting) /\ IsQueueOf(wait_queue, Waiting)
      BY <2>2, MmLockAssumption, FS_Subset DEF Waiting, IInv, QueueExact
    <3>2. IsQueueOf(wait_queue', Waiting \cap (Thread \ {p}))
      BY <2>2, <3>1, KeptQueue DEF down_returns
    <3>3. IsQueueIn(wait_queue', Thread)
      BY <3>2, SomeQueue DEF Waiting
    <3> QED BY <2>2, <3>3, InQueue DEF down_returns
  <2>3. ASSUME NEW p \in Thread, Wait(p)
        PROVE  wait_queue' \in Seq(Thread)
    BY <2>3, SMTT(30) DEF Wait
  <2>4. ASSUME NEW p \in Thread, lock_mm(p) \/ do_pgfault(p)
        PROVE  Queue'
    BY <2>3, <2>4 DEF lock_mm, do_pgfault, Take
  <2>5. ASSUME NEW p \in Thread, unlock_mm(p)
        PROVE  Queue'
    <3>1. wait_queue # <<>> => Tail(wait_queue) \in Seq(Thread)
      BY SMTT(30)
    <3> QED BY <2>5, <3>1 DEF unlock_mm, up
  <2>6. ASSUME NEW p \in Thread, pgfault_returns(p) \/ signal_wakeup(p)
        PROVE  Queue'
    BY <2>6 DEF pgfault_returns, signal_wakeup
  <2> QED BY <2>1, <2>2, <2>4, <2>5, <2>6 DEF Next, Kernel
<1>3. IInv /\ Queue => TypeOK
  BY DEF IInv, TypeRest, TypeOK, Waiting
<1> QED BY <1>1, <1>2, <1>3, Invariance, PTL DEF Spec

(* lock_mm, unlock_mm, do_pgfault: locked_by names the thread that runs    *)
(* with the lock, no wakeup is lost, and the fields keep their types.      *)
THEOREM LockCorrect == Spec => []LockExact
BY LockedByCorrect, WakeupsKept, LockTypes, PTL DEF LockExact

-----------------------------------------------------------------------------
(* Events.                                                                 *)

\* The senders in the event box of q.
Box(q) == Range(ev_wait_queue[q])

\* A sender is in a box once.
EventQueues == \A q \in Proc : IsQueueIn(ev_wait_queue[q], Proc)

\* A sender in the box of q is inside ipc_event_send to q and not yet answered.
Senders ==
  \A q \in Proc : \A p \in Box(q) :
    /\ p \in Proc /\ call[p] = "send" /\ target[p] = q
    /\ ev_wakeup_flags[p] = "WT_INTERRUPTED"

(* A process that sleeps in ipc_event_recv has an empty box, and one that  *)
(* sleeps in ipc_event_send is in the box of its receiver.                 *)
Sleepers ==
  \A p \in ev_asleep :
    \/ call[p] = "recv" /\ Box(p) = {}
    \/ call[p] = "send" /\ target[p] \in alive /\ p \in Box(target[p])

\* A process in ipc_event_send has a receiver.
Targets == \A p \in Proc : call[p] = "send" => target[p] \in Proc

(* The inductive invariant.  AnswerIsTrue alone is not inductive: a        *)
(* receiver answers the sender at the head of its box, which must still be *)
(* inside ipc_event_send to it and not answered (Senders), and may be      *)
(* nowhere else in a box, to be answered again (EventQueues).              *)
EventInv == /\ EventTypeOK /\ EventQueues /\ Senders /\ Sleepers /\ Targets
            /\ AnswerIsTrue

\* The invariant holds at the start.
LEMMA EventInitially == EventInit => EventInv
<1> SUFFICES ASSUME EventInit PROVE EventInv
  OBVIOUS
<1>1. EventQueues /\ Senders
  BY NoQueue DEF EventInit, EventQueues, Senders, Box
<1>2. EventTypeOK
  BY EmptySeq, SMTT(30) DEF EventInit, EventTypeOK
<1> QED BY <1>1, <1>2 DEF EventInv, EventInit, Sleepers, Targets, AnswerIsTrue

\* One box changes, the others stay.
LEMMA BoxChanged ==
  ASSUME EventInv, NEW q \in Proc, NEW w, IsQueueIn(w, Proc),
         ev_wait_queue' = [ev_wait_queue EXCEPT ![q] = w]
  PROVE  /\ ev_wait_queue' \in [Proc -> Seq(Proc)]
         /\ EventQueues'
         /\ Box(q)' = Range(w) /\ \A r \in Proc \ {q} : Box(r)' = Box(r)
<1>1. w \in Seq(Proc)
  BY InQueue
<1>2. ev_wait_queue \in [Proc -> Seq(Proc)]
  BY DEF EventInv, EventTypeOK
<1>3. ev_wait_queue'[q] = w /\ \A r \in Proc \ {q} : ev_wait_queue'[r] = ev_wait_queue[r]
  BY <1>2
<1>4. ev_wait_queue' \in [Proc -> Seq(Proc)]
  BY <1>1, <1>2
<1>5. EventQueues'
  BY <1>3 DEF EventInv, EventQueues
<1>6. Box(q)' = Range(w) /\ \A r \in Proc \ {q} : Box(r)' = Box(r)
  BY <1>3 DEF Box
<1> QED BY <1>4, <1>5, <1>6

\* ipc_event_send enters the box and wakes a receiver that sleeps.
LEMMA EventSends ==
  ASSUME EventInv, NEW p \in Proc, NEW q \in Proc, NEW timed \in BOOLEAN,
         ipc_event_send(p, q, timed)
  PROVE  EventInv'
<1>0. /\ p \in alive /\ call[p] = "none" /\ q \in alive /\ q # p
      /\ ev_asleep' = (ev_asleep \ RecvWoken(q)) \cup {p}
      /\ ev_wait_queue' = [ev_wait_queue EXCEPT ![q] = Append(@, p)]
      /\ call' = [call EXCEPT ![p] = "send"]
      /\ target' = [target EXCEPT ![p] = q]
      /\ ev_wakeup_flags' = [ev_wakeup_flags EXCEPT ![p] = "WT_INTERRUPTED"]
      /\ ev_armed' = IF timed THEN ev_armed \cup {p} ELSE ev_armed
      /\ taken' = [taken EXCEPT ![p] = 0]
      /\ UNCHANGED alive
  BY DEF ipc_event_send
<1>1. \A r \in Proc : p \notin Box(r)
  BY <1>0 DEF EventInv, Senders
<1>2. PICK w : w = Append(ev_wait_queue[q], p)
  OBVIOUS
<1>3. IsQueueIn(w, Proc) /\ Range(w) = Box(q) \cup {p}
  BY <1>1, <1>2, AddToQueue DEF EventInv, EventQueues, Box
<1>4. ev_wait_queue' = [ev_wait_queue EXCEPT ![q] = w]
  BY <1>0, <1>2
<1>5. /\ ev_wait_queue' \in [Proc -> Seq(Proc)] /\ EventQueues'
      /\ Box(q)' = Box(q) \cup {p} /\ \A r \in Proc \ {q} : Box(r)' = Box(r)
  BY <1>3, <1>4, BoxChanged
<1>6. /\ call'[p] = "send" /\ target'[p] = q /\ ev_wakeup_flags'[p] = "WT_INTERRUPTED"
      /\ taken'[p] = 0
      /\ \A r \in Proc \ {p} : /\ call'[r] = call[r] /\ target'[r] = target[r]
                                   /\ ev_wakeup_flags'[r] = ev_wakeup_flags[r]
                                   /\ taken'[r] = taken[r]
  BY <1>0 DEF EventInv, EventTypeOK
<1>7. EventTypeOK'
  BY <1>0, <1>5, SMTT(30) DEF EventInv, RecvWoken, EventTypeOK
<1>8. Senders'
  <2> SUFFICES ASSUME NEW r \in Proc, NEW s \in Box(r)'
               PROVE  /\ s \in Proc /\ call'[s] = "send" /\ target'[s] = r
                      /\ ev_wakeup_flags'[s] = "WT_INTERRUPTED"
    BY DEF Senders
  <2>1. CASE s = p
    BY <1>1, <1>5, <1>6, <2>1
  <2>2. CASE s # p
    <3>1. s \in Box(r)
      BY <1>5, <2>2
    <3>2. /\ s \in Proc /\ call[s] = "send" /\ target[s] = r
          /\ ev_wakeup_flags[s] = "WT_INTERRUPTED"
      BY <3>1 DEF EventInv, Senders
    <3> QED BY <1>6, <2>2, <3>2
  <2> QED BY <2>1, <2>2
<1>9. ev_asleep \subseteq Proc
  BY DEF EventInv, EventTypeOK
<1>10. Sleepers'
  <2> SUFFICES ASSUME NEW r \in ev_asleep'
               PROVE  (\/ call[r] = "recv" /\ Box(r) = {}
                       \/ call[r] = "send" /\ target[r] \in alive /\ r \in Box(target[r]))'
    BY DEF Sleepers
  <2>1. CASE r = p
    <3>1. p \in Box(q)'
      BY <1>5
    <3> QED BY <1>0, <1>6, <2>1, <3>1, SMTT(30) DEF Box
  <2>2. CASE r # p
    <3>1. r \in ev_asleep /\ r \in Proc /\ ~(r = q /\ call[r] = "recv")
      BY <1>0, <1>9, <2>2 DEF RecvWoken
    <3>2. CASE call[r] = "recv" /\ Box(r) = {}
      BY <1>5, <1>6, <2>2, <3>1, <3>2
    <3>3. CASE call[r] = "send" /\ target[r] \in alive /\ r \in Box(target[r])
      <4>1. PICK t \in Proc : t = target[r] /\ t \in alive /\ r \in Box(t)
        BY <3>1, <3>3 DEF EventInv, Targets
      <4>2. r \in Box(t)' /\ target'[r] = t
        BY <1>5, <1>6, <2>2, <3>1, <4>1
      <4> QED BY <1>0, <1>6, <2>2, <3>1, <3>3, <4>1, <4>2, SMTT(30) DEF Box
    <3> QED BY <3>1, <3>2, <3>3 DEF EventInv, Sleepers
  <2> QED BY <2>1, <2>2
<1>11. Targets' /\ AnswerIsTrue'
  BY <1>6, SMTT(30) DEF EventInv, Targets, AnswerIsTrue
<1> QED BY <1>5, <1>7, <1>8, <1>10, <1>11 DEF EventInv

\* send_event after schedule(): the sender is in no box any more.
LEMMA EventReturns ==
  ASSUME EventInv, NEW p \in Proc, send_event(p)
  PROVE  EventInv'
<1>0. /\ call[p] = "send" /\ p \notin ev_asleep
      /\ ev_armed' = ev_armed \ {p}
      /\ ev_wait_queue' = [ev_wait_queue EXCEPT ![target[p]] = Without(@, p)]
      /\ call' = [call EXCEPT ![p] = "none"]
      /\ target' = [target EXCEPT ![p] = None]
      /\ UNCHANGED <<alive, ev_asleep, ev_wakeup_flags, taken>>
  BY DEF send_event
<1>1. PICK q \in Proc : q = target[p]
  BY <1>0 DEF EventInv, Targets
<1>2. PICK w : w = Without(ev_wait_queue[q], p)
  OBVIOUS
<1>3. IsQueueIn(w, Proc) /\ Range(w) = Box(q) \ {p}
  BY <1>2, DropFromQueue DEF EventInv, EventQueues, Box
<1>4. ev_wait_queue' = [ev_wait_queue EXCEPT ![q] = w]
  BY <1>0, <1>1, <1>2
<1>5. /\ ev_wait_queue' \in [Proc -> Seq(Proc)] /\ EventQueues'
      /\ Box(q)' = Box(q) \ {p} /\ \A r \in Proc \ {q} : Box(r)' = Box(r)
  BY <1>3, <1>4, BoxChanged
<1>6. /\ call'[p] = "none" /\ \A r \in Proc \ {p} : call'[r] = call[r] /\ target'[r] = target[r]
  BY <1>0 DEF EventInv, EventTypeOK
<1>7. EventTypeOK'
  BY <1>0, <1>5 DEF EventInv, EventTypeOK
<1>8. \A r \in Proc : p \notin Box(r)' /\ Box(r)' \subseteq Box(r)
  <2>1. \A r \in Proc \ {q} : p \notin Box(r)
    BY <1>1 DEF EventInv, Senders
  <2> QED BY <1>5, <2>1
<1>9. Senders'
  BY <1>0, <1>6, <1>8, SMTT(30) DEF EventInv, Senders
<1>10. Sleepers'
  <2> SUFFICES ASSUME NEW r \in ev_asleep'
               PROVE  (\/ call[r] = "recv" /\ Box(r) = {}
                       \/ call[r] = "send" /\ target[r] \in alive /\ r \in Box(target[r]))'
    BY DEF Sleepers
  <2>1. r \in ev_asleep /\ r \in Proc /\ r # p /\ call'[r] = call[r] /\ target'[r] = target[r]
    BY <1>0, <1>6 DEF EventInv, EventTypeOK
  <2>2. CASE call[r] = "recv" /\ Box(r) = {}
    BY <1>8, <2>1, <2>2
  <2>3. CASE call[r] = "send" /\ target[r] \in alive /\ r \in Box(target[r])
    <3>1. PICK t \in Proc : t = target[r] /\ t \in alive /\ r \in Box(t)
      BY <2>1, <2>3 DEF EventInv, Targets
    <3>2. r \in Box(t)' /\ target'[r] = t
      BY <1>5, <2>1, <3>1
    <3> QED BY <1>0, <2>1, <2>3, <3>1, <3>2, SMTT(30) DEF Box
  <2> QED BY <2>1, <2>2, <2>3 DEF EventInv, Sleepers
<1>11. Targets' /\ AnswerIsTrue'
  BY <1>0, <1>6 DEF EventInv, Targets, AnswerIsTrue
<1> QED BY <1>5, <1>7, <1>9, <1>10, <1>11 DEF EventInv

\* The receiver takes the first event, and answers its sender, or finds none.
LEMMA EventTaken ==
  ASSUME EventInv, NEW p \in Proc, p \notin ev_asleep, call[p] \in {"none", "recv"},
         TakeEvent(p)
  PROVE  EventInv'
<1>1. CASE ev_wait_queue[p] = <<>>
  <2>0. /\ ev_armed' = ev_armed \ {p}
        /\ call' = [call EXCEPT ![p] = "none"]
        /\ UNCHANGED <<alive, target, ev_wait_queue, ev_asleep, ev_wakeup_flags, taken>>
    BY <1>1 DEF TakeEvent
  <2>1. call'[p] = "none" /\ \A r \in Proc \ {p} : call'[r] = call[r]
    BY <2>0 DEF EventInv, EventTypeOK
  <2>2. EventTypeOK' /\ EventQueues'
    BY <2>0 DEF EventInv, EventTypeOK, EventQueues
  <2>3. Senders'
    BY <2>0, <2>1, SMTT(30) DEF EventInv, Senders, Box
  <2>4. Sleepers'
    BY <2>0, <2>1 DEF EventInv, Sleepers, Box, EventTypeOK
  <2>5. Targets' /\ AnswerIsTrue'
    BY <2>0, <2>1 DEF EventInv, Targets, AnswerIsTrue
  <2> QED BY <2>2, <2>3, <2>4, <2>5 DEF EventInv
<1>2. CASE ev_wait_queue[p] # <<>>
  <2>1. PICK s : s = Head(ev_wait_queue[p])
    OBVIOUS
  <2>0. /\ ev_armed' = ev_armed \ {p}
        /\ call' = [call EXCEPT ![p] = "copy"]
        /\ taken' = [taken EXCEPT ![s] = @ + 1]
        /\ ev_wait_queue' = [ev_wait_queue EXCEPT ![p] = Tail(@)]
        /\ ev_asleep' = ev_asleep \ {s}
        /\ ev_wakeup_flags' = [ev_wakeup_flags EXCEPT ![s] = "WT_EVENT_SEND"]
        /\ UNCHANGED <<alive, target>>
    BY <1>2, <2>1 DEF TakeEvent, Answered
  <2>2. PICK w : w = Tail(ev_wait_queue[p])
    OBVIOUS
  <2>3. IsQueueIn(w, Proc) /\ Range(w) = Box(p) \ {s} /\ s \in Box(p)
    BY <1>2, <2>1, <2>2, PopQueue DEF EventInv, EventQueues, Box
  <2>4. ev_wait_queue' = [ev_wait_queue EXCEPT ![p] = w]
    BY <2>0, <2>2
  <2>5. /\ ev_wait_queue' \in [Proc -> Seq(Proc)] /\ EventQueues'
        /\ Box(p)' = Box(p) \ {s} /\ \A r \in Proc \ {p} : Box(r)' = Box(r)
    BY <2>3, <2>4, BoxChanged
  <2>6. /\ s \in Proc /\ s # p /\ call[s] = "send" /\ target[s] = p
        /\ ev_wakeup_flags[s] = "WT_INTERRUPTED" /\ taken[s] = 0
    BY <2>3 DEF EventInv, Senders, AnswerIsTrue
  <2>7. /\ call'[p] = "copy" /\ \A r \in Proc \ {p} : call'[r] = call[r]
        /\ taken'[s] = 1 /\ ev_wakeup_flags'[s] = "WT_EVENT_SEND"
        /\ \A r \in Proc \ {s} : taken'[r] = taken[r] /\ ev_wakeup_flags'[r] = ev_wakeup_flags[r]
    BY <2>0, <2>6, SMTT(30) DEF EventInv, EventTypeOK
  <2>8. EventTypeOK'
    <3>1. taken' \in [Proc -> 0..1]
      BY <2>0, <2>6, SMTT(30) DEF EventInv, EventTypeOK
    <3> QED BY <2>0, <2>5, <3>1 DEF EventInv, EventTypeOK
  <2>9. \A r \in Proc : s \notin Box(r)' /\ Box(r)' \subseteq Box(r)
    <3>1. \A r \in Proc \ {p} : s \notin Box(r)
      BY <2>6 DEF EventInv, Senders
    <3> QED BY <2>5, <3>1
  <2>10. Senders'
    <3> SUFFICES ASSUME NEW r \in Proc, NEW m \in Box(r)'
                 PROVE  /\ m \in Proc /\ call'[m] = "send" /\ target'[m] = r
                        /\ ev_wakeup_flags'[m] = "WT_INTERRUPTED"
      BY DEF Senders
    <3>1. /\ m \in Proc /\ call[m] = "send" /\ target[m] = r
          /\ ev_wakeup_flags[m] = "WT_INTERRUPTED" /\ m # s
      BY <2>9, SMTT(30) DEF EventInv, Senders
    <3> QED BY <2>0, <2>7, <3>1
  <2>11. Sleepers'
    <3> SUFFICES ASSUME NEW r \in ev_asleep'
                 PROVE  (\/ call[r] = "recv" /\ Box(r) = {}
                         \/ call[r] = "send" /\ target[r] \in alive /\ r \in Box(target[r]))'
      BY DEF Sleepers
    <3>1. r \in ev_asleep /\ r \in Proc /\ r # p /\ r # s /\ call'[r] = call[r] /\ target'[r] = target[r]
      BY <2>0, <2>7 DEF EventInv, EventTypeOK
    <3>2. CASE call[r] = "recv" /\ Box(r) = {}
      BY <2>9, <3>1, <3>2
    <3>3. CASE call[r] = "send" /\ target[r] \in alive /\ r \in Box(target[r])
      <4>1. PICK t \in Proc : t = target[r] /\ t \in alive /\ r \in Box(t)
        BY <3>1, <3>3 DEF EventInv, Targets
      <4>2. r \in Box(t)' /\ target'[r] = t
        BY <2>5, <3>1, <4>1
      <4> QED BY <2>0, <3>1, <3>3, <4>1, <4>2 DEF Box
    <3> QED BY <3>1, <3>2, <3>3 DEF EventInv, Sleepers
  <2>12. Targets' /\ AnswerIsTrue'
    BY <2>0, <2>6, <2>7, SMTT(30) DEF EventInv, Targets, AnswerIsTrue
  <2> QED BY <2>5, <2>8, <2>10, <2>11, <2>12 DEF EventInv
<1> QED BY <1>1, <1>2

\* ipc_event_recv goes to sleep only over an empty box.
LEMMA EventSleeps ==
  ASSUME EventInv, NEW p \in Proc, call[p] = "none", ev_wait_queue[p] = <<>>,
         ev_asleep' = ev_asleep \cup {p}, call' = [call EXCEPT ![p] = "recv"],
         ev_armed' \subseteq ev_armed \cup {p},
         UNCHANGED <<alive, ev_wait_queue, target, ev_wakeup_flags, taken>>
  PROVE  EventInv'
<1>1. call'[p] = "recv" /\ \A r \in Proc \ {p} : call'[r] = call[r]
  BY DEF EventInv, EventTypeOK
<1>2. EventTypeOK' /\ EventQueues'
  BY DEF EventInv, EventTypeOK, EventQueues
<1>3. Senders'
  BY <1>1, SMTT(30) DEF EventInv, Senders, Box
<1>4. Box(p) = {}
  BY InQueue DEF EventInv, EventQueues, Box
<1>5. Sleepers'
  BY <1>1, <1>4 DEF EventInv, Sleepers, Box, EventTypeOK
<1>6. Targets' /\ AnswerIsTrue'
  BY <1>1 DEF EventInv, Targets, AnswerIsTrue
<1> QED BY <1>2, <1>3, <1>5, <1>6 DEF EventInv

\* A timer or an interrupt: the sender stays in the box.
LEMMA EventWakes ==
  ASSUME EventInv, ev_asleep' \subseteq ev_asleep, ev_armed' \subseteq ev_armed,
         UNCHANGED <<alive, ev_wait_queue, target, ev_wakeup_flags, taken>>,
         \/ UNCHANGED call
         \/ \E p \in Proc : call[p] = "copy" /\ call' = [call EXCEPT ![p] = "none"]
  PROVE  EventInv'
<1>1. /\ call' \in [Proc -> {"none", "send", "recv", "copy"}]
      /\ \A r \in Proc : call[r] \in {"send", "recv"} => call'[r] = call[r]
      /\ \A r \in Proc : call'[r] = "send" => call[r] = "send"
  BY DEF EventInv, EventTypeOK
<1>2. EventTypeOK' /\ EventQueues'
  BY <1>1 DEF EventInv, EventTypeOK, EventQueues
<1>3. Senders'
  BY <1>1, SMTT(30) DEF EventInv, Senders, Box
<1>4. Sleepers'
  BY <1>1 DEF EventInv, Sleepers, Box, EventTypeOK
<1>5. Targets' /\ AnswerIsTrue'
  BY <1>1 DEF EventInv, Targets, AnswerIsTrue
<1> QED BY <1>2, <1>3, <1>4, <1>5 DEF EventInv

\* __do_exit wakes the senders and empties the box.
LEMMA EventExits ==
  ASSUME EventInv, NEW p \in Proc, exit_event_box(p)
  PROVE  EventInv'
<1>0. /\ p \in alive /\ call[p] = "none" /\ alive' = alive \ {p}
      /\ ev_asleep' = ev_asleep \ Box(p)
      /\ ev_wakeup_flags' = [q \in Proc |-> IF q \in Box(p) THEN "WT_INTERRUPTED"
                                         ELSE ev_wakeup_flags[q]]
      /\ ev_wait_queue' = [ev_wait_queue EXCEPT ![p] = <<>>]
      /\ UNCHANGED <<call, target, ev_armed, taken>>
  BY DEF exit_event_box, ExitWakes, Box
<1>1. /\ ev_wait_queue' \in [Proc -> Seq(Proc)] /\ EventQueues'
      /\ Box(p)' = {} /\ \A r \in Proc \ {p} : Box(r)' = Box(r)
  BY <1>0, NoQueue, BoxChanged
<1>2. \A r \in Proc : ev_wakeup_flags'[r] = ev_wakeup_flags[r]
  BY <1>0 DEF EventInv, Senders
<1>3. EventTypeOK'
  BY <1>0, <1>1 DEF EventInv, EventTypeOK
<1>4. Senders'
  BY <1>0, <1>1, <1>2, SMTT(30) DEF EventInv, Senders
<1>5. Sleepers'
  <2> SUFFICES ASSUME NEW r \in ev_asleep'
               PROVE  (\/ call[r] = "recv" /\ Box(r) = {}
                       \/ call[r] = "send" /\ target[r] \in alive /\ r \in Box(target[r]))'
    BY DEF Sleepers
  <2>1. r \in ev_asleep /\ r \in Proc /\ r \notin Box(p)
    BY <1>0 DEF EventInv, EventTypeOK
  <2>2. CASE call[r] = "recv" /\ Box(r) = {}
    BY <1>0, <1>1, <2>1, <2>2
  <2>3. CASE call[r] = "send" /\ target[r] \in alive /\ r \in Box(target[r])
    <3>1. PICK t \in Proc : t = target[r] /\ t \in alive /\ r \in Box(t) /\ t # p
      BY <2>1, <2>3 DEF EventInv, Targets
    <3>2. r \in Box(t)'
      BY <1>1, <3>1
    <3> QED BY <1>0, <2>3, <3>1, <3>2 DEF Box
  <2> QED BY <2>1, <2>2, <2>3 DEF EventInv, Sleepers
<1>6. Targets' /\ AnswerIsTrue'
  BY <1>0, <1>2 DEF EventInv, Targets, AnswerIsTrue
<1> QED BY <1>1, <1>3, <1>4, <1>5, <1>6 DEF EventInv

\* do_fork uses the structure of a process that has exited again.
LEMMA EventForks ==
  ASSUME EventInv, NEW p \in Proc, do_fork(p)
  PROVE  EventInv'
<1>0. /\ p \notin alive /\ alive' = alive \cup {p}
      /\ ev_wait_queue' = [ev_wait_queue EXCEPT ![p] = <<>>]
      /\ UNCHANGED <<call, target, ev_asleep, ev_wakeup_flags, ev_armed, taken>>
  BY DEF do_fork
<1>1. /\ ev_wait_queue' \in [Proc -> Seq(Proc)] /\ EventQueues'
      /\ Box(p)' = {} /\ \A r \in Proc \ {p} : Box(r)' = Box(r)
  BY <1>0, NoQueue, BoxChanged
<1>2. EventTypeOK'
  BY <1>0, <1>1 DEF EventInv, EventTypeOK
<1>3. Senders'
  BY <1>0, <1>1, SMTT(30) DEF EventInv, Senders
<1>4. Sleepers'
  <2> SUFFICES ASSUME NEW r \in ev_asleep'
               PROVE  (\/ call[r] = "recv" /\ Box(r) = {}
                       \/ call[r] = "send" /\ target[r] \in alive /\ r \in Box(target[r]))'
    BY DEF Sleepers
  <2>1. r \in ev_asleep /\ r \in Proc
    BY <1>0 DEF EventInv, EventTypeOK
  <2>2. CASE call[r] = "recv" /\ Box(r) = {}
    BY <1>0, <1>1, <2>1, <2>2
  <2>3. CASE call[r] = "send" /\ target[r] \in alive /\ r \in Box(target[r])
    <3>1. PICK t \in Proc : t = target[r] /\ t \in alive /\ r \in Box(t) /\ t # p
      BY <1>0, <2>1, <2>3 DEF EventInv, Targets
    <3>2. r \in Box(t)'
      BY <1>1, <3>1
    <3> QED BY <1>0, <2>3, <3>1, <3>2 DEF Box
  <2> QED BY <2>1, <2>2, <2>3 DEF EventInv, Sleepers
<1>5. Targets' /\ AnswerIsTrue'
  BY <1>0 DEF EventInv, Targets, AnswerIsTrue
<1> QED BY <1>1, <1>2, <1>3, <1>4, <1>5 DEF EventInv

\* The invariant is inductive.
LEMMA EventSteps == EventInv /\ [EventNext]_ev_vars => EventInv'
<1> SUFFICES ASSUME EventInv, [EventNext]_ev_vars PROVE EventInv'
  OBVIOUS
<1>1. CASE UNCHANGED ev_vars
  BY <1>1, EventWakes DEF ev_vars
<1>2. ASSUME NEW p \in Proc, NEW q \in Proc, NEW timed \in BOOLEAN, ipc_event_send(p, q, timed)
      PROVE  EventInv'
  BY <1>2, EventSends
<1>3. ASSUME NEW p \in Proc, NEW timed \in BOOLEAN, ipc_event_recv(p, timed)
      PROVE  EventInv'
  <2>1. p \notin ev_asleep
    BY <1>3 DEF ipc_event_recv, EventInv, Sleepers
  <2>2. CASE ev_wait_queue[p] # <<>> /\ TakeEvent(p)
    BY <1>3, <2>1, <2>2, EventTaken DEF ipc_event_recv
  <2>3. CASE ~(ev_wait_queue[p] # <<>> /\ TakeEvent(p))
    BY <1>3, <2>3, EventSleeps DEF ipc_event_recv
  <2> QED BY <2>2, <2>3
<1>4. ASSUME NEW p \in Proc, EventResume(p)
      PROVE  EventInv'
  <2>1. CASE send_event(p)
    BY <2>1, EventReturns
  <2>2. CASE recv_event(p)
    BY <2>2, EventTaken DEF recv_event
  <2>3. CASE copy_event(p)
    BY <2>3, EventWakes DEF copy_event
  <2> QED BY <1>4, <2>1, <2>2, <2>3 DEF EventResume
<1>5. ASSUME NEW p \in Proc, EventTimeout(p) \/ EventInterrupt(p)
      PROVE  EventInv'
  BY <1>5, EventWakes DEF EventTimeout, EventInterrupt
<1>6. ASSUME NEW p \in Proc, exit_event_box(p)
      PROVE  EventInv'
  BY <1>6, EventExits
<1>7. ASSUME NEW p \in Proc, do_fork(p)
      PROVE  EventInv'
  BY <1>7, EventForks
<1> QED BY <1>1, <1>2, <1>3, <1>4, <1>5, <1>6, <1>7 DEF EventNext

\* The invariant holds in every reachable state.
LEMMA EventInvariance == EventSpec => []EventInv
<1> QED BY EventInitially, EventSteps, PTL DEF EventSpec

(* send_event: a sender is told that its event was received exactly when   *)
(* it was received, once, whatever timer, signal or exit comes in between. *)
THEOREM AnswersTrue == EventSpec => []AnswerIsTrue
<1>1. EventInv => AnswerIsTrue
  BY DEF EventInv
<1> QED BY <1>1, EventInvariance, PTL

(* ipc_event_send, ipc_event_recv: no receiver sleeps over an event in its *)
(* box, and no sender sleeps for a receiver that is gone or whose box it   *)
(* is not in.                                                              *)
THEOREM EventsNoticed == EventSpec => []NoEventMissed
<1>1. EventInv => NoEventMissed
  <2> SUFFICES ASSUME EventInv, NEW p \in ev_asleep
               PROVE  /\ call[p] = "recv" => ev_wait_queue[p] = <<>>
                      /\ call[p] = "send" => target[p] \in alive /\ p \in Box(target[p])
    BY DEF NoEventMissed, Box
  <2>1. p \in Proc /\ IsQueueIn(ev_wait_queue[p], Proc)
    BY DEF EventInv, EventTypeOK, EventQueues
  <2>2. ev_wait_queue[p] = <<>> <=> Box(p) = {}
    BY <2>1, InQueue DEF Box
  <2> QED BY <2>2 DEF EventInv, Sleepers
<1> QED BY <1>1, EventInvariance, PTL

(* ipc_event_send, ipc_event_recv: no call sleeps in vain, senders are told *)
(* the truth, and the fields keep their types.                              *)
THEOREM EventsCorrect == EventSpec => []EventsExact
<1>1. EventInv => EventTypeOK
  BY DEF EventInv
<1> QED BY <1>1, EventInvariance, AnswersTrue, EventsNoticed, PTL DEF EventsExact
=============================================================================
