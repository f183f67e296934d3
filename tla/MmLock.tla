------------------------------- MODULE MmLock -------------------------------
(***************************************************************************)
(* The lock of an address space: lock_mm, unlock_mm and try_lock_mm of     *)
(* mm/vmm.c over the kernel semaphore mm_sem (sync/sem.c), and do_pgfault, *)
(* which takes the lock unless the faulting thread has it already.  The    *)
(* processes are the threads that share one mm.  Code that holds the lock  *)
(* may sleep (a page comes from swap), so the others can meet it locked.   *)
(***************************************************************************)
EXTENDS List

CONSTANTS
  Thread,  \* the threads that share the address space
  NoProc,  \* pid 0
  Sigkill  \* TRUE if threads that wait for the lock may get a SIGKILL

ASSUME MmLockAssumption == /\ IsFiniteSet(Thread)
                           /\ NoProc \notin Thread
                           /\ Sigkill \in BOOLEAN

VARIABLES
  value,         \* mm_sem.value
  wait_queue,    \* mm_sem.wait_queue
  asleep,        \* the threads whose wait_state is WT_KSEM
  wakeup_flags,  \* wait->wakeup_flags of a thread that waits
  locked_by,     \* mm->locked_by
  pc,            \* where a thread is: see PC
  panic          \* an assertion of the kernel failed

vars == <<value, wait_queue, asleep, wakeup_flags, locked_by, pc, panic>>

\* out: neither has nor wants the lock; lock, faultlock: in down(), called by
\* lock_mm or by do_pgfault; in: between lock_mm and unlock_mm; nested: in
\* do_pgfault, without having locked; fault: in do_pgfault, having locked.
PC == {"out", "lock", "faultlock", "in", "nested", "fault"}

Init ==
  /\ value = 1
  /\ wait_queue = <<>>
  /\ asleep = {}
  /\ wakeup_flags = [p \in Thread |-> "WT_INTERRUPTED"]
  /\ locked_by = NoProc
  /\ pc = [p \in Thread |-> "out"]
  /\ panic = FALSE

\* Fault: locked_by is not set.
TakeQuietly(p) ==
  /\ value' = value - 1
  /\ UNCHANGED <<wait_queue, asleep, wakeup_flags, locked_by>>

\* __down finds the semaphore free, and locked_by is set.
Take(p) ==
  /\ value' = value - 1
  /\ locked_by' = p
  /\ UNCHANGED <<wait_queue, asleep, wakeup_flags>>

\* __down: wait_current_set on the semaphore.
Wait(p) ==
  /\ wait_queue' = Append(wait_queue, p)
  /\ asleep' = asleep \cup {p}
  /\ wakeup_flags' = [wakeup_flags EXCEPT ![p] = "WT_INTERRUPTED"]
  /\ UNCHANGED <<value, locked_by>>

\* Fault: an off-by-one in the test of the value.
CanTakeZero == value >= 0

CanTake == value > 0

lock_mm(p) ==
  /\ pc[p] = "out"
  /\ \/ CanTake /\ Take(p) /\ pc' = [pc EXCEPT ![p] = "in"]
     \/ ~CanTake /\ Wait(p) /\ pc' = [pc EXCEPT ![p] = "lock"]
  /\ UNCHANGED panic

(* do_pgfault, in user code or in kernel code with or without the lock:    *)
(* try_lock_mm, then the test of locked_by, then lock_mm.                  *)
do_pgfault(p) ==
  /\ pc[p] \in {"out", "in"}
  /\ \/ CanTake /\ Take(p) /\ pc' = [pc EXCEPT ![p] = "fault"]
     \/ /\ ~CanTake /\ locked_by = p
        /\ pc' = [pc EXCEPT ![p] = "nested"]
        /\ UNCHANGED <<value, wait_queue, asleep, wakeup_flags, locked_by>>
     \/ /\ ~CanTake /\ locked_by # p
        /\ Wait(p)
        /\ pc' = [pc EXCEPT ![p] = "faultlock"]
  /\ UNCHANGED panic

\* Back from schedule(): a waiter that was not woken by up() is still queued
\* and fails the assertion of down().
down_returns(p) ==
  /\ pc[p] \in {"lock", "faultlock"}
  /\ p \notin asleep
  /\ wait_queue' \in Kept(wait_queue, Thread \ {p})
  /\ IF wakeup_flags[p] = "WT_KSEM"
     THEN /\ locked_by' = p
          /\ pc' = [pc EXCEPT ![p] = IF @ = "lock" THEN "in" ELSE "fault"]
          /\ UNCHANGED panic
     ELSE panic' = TRUE /\ UNCHANGED <<locked_by, pc>>
  /\ UNCHANGED <<value, asleep, wakeup_flags>>

\* Fault of __up: the waiter that came last is woken.
up_newest ==
  LET n == Len(wait_queue) IN
  /\ value' = IF n = 0 THEN value + 1 ELSE value
  /\ wait_queue' = SubSeq(wait_queue, 1, n - 1)
  /\ asleep' = IF n = 0 THEN asleep ELSE asleep \ {wait_queue[n]}
  /\ wakeup_flags' = [p \in Thread |-> IF p \in asleep \ asleep' THEN "WT_KSEM"
                                       ELSE wakeup_flags[p]]
  /\ UNCHANGED panic

\* __up: a waiter gets the semaphore, which stays taken.
up ==
  \/ /\ wait_queue = <<>>
     /\ value' = value + 1
     /\ UNCHANGED <<wait_queue, asleep, wakeup_flags, panic>>
  \/ /\ wait_queue # <<>> /\ Head(wait_queue) \in asleep
     /\ wait_queue' = Tail(wait_queue)
     /\ asleep' = asleep \ {Head(wait_queue)}
     /\ wakeup_flags' = [wakeup_flags EXCEPT ![Head(wait_queue)] = "WT_KSEM"]
     /\ UNCHANGED <<value, panic>>
  \/ /\ wait_queue # <<>> /\ Head(wait_queue) \notin asleep
     /\ panic' = TRUE
     /\ UNCHANGED <<value, wait_queue, asleep, wakeup_flags>>

\* unlock_mm, by its caller or at the end of a do_pgfault that locked.
unlock_mm(p) ==
  /\ pc[p] \in {"in", "fault"}
  /\ up
  /\ locked_by' = NoProc
  /\ pc' = [pc EXCEPT ![p] = "out"]

\* The end of a do_pgfault that found the lock taken by its own thread.
pgfault_returns(p) ==
  /\ pc[p] = "nested"
  /\ pc' = [pc EXCEPT ![p] = "in"]
  /\ UNCHANGED <<value, wait_queue, asleep, wakeup_flags, locked_by, panic>>

\* signal_wakeup: SIGKILL ends a wait although WT_KSEM is not interruptible.
signal_wakeup(p) ==
  /\ Sigkill
  /\ p \in asleep
  /\ asleep' = asleep \ {p}
  /\ UNCHANGED <<value, wait_queue, wakeup_flags, locked_by, pc, panic>>

Kernel(p) == down_returns(p) \/ unlock_mm(p) \/ pgfault_returns(p)

Next == /\ ~panic
        /\ \E p \in Thread : \/ lock_mm(p) \/ do_pgfault(p) \/ Kernel(p)
                             \/ signal_wakeup(p)

Spec == Init /\ [][Next]_vars

\* A thread that was woken runs (module Sched), and code that holds the lock
\* takes finitely many page faults before it leaves it.
FairSpec == Spec /\ \A p \in Thread : /\ WF_vars(~panic /\ Kernel(p))
                                      /\ SF_vars(~panic /\ unlock_mm(p))

-----------------------------------------------------------------------------
TypeOK ==
  /\ value \in 0..1
  /\ wait_queue \in Seq(Thread)
  /\ asleep \subseteq Thread
  /\ wakeup_flags \in [Thread -> {"WT_INTERRUPTED", "WT_KSEM"}]
  /\ locked_by \in Thread \cup {NoProc}
  /\ pc \in [Thread -> PC]
  /\ panic \in BOOLEAN

\* A thread that up() chose has the lock before it runs again.
Granted(p) == pc[p] \in {"lock", "faultlock"} /\ wakeup_flags[p] = "WT_KSEM"

Holders == {p \in Thread : pc[p] \in {"in", "nested", "fault"} \/ Granted(p)}

(* mm_sem is an exclusive lock, also while it is passed from hand to hand  *)
(* and whatever page faults come in between.                               *)
M == INSTANCE Mutex WITH Proc <- Thread, holder <- Holders

Exclusive == M!Spec

(* locked_by names the thread that runs with the lock: do_pgfault goes on  *)
(* without locking only in a thread that has the lock, and never waits for *)
(* a lock that its own thread has.  unlock_mm clears locked_by after up(), *)
(* when the next holder is chosen already.                                 *)
LockedByHolder ==
  /\ locked_by # NoProc => pc[locked_by] \in {"in", "nested", "fault"}
  /\ \A p \in Thread : pc[p] \in {"in", "nested", "fault"} => locked_by = p

(* Nobody waits for a free lock.  A waiter is in the queue, or up() took   *)
(* it out, gave it the lock and woke it: no wakeup is lost.                *)
NoLostWakeup == ~panic =>
  /\ value = 1 => wait_queue = <<>> /\ Holders = {}
  /\ \A p \in Thread : pc[p] \in {"lock", "faultlock"} =>
       (p \in Range(wait_queue)) # (Granted(p) /\ p \notin asleep)

\* The field locked_by and the queue of the lock are right, and so are the
\* types.
LockExact == LockedByHolder /\ NoLostWakeup /\ TypeOK

\* Who asks for the lock gets it.
LockGranted == \A p \in Thread : (pc[p] = "lock") ~> (pc[p] = "in")

\* The assertion of down(): a wait for a kernel semaphore ends by up() only.
DownNotInterrupted == ~panic
=============================================================================
