-------------------------------- MODULE USem --------------------------------
(***************************************************************************)
(* User semaphores (sync/sem.c) and the tables through which processes     *)
(* share them (sem_queue, copied or shared by do_fork in process/proc.c).  *)
(* Between two calls of schedule() a process runs alone; a waiter can be   *)
(* woken by a post, by ipc_sem_free, by its timer, by a kill or a signal,  *)
(* and stays in the wait queue until it runs again unless the one that     *)
(* woke it took it out.  A timer may expire at any tick after it is armed. *)
(***************************************************************************)
EXTENDS List, Processes

CONSTANTS
  Sem,      \* memory for semaphores
  Table,    \* memory for semaphore tables (sem_queue_t)
  MaxValue  \* bound on the value of a semaphore
            \* (an int in the code; a post beyond it is not modelled)

\* The constants are what they should be.
SemConstants == /\ None \notin Sem \cup Table /\ IsFiniteSet(Table)
                /\ MaxValue \in Nat

VARIABLES
  sem_value, valid, sem_wait_queue,  \* the fields of a semaphore
  count,             \* sem->count, 0 when the memory is free
  semu_list,         \* the semaphores in the undo list of a table
  sem_queue,         \* proc->sem_queue, None for a free process slot
  waits_for,         \* the semaphore a process is in __down for
  wait_state,        \* proc->wait_state
  sem_wakeup_flags,  \* wait->wakeup_flags
  timer,             \* the processes with a timer in the timer list
  sem_panic          \* an assertion of the kernel failed

sem_vars == <<sem_value, valid, sem_wait_queue, count, semu_list, sem_queue, waits_for,
              wait_state, sem_wakeup_flags, timer, sem_panic>>

procVars == <<waits_for, wait_state, sem_wakeup_flags, timer, sem_panic>>

\* No semaphore; tables says which table each process has.
SemBoot(tables) ==
  /\ sem_value = [s \in Sem |-> 0]
  /\ valid = [s \in Sem |-> FALSE]
  /\ sem_wait_queue = [s \in Sem |-> <<>>]
  /\ count = [s \in Sem |-> 0]
  /\ semu_list = [t \in Table |-> {}]
  /\ sem_queue = tables
  /\ waits_for = [p \in Proc |-> None]
  /\ wait_state = [p \in Proc |-> "none"]
  /\ sem_wakeup_flags = [p \in Proc |-> "WT_INTERRUPTED"]
  /\ timer = {}
  /\ sem_panic = FALSE

\* One process with an empty table.
SemInit == \E p \in Proc, t \in Table :
          SemBoot([q \in Proc |-> IF q = p THEN t ELSE None])

InUser(p) == sem_queue[p] # None /\ waits_for[p] = None

Users(t) == {p \in Proc : sem_queue[p] = t}

FreeTables == {t \in Table : Users(t) = {}}

\* The entries of the table t for the semaphores S are destroyed; the memory
\* of a semaphore without entries is freed.
semu_destroy(t, S) ==
  /\ semu_list' = [semu_list EXCEPT ![t] = @ \ S]
  /\ count' = [s \in Sem |-> IF s \in S THEN count[s] - 1 ELSE count[s]]

-----------------------------------------------------------------------------
\* ipc_sem_init: the semaphore is put in memory that kmalloc found free.
ipc_sem_init(p, s, v) ==
  /\ InUser(p)
  /\ count[s] = 0
  /\ sem_value' = [sem_value EXCEPT ![s] = v]
  /\ valid' = [valid EXCEPT ![s] = TRUE]
  /\ sem_wait_queue' = [sem_wait_queue EXCEPT ![s] = <<>>]
  /\ count' = [count EXCEPT ![s] = 1]
  /\ semu_list' = [semu_list EXCEPT ![sem_queue[p]] = @ \cup {s}]
  /\ UNCHANGED <<sem_queue, procVars>>

\* semu_list_search finds an entry of the table of p for a semaphore ...
Listed(p, s) == InUser(p) /\ s \in semu_list[sem_queue[p]]

\* ... that is valid ...
Found(p, s) == Listed(p, s) /\ valid[s]

\* ... or that was freed, in which case the call only destroys the entry.
semu_list_search_freed(p, s) ==
  /\ Listed(p, s) /\ ~valid[s]
  /\ semu_destroy(sem_queue[p], {s})
  /\ UNCHANGED <<sem_value, valid, sem_wait_queue, sem_queue, procVars>>

\* Fault: the value grows although there are waiters.
ipc_sem_post_counts(p, s) ==
  /\ Found(p, s) /\ sem_value[s] < MaxValue
  /\ sem_value' = [sem_value EXCEPT ![s] = @ + 1]
  /\ UNCHANGED <<valid, sem_wait_queue, count, semu_list, sem_queue, procVars>>

\* ipc_sem_post, usem_up.
ipc_sem_post(p, s) ==
  /\ Found(p, s)
  /\ \/ /\ sem_wait_queue[s] = <<>> /\ sem_value[s] < MaxValue
        /\ sem_value' = [sem_value EXCEPT ![s] = @ + 1]
        /\ UNCHANGED <<sem_wait_queue, wait_state, sem_wakeup_flags, sem_panic>>
     \/ /\ sem_wait_queue[s] # <<>>
        /\ LET q == Head(sem_wait_queue[s]) IN
           IF wait_state[q] = "WT_USEM"
           THEN /\ sem_wait_queue' = [sem_wait_queue EXCEPT ![s] = Tail(@)]
                /\ sem_wakeup_flags' = [sem_wakeup_flags EXCEPT ![q] = "WT_USEM"]
                /\ wait_state' = [wait_state EXCEPT ![q] = "none"]
                /\ UNCHANGED sem_panic
           ELSE sem_panic' = TRUE /\ UNCHANGED <<sem_wait_queue, sem_wakeup_flags, wait_state>>
        /\ UNCHANGED sem_value
  /\ UNCHANGED <<valid, count, semu_list, sem_queue, waits_for, timer>>

\* ipc_sem_wait, usem_down up to schedule(), with a timer or without.
ipc_sem_wait(p, s, timed) ==
  /\ Found(p, s)
  /\ \/ /\ sem_value[s] > 0
        /\ sem_value' = [sem_value EXCEPT ![s] = @ - 1]
        /\ UNCHANGED <<sem_wait_queue, waits_for, wait_state, sem_wakeup_flags, timer>>
     \/ /\ sem_value[s] <= 0
        /\ sem_wait_queue' = [sem_wait_queue EXCEPT ![s] = Append(@, p)]
        /\ waits_for' = [waits_for EXCEPT ![p] = s]
        /\ wait_state' = [wait_state EXCEPT ![p] = "WT_USEM"]
        /\ sem_wakeup_flags' = [sem_wakeup_flags EXCEPT ![p] = "WT_INTERRUPTED"]
        /\ timer' = IF timed THEN timer \cup {p} ELSE timer
        /\ UNCHANGED sem_value
  /\ UNCHANGED <<valid, count, semu_list, sem_queue, sem_panic>>

\* Fault: a waiter that nobody took out of the queue leaves it there.
down_returns_queued(p) ==
  /\ waits_for[p] # None /\ wait_state[p] = "none"
  /\ waits_for' = [waits_for EXCEPT ![p] = None]
  /\ timer' = timer \ {p}
  /\ UNCHANGED <<sem_value, valid, sem_wait_queue, count, semu_list, sem_queue,
                 wait_state, sem_wakeup_flags, sem_panic>>

\* __down, back from schedule(): ipc_del_timer, wait_current_del.
sem_down_returns(p) ==
  /\ waits_for[p] # None /\ wait_state[p] = "none"
  /\ sem_wait_queue' = [sem_wait_queue EXCEPT ![waits_for[p]] = Without(@, p)]
  /\ waits_for' = [waits_for EXCEPT ![p] = None]
  /\ timer' = timer \ {p}
  /\ UNCHANGED <<sem_value, valid, count, semu_list, sem_queue, wait_state,
                 sem_wakeup_flags, sem_panic>>

\* Fault: ipc_sem_free wakes nobody.
FreeWakesNobody(s) == {}

\* The waiters that ipc_sem_free wakes (wakeup_queue).
SemFreeWakes(s) == Range(sem_wait_queue[s])

ipc_sem_free(p, s) ==
  /\ Found(p, s)
  /\ valid' = [valid EXCEPT ![s] = FALSE]
  /\ sem_wait_queue' = [sem_wait_queue EXCEPT ![s] = <<>>]
  /\ wait_state' = [q \in Proc |-> IF q \in SemFreeWakes(s) THEN "none"
                                   ELSE wait_state[q]]
  /\ UNCHANGED <<sem_value, count, semu_list, sem_queue, waits_for, sem_wakeup_flags,
                 timer, sem_panic>>

-----------------------------------------------------------------------------
(* What else happens to a waiting process.                                 *)

\* wakeup_proc from outside the semaphore: p stays in the queue.
wakeup_proc(p) ==
  /\ wait_state' = [wait_state EXCEPT ![p] = "none"]
  /\ UNCHANGED <<sem_value, valid, sem_wait_queue, count, semu_list, sem_queue,
                 waits_for, sem_wakeup_flags, sem_panic>>

\* The timer of p expires.
SemTimeout(p) == p \in timer /\ wakeup_proc(p) /\ timer' = timer \ {p}

\* A kill (__do_kill) or a signal (signal_wakeup) for p.
SemInterrupt(p) == wait_state[p] # "none" /\ wakeup_proc(p) /\ UNCHANGED timer

\* A stop signal to the thread group of p: stop_proc.
stop_proc(p) ==
  /\ waits_for[p] # None /\ wait_state[p] # "WT_SIGNAL"
  /\ wait_state' = [wait_state EXCEPT ![p] = "WT_SIGNAL"]
  /\ UNCHANGED <<sem_value, valid, sem_wait_queue, count, semu_list, sem_queue,
                 waits_for, sem_wakeup_flags, timer, sem_panic>>

-----------------------------------------------------------------------------
(* Tables.                                                                 *)

\* do_fork with CLONE_SEM: the child shares the table.
do_fork_shared(p, q) ==
  /\ InUser(p) /\ sem_queue[q] = None
  /\ sem_queue' = [sem_queue EXCEPT ![q] = sem_queue[p]]
  /\ UNCHANGED <<sem_value, valid, sem_wait_queue, count, semu_list, procVars>>

\* dup_sem_queue, semu_create: entries for the semaphores S in a new table.
dup_sem_queue(t, S) ==
  /\ semu_list' = [semu_list EXCEPT ![t] = S]
  /\ count' = [s \in Sem |-> IF s \in S THEN count[s] + 1 ELSE count[s]]

\* do_fork without CLONE_SEM: a table with the valid semaphores.
do_fork_copied(p, q, t) ==
  /\ InUser(p) /\ sem_queue[q] = None /\ t \in FreeTables
  /\ dup_sem_queue(t, {s \in semu_list[sem_queue[p]] : valid[s]})
  /\ sem_queue' = [sem_queue EXCEPT ![q] = t]
  /\ UNCHANGED <<sem_value, valid, sem_wait_queue, procVars>>

\* put_sem_queue: the last user of a table destroys its entries.
put_sem_queue(p) ==
  IF Users(sem_queue[p]) = {p}
  THEN semu_destroy(sem_queue[p], semu_list[sem_queue[p]])
  ELSE UNCHANGED <<semu_list, count>>

\* __do_exit; one process stays (initproc never exits).
exit_sem_queue(p) ==
  /\ InUser(p)
  /\ \E q \in Proc \ {p} : sem_queue[q] # None
  /\ put_sem_queue(p)
  /\ sem_queue' = [sem_queue EXCEPT ![p] = None]
  /\ UNCHANGED <<sem_value, valid, sem_wait_queue, procVars>>

\* do_execve: the table is put and a new one is created.
do_execve(p, t) ==
  /\ InUser(p) /\ t \in FreeTables
  /\ put_sem_queue(p)
  /\ sem_queue' = [sem_queue EXCEPT ![p] = t]
  /\ UNCHANGED <<sem_value, valid, sem_wait_queue, procVars>>

SemCall(p) ==
  \E s \in Sem : \/ \E v \in -1..MaxValue : ipc_sem_init(p, s, v)
                 \/ semu_list_search_freed(p, s)
                 \/ ipc_sem_post(p, s) \/ ipc_sem_free(p, s)
                 \/ \E timed \in BOOLEAN : ipc_sem_wait(p, s, timed)

TableCall(p) ==
  \/ exit_sem_queue(p)
  \/ \E q \in Proc : do_fork_shared(p, q)
                     \/ \E t \in Table : do_fork_copied(p, q, t)
  \/ \E t \in Table : do_execve(p, t)

SemNext == /\ ~sem_panic
           /\ \E p \in Proc : \/ SemCall(p) \/ TableCall(p) \/ sem_down_returns(p)
                              \/ SemTimeout(p) \/ SemInterrupt(p) \/ stop_proc(p)

SemSpec == SemInit /\ [][SemNext]_sem_vars

\* A woken process runs and the timer interrupt keeps coming.
FairSemSpec ==
  SemSpec /\ \A p \in Proc : /\ WF_sem_vars(~sem_panic /\ sem_down_returns(p))
                            /\ WF_sem_vars(~sem_panic /\ SemTimeout(p))

-----------------------------------------------------------------------------
SemTypeOK ==
  /\ sem_value \in [Sem -> -1..MaxValue]
  /\ valid \in [Sem -> BOOLEAN]
  /\ sem_wait_queue \in [Sem -> Seq(Proc)]
  /\ count \in [Sem -> 0..Cardinality(Table)]
  /\ semu_list \in [Table -> SUBSET Sem]
  /\ sem_queue \in [Proc -> Table \cup {None}]
  /\ waits_for \in [Proc -> Sem \cup {None}]
  /\ wait_state \in [Proc -> {"none", "WT_USEM", "WT_SIGNAL"}]
  /\ sem_wakeup_flags \in [Proc -> {"WT_INTERRUPTED", "WT_USEM"}]
  /\ timer \subseteq Proc
  /\ sem_panic \in BOOLEAN

(* The memory of a semaphore is held by the tables that list it and is     *)
(* freed with the last entry, never under a waiter: the entries are counted *)
(* through fork, exec, exit and the lazy removal of freed semaphores, and  *)
(* a wait queue names exactly processes that are inside __down for it.     *)
MemoryHeld ==
  SemTypeOK /\ \A s \in Sem :
    /\ count[s] = Cardinality({t \in Table : s \in semu_list[t]})
    /\ \A p \in Range(sem_wait_queue[s]) : waits_for[p] = s /\ valid[s] /\ count[s] > 0

(* No post is lost and none counts twice: a semaphore with a positive      *)
(* value has no waiters, a process asleep in __down is in the queue of a   *)
(* semaphore that has nothing to give, and a process that was handed a     *)
(* unit is out of the queue, so that the next post goes to somebody else.  *)
PostsExact ==
  /\ \A s \in Sem : count[s] > 0 /\ sem_value[s] > 0 => sem_wait_queue[s] = <<>>
  /\ \A p \in Proc : wait_state[p] = "WT_USEM" =>
       p \in Range(sem_wait_queue[waits_for[p]]) /\ sem_value[waits_for[p]] <= 0
  /\ \A p \in Proc : waits_for[p] # None /\ sem_wakeup_flags[p] = "WT_USEM" =>
       wait_state[p] # "WT_USEM" /\ p \notin Range(sem_wait_queue[waits_for[p]])

(* The assertion of __up: the waiter that a post releases is still waiting. *)
(* A waiter that was woken by its timer, a kill or a signal, or that was    *)
(* stopped, is in the queue until it runs.                                  *)
UpMeetsWaiter == ~sem_panic

Released(p) == waits_for[p] = None \/ wait_state[p] = "WT_SIGNAL" \/ sem_panic

(* ipc_sem_free releases every process that waits for the semaphore, and a  *)
(* wait with a timeout ends whatever happens to the semaphore, unless the   *)
(* process is stopped.                                                      *)
SemWaitsEnd ==
  /\ \A p \in Proc, s \in Sem : (waits_for[p] = s /\ ~valid[s]) ~> Released(p)
  /\ \A p \in Proc : (p \in timer) ~> Released(p)
=============================================================================
