------------------------------ MODULE PidAlloc ------------------------------
(***************************************************************************)
(* The choice of process ids (get_pid in process/proc.c).  get_pid keeps   *)
(* the last pid it gave and next_safe, below which it need not look at the *)
(* processes; otherwise it walks through proc_list, one process in a step  *)
(* here, and starts again when it runs into next_safe.  It runs with the   *)
(* interrupts off: nothing else happens during the walk.  do_fork compares *)
(* the number of processes with MAX_PROCESS before it sleeps in copy_mm.   *)
(***************************************************************************)
EXTENDS List, ProcLimit

CONSTANT MAX_PID  \* pids below lcpu_count are those of the idle processes

ASSUME PidAssumption ==
  /\ lcpu_count \in Nat \ {0} /\ MAX_PROCESS \in Nat /\ MAX_PID \in Nat
  /\ lcpu_count < MAX_PROCESS /\ MAX_PROCESS < MAX_PID

VARIABLES
  last_pid, next_safe,
  proc_list,  \* the pids of the processes, in the order of the list
  forks,      \* number of forks between the check and get_pid
  le,         \* place of the walk in proc_list
  pc          \* "user", "walk" (in get_pid), or "found"

pid_vars == <<last_pid, next_safe, proc_list, forks, le, pc>>

PidInit == /\ last_pid = MAX_PID /\ next_safe = MAX_PID
           /\ proc_list = <<>> /\ forks = 0 /\ le = 1 /\ pc = "user"

\* The start of do_fork.  A process makes one fork at a time; the idle
\* process makes the first one.
do_fork_checks ==
  /\ pc = "user" /\ MayFork(Len(proc_list))
  /\ forks < Len(proc_list) \/ (proc_list = <<>> /\ forks = 0)
  /\ forks' = forks + 1
  /\ UNCHANGED <<last_pid, next_safe, proc_list, le, pc>>

\* One of the copies fails.
do_fork_gives_up ==
  /\ pc = "user" /\ forks > 0
  /\ forks' = forks - 1
  /\ UNCHANGED <<last_pid, next_safe, proc_list, le, pc>>

\* The start of get_pid, which looks at the list if the pid is not safe.
get_pid ==
  /\ pc = "user" /\ forks > 0
  /\ last_pid' = IF last_pid + 1 >= MAX_PID THEN lcpu_count ELSE last_pid + 1
  /\ IF last_pid + 1 >= MAX_PID \/ last_pid + 1 >= next_safe
     THEN pc' = "walk" /\ next_safe' = MAX_PID
     ELSE pc' = "found" /\ UNCHANGED next_safe
  /\ le' = 1
  /\ UNCHANGED <<proc_list, forks>>

\* Fault: the walk goes on although it ran into next_safe.
MustRepeatNever(pid) == pid >= MAX_PID

\* The next pid may be one that the walk has already passed.
MustRepeat(pid) == pid >= next_safe

\* Fault: the search stays at the last pid.
WrappedNot(pid) == IF pid >= MAX_PID THEN MAX_PID - 1 ELSE pid

\* The pids wrap around.
Wrapped(pid) == IF pid >= MAX_PID THEN 1 ELSE pid

\* The pid is in use: try the next one, from the start of the list if need be.
try_next ==
  /\ pc = "walk" /\ le <= Len(proc_list) /\ proc_list[le] = last_pid
  /\ IF MustRepeat(last_pid + 1)
     THEN /\ last_pid' = Wrapped(last_pid + 1)
          /\ next_safe' = MAX_PID
          /\ le' = 1
     ELSE /\ last_pid' = last_pid + 1
          /\ le' = le + 1
          /\ UNCHANGED next_safe
  /\ UNCHANGED <<proc_list, forks, pc>>

\* next_safe is the smallest pid in use above last_pid.
Lowered(pid) == IF pid > last_pid /\ next_safe > pid THEN pid ELSE next_safe

pass ==
  /\ pc = "walk" /\ le <= Len(proc_list) /\ proc_list[le] # last_pid
  /\ next_safe' = Lowered(proc_list[le])
  /\ le' = le + 1
  /\ UNCHANGED <<last_pid, proc_list, forks, pc>>

walk_ends ==
  /\ pc = "walk" /\ le > Len(proc_list)
  /\ pc' = "found"
  /\ UNCHANGED <<last_pid, next_safe, proc_list, forks, le>>

\* The new process gets its pid and goes to the front of the list.
set_links ==
  /\ pc = "found"
  /\ proc_list' = <<last_pid>> \o proc_list
  /\ forks' = forks - 1
  /\ pc' = "user"
  /\ UNCHANGED <<last_pid, next_safe, le>>

\* A process that has exited, and thus is not in do_fork, is waited for.
remove_links ==
  /\ pc = "user" /\ forks < Len(proc_list)
  /\ \E i \in DOMAIN proc_list : proc_list' = list_del(proc_list, i)
  /\ UNCHANGED <<last_pid, next_safe, forks, le, pc>>

Walk == try_next \/ pass \/ walk_ends

PidNext == \/ do_fork_checks \/ do_fork_gives_up
           \/ get_pid \/ Walk \/ set_links \/ remove_links

PidSpec == PidInit /\ [][PidNext]_pid_vars

\* get_pid is not interrupted.
FairPidSpec == PidSpec /\ WF_pid_vars(Walk)

-----------------------------------------------------------------------------
PidTypeOK ==
  /\ last_pid \in 1..MAX_PID /\ next_safe \in 1..MAX_PID
  /\ proc_list \in Seq(1..(MAX_PID - 1))
  /\ forks \in Nat /\ le \in Nat \ {0}
  /\ pc \in {"user", "walk", "found"}

\* No two processes have the same pid, also after the pids have wrapped
\* around and next_safe was found while processes that are gone were there.
PidsUnique ==
  \A i, j \in DOMAIN proc_list : i # j => proc_list[i] # proc_list[j]

\* Outside get_pid no pid between last_pid and next_safe is in use: the pids
\* that get_pid gives without a look at the list are free.
GapIsFree ==
  pc \in {"user", "found"} =>
    \A i \in DOMAIN proc_list : proc_list[i] \notin (last_pid + 1)..(next_safe - 1)

\* The assertion of wakeup_proc: pids below lcpu_count are for idle processes.
PidsAboveIdle == \A i \in DOMAIN proc_list : proc_list[i] >= lcpu_count

(* get_pid finds a pid.  Forks that passed the check together can bring    *)
(* more than MAX_PROCESS processes about; MAX_PID has to allow for them.   *)
PidIsFound == (pc = "walk") ~> (pc = "found")
=============================================================================
