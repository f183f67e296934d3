------------------------------- MODULE MCLive -------------------------------
(***************************************************************************)
(* The liveness of schedule/ and process/ for TLC: the parts of MCProcess  *)
(* and the scheduler (Sched), one of which runs in a behaviour.            *)
(***************************************************************************)
EXTENDS MCProcess

CONSTANTS Task, Idle, Group, Levels, Times  \* of Sched

VARIABLES
  task_state, wait_state, task_exiting, need_resched, time_slice, rq, runq,
  timer, linked, running, task_pc

sched_vars == <<task_state, wait_state, task_exiting, need_resched, time_slice,
                rq, runq, timer, linked, running, task_pc>>

MCSlice == [l \in 1..Levels |-> 2]

CPU == INSTANCE Sched
  WITH Proc <- Task, MaxSlice <- MCSlice, state <- task_state,
       exiting <- task_exiting, current <- running, pc <- task_pc

InSched(A) == part = "sched" /\ A /\ UNCHANGED all_vars

LiveInit == MCInit /\ CPU!Init
LiveNext == (MCNext /\ UNCHANGED sched_vars) \/ InSched(CPU!Next)
live_vars == <<all_vars, sched_vars>>

\* The fairness of PidAlloc, of ProcLife, of Signal and of Sched.
LiveSpec == /\ LiveInit /\ [][LiveNext]_live_vars
            /\ WF_all_vars(InPids(Walk))
            /\ \A p \in Proc : WF_all_vars(InLife(Kernel(p)))
            /\ WF_all_vars(InSignal(Running /\ Remember))
            /\ SF_all_vars(InSignal(Preempted /\ Remember))
            /\ \A p \in Thread : SF_all_vars(InSignal(Schedule(p) /\ Remember))
            /\ WF_live_vars(InSched(CPU!Tick)) /\ WF_live_vars(InSched(CPU!IdleSchedule))
            /\ \A p \in Task : WF_live_vars(InSched(CPU!Kernel(p)))

-----------------------------------------------------------------------------
\* A process in the run queue gets the CPU (RR_proc_tick, schedule).
RunnableRuns == part = "sched" => CPU!RunnableRuns

\* do_sleep ends: run_timer_list wakes the process and schedule() runs it.
SleepEnds == part = "sched" => CPU!SleepEnds
=============================================================================
