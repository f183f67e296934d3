------------------------------ MODULE MCSync -------------------------------
(***************************************************************************)
(* The models of sync/, and of the timers that end its waits, for TLC: the *)
(* lock of an address space (MmLock), user semaphores (USem), a mailbox    *)
(* (Mbox), events (Event) and the timer list (TimerList).  They share no   *)
(* state, so that a behaviour exercises one facility, chosen at the start, *)
(* and the others rest.                                                    *)
(***************************************************************************)
EXTENDS MmLock, USem, Mbox, Event, TLC

CONSTANTS Timer, Times  \* of TimerList

VARIABLES
  facility,  \* what the behaviour is about
  timer_list, tl_expires, expired

tl_vars == <<timer_list, tl_expires, expired>>
all_vars == <<facility, vars, sem_vars, mb_vars, ev_vars, tl_vars>>

TList == INSTANCE TimerList WITH expires <- tl_expires

ASSUME SyncAssumption == /\ None \notin Proc
                         /\ SemConstants
                         /\ MboxConstants
                         /\ Times \subseteq Nat \ {0}

\* A is a step of the facility.
InLock(A) == /\ facility = "lock" /\ A
             /\ UNCHANGED <<facility, sem_vars, mb_vars, ev_vars, tl_vars>>
InSem(A) == /\ facility = "sem" /\ A
            /\ UNCHANGED <<facility, vars, mb_vars, ev_vars, tl_vars>>
InMbox(A) == /\ facility = "mbox" /\ A
             /\ UNCHANGED <<facility, vars, sem_vars, ev_vars, tl_vars>>
InEvent(A) == /\ facility = "event" /\ A
              /\ UNCHANGED <<facility, vars, sem_vars, mb_vars, tl_vars>>
InTimers(A) == /\ facility = "timers" /\ A
               /\ UNCHANGED <<facility, vars, sem_vars, mb_vars, ev_vars>>

Start == /\ Init /\ MboxInit /\ EventInit /\ TList!Init
         /\ IF facility = "sem" THEN SemInit ELSE SemBoot([p \in Proc |-> None])
MCInit == facility \in {"lock", "sem", "mbox", "event", "timers"} /\ Start
MCNext == \/ InLock(Next) \/ InSem(SemNext) \/ InMbox(MboxNext) \/ InEvent(EventNext)
          \/ InTimers(TList!Next)
MCSpec == MCInit /\ [][MCNext]_all_vars

\* Proc is Thread when the symmetry is used.
MCSymmetry == Permutations(Proc) \cup Permutations(Sem) \cup Permutations(Table)

-----------------------------------------------------------------------------
\* The relative times of the list let each timer expire at its own time, and
\* the first timer is never exhausted before a tick.
Implements == TList!Implements
=============================================================================
