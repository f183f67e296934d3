------------------------------- MODULE Signal -------------------------------
(***************************************************************************)
(* Signals of a thread group, process/signal.c, with the signal frames of  *)
(* arch/arm/process/arch_signal.c and the end of trap().  Every thread has *)
(* its own signal_struct (copy_signal) and all share the handlers.  There  *)
(* is one CPU and kernel code is not preempted: a thread is in user mode   *)
(* only while it is current, and another thread or process runs when it    *)
(* calls schedule().  No holder of sig_sem sleeps, so that it is left out. *)
(***************************************************************************)
EXTENDS Integers, Sequences, FiniteSets, FiniteSetsExt

CONSTANTS
  Thread,     \* the threads of the group
  Outside,    \* another process, that only sends signals
  Signals,    \* the signals that are sent, by number
  Masks,      \* the sets of signals that programs block
  Actions,    \* the sigactions that programs install
  MaxFrames,  \* bound on the handlers that a thread is in
  MaxCalls    \* bound on the calls that change something

\* The constants are what they should be.
SignalConstants == /\ Outside \notin Thread /\ Signals \subseteq 1..64
                   /\ \A m \in Masks : m \subseteq Signals
                   /\ Actions \subseteq [sa_handler : {"SIG_DFL", "SIG_IGN", "user"},
                                         sa_mask : SUBSET Signals,
                                         nodefer : BOOLEAN, oneshot : BOOLEAN]
                   /\ MaxFrames \in Nat /\ MaxCalls \in Nat

SIGKILL == 9
SIGCONT == 18
SIGSTOP == 19
TtyStops == 20..22             \* SIGTSTP, SIGTTIN and SIGTTOU
Harmless == {17, SIGCONT, 23, 28}  \* with SIGCHLD, SIGURG and SIGWINCH

VARIABLES
  current,      \* the running thread, Outside, or Nobody inside schedule()
  at,           \* where a thread is in the kernel
  asleep,       \* the wait_state of a sleeping thread; "no" if it is runnable
  sig_exiting,  \* the threads with PF_EXITING
  pending,      \* signal_info.pending
  shared,       \* signal_info.signal->shared_pending
  curr_target,  \* signal_info.signal->curr_target
  blocked,      \* signal_info.blocked
  flag,         \* TIF_SIGPENDING
  action,       \* sighand->action: sa_handler is "SIG_DFL", "SIG_IGN" or "user"
  frames,       \* the masks in the signal frames on a thread's stack
  saved,        \* old_blocked of a thread in do_sigsuspend, or NoMask
  calls         \* the number of calls made so far

sig_vars == <<current, at, asleep, sig_exiting, pending, shared, curr_target, blocked,
              flag, action, frames, saved, calls>>
sigs == <<pending, shared, curr_target, blocked, flag, action, frames, saved>>

Nobody == "none"
NoMask == {0}
Default == [sa_handler |-> "SIG_DFL", sa_mask |-> {}, nodefer |-> FALSE, oneshot |-> FALSE]

SigInit == /\ current = Outside
           /\ at = [p \in Thread |-> "signal"]
           /\ asleep = [p \in Thread |-> "no"]
           /\ sig_exiting = {}
           /\ pending = [p \in Thread |-> {}]
           /\ shared = [p \in Thread |-> {}]
           /\ curr_target = [p \in Thread |-> Nobody]
           /\ blocked = [p \in Thread |-> {}]
           /\ flag = [p \in Thread |-> FALSE]
           /\ action = [s \in Signals |-> Default]
           /\ frames = [p \in Thread |-> <<>>]
           /\ saved = [p \in Thread |-> NoMask]
           /\ calls = 0

Alive == {p \in Thread : at[p] # "gone"}
Move(p, where) == at' = [at EXCEPT ![p] = where]

\* Fault: a mask that changes leaves TIF_SIGPENDING as it is.
StaleFlag(p, sent, mask) == flag[p]

\* sig_recalc_pending.
Recalc(p, sent, mask) == sent \ mask # {}

-----------------------------------------------------------------------------
(* Sending.                                                                *)

Ignores(s, a) == /\ s \notin {SIGKILL, SIGSTOP}
                 /\ \/ a.sa_handler = "SIG_IGN"
                    \/ a.sa_handler = "SIG_DFL" /\ s \in Harmless
ignore_sig(s) == Ignores(s, action[s])

\* Fault: only the threads that wait for a signal are woken.
WakesWaiters(q, f) ==
  /\ flag' = [f EXCEPT ![q] = TRUE]
  /\ asleep' = [p \in Thread |-> IF asleep[p] = "WT_SIGNAL" THEN "no" ELSE asleep[p]]

\* signal_wakeup and try_to_wakeup, which also wakes the threads that wait
\* for a signal or are stopped.
signal_wakeup(q, f) ==
  /\ flag' = [f EXCEPT ![q] = TRUE]
  /\ asleep' = IF asleep[q] = "no" THEN asleep
               ELSE [p \in Thread |-> IF p = q \/ asleep[p] = "WT_SIGNAL"
                                      THEN "no" ELSE asleep[p]]

\* specific_send_sig_info.
specific_send(s, q) ==
  IF (s \notin blocked[q] /\ ignore_sig(s)) \/ s \in pending[q]
  THEN UNCHANGED <<pending, flag, asleep>>
  ELSE /\ pending' = [pending EXCEPT ![q] = @ \cup {s}]
       /\ IF s \in blocked[q] THEN UNCHANGED <<flag, asleep>>
          ELSE signal_wakeup(q, flag)

(* What handle_stop_signal removes from the shared queue, and from the     *)
(* private queues of the sender's threads, where SIGCONT stands for        *)
(* SIGSTOP.                                                                *)
Stops == {SIGSTOP} \cup TtyStops
Cancels(s) == IF s \in Stops THEN {SIGCONT} ELSE IF s = SIGCONT THEN Stops ELSE {}
CancelsPrivate(s) == IF s \in Stops THEN {SIGCONT}
                     ELSE IF s = SIGCONT THEN {SIGCONT} \cup TtyStops ELSE {}

wants_signal(s, p, f) == /\ s \notin blocked[p] /\ p \notin sig_exiting /\ at[p] # "gone"
                         /\ s = SIGKILL \/ ~f[p]

(* group_complete_send: curr_target, if it wants the signal, or another    *)
(* thread that does.  A thread that has exited is alone in its list.       *)
Picks(s, q, f) ==
  LET t == IF curr_target[q] = Nobody THEN q ELSE curr_target[q]
      others == {p \in Alive \ {t} : wants_signal(s, p, f)}
  IN IF wants_signal(s, t, f) THEN {t}
     ELSE IF at[t] = "gone" \/ others = {} THEN {Nobody} ELSE others

\* group_send_sig_info, by current.
group_send(s, q) ==
  LET mine == IF current \in Thread THEN Alive ELSE {}
      pend == [p \in Thread |-> IF p \in mine THEN pending[p] \ CancelsPrivate(s)
                                ELSE pending[p]]
      left == [shared EXCEPT ![q] = @ \ Cancels(s)]
      f == [p \in Thread |-> IF p \in mine /\ Cancels(s) # {}
                             THEN Recalc(p, pend[p] \cup left[p], blocked[p])
                             ELSE flag[p]]
  IN /\ pending' = pend
     /\ IF (s \notin blocked[q] /\ ignore_sig(s)) \/ s \in left[q]
        THEN shared' = left /\ flag' = f /\ UNCHANGED <<curr_target, asleep>>
        ELSE /\ shared' = [left EXCEPT ![q] = @ \cup {s}]
             /\ \E t \in Picks(s, q, f) :
                  /\ curr_target' = [curr_target EXCEPT ![q] =
                       IF t # Nobody THEN t ELSE IF @ = Nobody THEN q ELSE @]
                  /\ IF t = Nobody THEN flag' = f /\ UNCHANGED asleep
                     ELSE signal_wakeup(t, f)

\* do_sigtkill and do_sigkill; find_proc finds no thread that is gone.
Send(s, q) ==
  /\ q \in Alive
  /\ \/ specific_send(s, q) /\ UNCHANGED <<shared, curr_target>>
     \/ group_send(s, q)
  /\ UNCHANGED <<sig_exiting, blocked, action, frames, saved>>

-----------------------------------------------------------------------------
(* The system calls of a thread in user mode; each ends in trap().         *)

SigCall(p) == current = p /\ at[p] = "user" /\ Move(p, "trap") /\ UNCHANGED current

kill(p, q, s) == SigCall(p) /\ Send(s, q)

Blockable(m) == m \ {SIGKILL, SIGSTOP}

do_sigprocmask(p, m) ==
  /\ SigCall(p)
  /\ blocked' = [blocked EXCEPT ![p] = Blockable(m)]
  /\ flag' = [flag EXCEPT ![p] = Recalc(p, pending[p] \cup shared[p], Blockable(m))]
  /\ UNCHANGED <<asleep, sig_exiting, pending, shared, curr_target, action, frames, saved>>

\* do_sigaction; a signal that is now ignored leaves the queues.
do_sigaction(p, s, a) ==
  LET ignored == Ignores(s, a)
      drop == IF ignored THEN {s} ELSE {}
  IN /\ SigCall(p)
     /\ action' = [action EXCEPT ![s] = [a EXCEPT !.sa_mask = Blockable(@)]]
     /\ pending' = [q \in Thread |-> IF q \in Alive THEN pending[q] \ drop ELSE pending[q]]
     /\ shared' = [shared EXCEPT ![p] = @ \ drop]
     /\ flag' = [q \in Thread |->
                   IF ignored /\ q \in Alive
                   THEN Recalc(q, pending'[q] \cup shared'[q], blocked[q])
                   ELSE flag[q]]
     /\ UNCHANGED <<asleep, sig_exiting, curr_target, blocked, frames, saved>>

\* A handler returns: do_sigreturn.
do_sigreturn(p) ==
  /\ SigCall(p) /\ frames[p] # <<>>
  /\ blocked' = [blocked EXCEPT ![p] = frames[p][1]]
  /\ frames' = [frames EXCEPT ![p] = Tail(@)]
  /\ flag' = [flag EXCEPT ![p] = Recalc(p, pending[p] \cup shared[p], frames[p][1])]
  /\ UNCHANGED <<asleep, sig_exiting, pending, shared, curr_target, action, saved>>

\* do_sigsuspend, and do_sigwaitinfo with the complement of its set.
do_sigsuspend(p, m) ==
  /\ current = p /\ at[p] = "user" /\ Move(p, "suspend")
  /\ saved' = [saved EXCEPT ![p] = blocked[p]]
  /\ blocked' = [blocked EXCEPT ![p] = Blockable(m)]
  /\ asleep' = [asleep EXCEPT ![p] = "WT_SIGNAL"]
  /\ current' = Nobody
  /\ UNCHANGED <<sig_exiting, pending, shared, curr_target, flag, action, frames>>

\* Any call that sleeps and that a signal interrupts.
sleep(p) ==
  /\ current = p /\ at[p] = "user" /\ Move(p, "call")
  /\ asleep' = [asleep EXCEPT ![p] = "WT_INTERRUPTED"]
  /\ current' = Nobody
  /\ UNCHANGED <<sig_exiting, sigs>>

\* do_exit, and __do_exit alone: the thread's signals are freed.
Gone(p, others) ==
  /\ Move(p, "gone")
  /\ sig_exiting' = sig_exiting \cup others
  /\ asleep' = [q \in Thread |-> IF q \in others \ sig_exiting THEN "no" ELSE asleep[q]]
  /\ pending' = [pending EXCEPT ![p] = {}]
  /\ shared' = [shared EXCEPT ![p] = {}]
  /\ flag' = [flag EXCEPT ![p] = FALSE]
  /\ curr_target' = [curr_target EXCEPT ![p] = Nobody]
  /\ frames' = [frames EXCEPT ![p] = <<>>]
  /\ saved' = [saved EXCEPT ![p] = NoMask]
  /\ blocked' = [blocked EXCEPT ![p] = {}]
  /\ current' = Nobody
  /\ UNCHANGED action

exit(p) == current = p /\ at[p] = "user" /\ Gone(p, Alive \ {p})

-----------------------------------------------------------------------------
(* Delivery.                                                               *)

\* What do_signal does about a signal it takes from the queue.
Effect(s) ==
  IF s = SIGKILL THEN "exit"
  ELSE IF s = SIGSTOP THEN "stop"
  ELSE IF \/ ignore_sig(s)
          \/ action[s].sa_handler = "SIG_DFL" /\ s \in TtyStops THEN "none"
  ELSE IF action[s].sa_handler = "SIG_DFL" THEN "exit" ELSE "handler"

\* Fault: the handler returns to the mask of do_sigsuspend.
OldIsCurrent(p) == blocked[p]
Old(p) == IF saved[p] = NoMask THEN blocked[p] ELSE saved[p]

\* dequeue_signal looks at the numbers below 64 only.
Seen(set) == {s \in set : s < 64}

(* The loop of do_signal up to the first signal that is not dropped:       *)
(* private ones before shared ones, each in the order of their numbers.    *)
Loop(p) ==
  LET q == {<<0, s>> : s \in Seen(pending[p] \ blocked[p])}
             \cup {<<1, s>> : s \in Seen(shared[p] \ blocked[p])}
      Before(x, y) == x[1] < y[1] \/ (x[1] = y[1] /\ x[2] <= y[2])
      real == {x \in q : Effect(x[2]) # "none"}
      first == CHOOSE x \in real : \A y \in real : Before(x, y)
      taken == IF real = {} THEN q ELSE {x \in q : Before(x, first)}
      pend == pending[p] \ {x[2] : x \in {y \in taken : y[1] = 0}}
      shar == shared[p] \ {x[2] : x \in {y \in taken : y[1] = 1}}
      act == action[first[2]]
      Dequeue == /\ pending' = [pending EXCEPT ![p] = pend]
                 /\ shared' = [shared EXCEPT ![p] = shar]
      Flagged(mask) == flag' = [flag EXCEPT ![p] = IF q = {} THEN @
                                                   ELSE Recalc(p, pend \cup shar, mask)]
      \* do_sigsuspend goes to sleep again, trap() returns to user mode.
      Nothing == IF saved[p] = NoMask
                 THEN Move(p, "user") /\ UNCHANGED <<asleep, current>>
                 ELSE /\ Move(p, "suspend") /\ current' = Nobody
                      /\ asleep' = [asleep EXCEPT ![p] = "WT_SIGNAL"]
      Back == /\ Move(p, IF saved[p] = NoMask THEN "user" ELSE "trap")
              /\ saved' = [saved EXCEPT ![p] = NoMask]
              /\ action' = IF act.oneshot THEN [action EXCEPT ![first[2]].sa_handler = "SIG_DFL"]
                           ELSE action
              /\ UNCHANGED <<asleep, current>>
      mask == IF act.nodefer THEN blocked[p] ELSE blocked[p] \cup act.sa_mask \cup {first[2]}
      Stopped == Alive \ sig_exiting
  IN \/ /\ real = {} /\ Dequeue /\ Flagged(blocked[p]) /\ Nothing
        /\ UNCHANGED <<sig_exiting, curr_target, blocked, action, frames, saved>>
     \/ /\ real # {} /\ Effect(first[2]) = "exit"
        /\ Gone(p, Alive \ {p})
     \/ /\ real # {} /\ Effect(first[2]) = "stop"   \* do_signal_stop
        /\ Dequeue /\ Flagged(blocked[p]) /\ Move(p, "stop")
        /\ asleep' = [r \in Thread |-> IF r \in Stopped THEN "WT_SIGNAL" ELSE asleep[r]]
        /\ current' = Nobody
        /\ UNCHANGED <<sig_exiting, curr_target, blocked, action, frames, saved>>
     \/ /\ real # {} /\ Effect(first[2]) = "handler"
        /\ Dequeue /\ Back
        /\ \/ /\ Len(frames[p]) < MaxFrames
              /\ frames' = [frames EXCEPT ![p] = <<Old(p)>> \o @]
              /\ blocked' = [blocked EXCEPT ![p] = mask]
              /\ Flagged(mask)
           \/ /\ Flagged(blocked[p])          \* no room for the frame
              /\ UNCHANGED <<blocked, frames>>
        /\ UNCHANGED <<sig_exiting, curr_target>>

\* An interrupt or another call in user mode.
interrupt(p) == SigCall(p) /\ UNCHANGED <<asleep, sig_exiting, sigs>>

\* The end of trap(): may_killed, and perhaps schedule().
trap_may_killed(p) ==
  /\ current = p /\ at[p] = "trap"
  /\ \/ p \in sig_exiting /\ Gone(p, {})
     \/ /\ p \notin sig_exiting
        /\ Move(p, "signal")
        /\ current' \in {p, Nobody}
        /\ UNCHANGED <<asleep, sig_exiting, sigs>>

\* do_signal at the end of trap() and in do_sigsuspend.
do_signal(p) ==
  /\ current = p /\ at[p] \in {"signal", "suspend"}
  /\ \/ flag[p] /\ Loop(p)
     \/ /\ ~flag[p]
        /\ IF at[p] = "signal" THEN Move(p, "user") /\ UNCHANGED <<asleep, current>>
           ELSE /\ asleep' = [asleep EXCEPT ![p] = "WT_SIGNAL"] /\ current' = Nobody
                /\ UNCHANGED at
        /\ UNCHANGED <<sig_exiting, sigs>>

\* After do_signal_stop the loop of do_signal goes on.
continued(p) == current = p /\ at[p] = "stop" /\ Loop(p)

\* A sleep is over and the call returns.
return(p) == /\ current = p /\ at[p] = "call" /\ Move(p, "trap")
             /\ UNCHANGED <<current, asleep, sig_exiting, sigs>>

-----------------------------------------------------------------------------
(* The scheduler, and what others do.                                      *)

schedule(p) == /\ current = Nobody /\ asleep[p] = "no" /\ at[p] # "gone"
               /\ current' = p
               /\ UNCHANGED <<at, asleep, sig_exiting, sigs>>
schedule_other == /\ current = Nobody /\ current' = Outside
                  /\ UNCHANGED <<at, asleep, sig_exiting, sigs>>
other_yields == /\ current = Outside /\ current' = Nobody
                /\ UNCHANGED <<at, asleep, sig_exiting, sigs>>
other_kills(q, s) == current = Outside /\ Send(s, q) /\ UNCHANGED <<current, at>>
other_wakes(q) == /\ current = Outside /\ asleep[q] = "WT_INTERRUPTED"
                  /\ asleep' = [asleep EXCEPT ![q] = "no"]
                  /\ UNCHANGED <<current, at, sig_exiting, sigs>>

Counted == calls < MaxCalls /\ calls' = calls + 1

\* What the kernel does for a thread, and what programs ask of it.
SigKernel(p) == /\ trap_may_killed(p) \/ do_signal(p) \/ continued(p) \/ return(p)
                /\ UNCHANGED calls
Interrupt(p) == interrupt(p) /\ UNCHANGED calls
Preempt(p) == trap_may_killed(p) /\ current' = Nobody /\ UNCHANGED calls
Schedule(p) == schedule(p) /\ UNCHANGED calls
Yield == other_yields /\ UNCHANGED calls
Calls(p) ==
  \/ sleep(p) \/ exit(p)
  \/ \E m \in Masks : do_sigprocmask(p, m) \/ do_sigsuspend(p, m)
  \/ \E s \in Signals : \/ \E q \in Thread : kill(p, q, s)
                        \/ other_kills(p, s)
                        \/ \E a \in Actions : do_sigaction(p, s, a)

SigNext ==
  \/ \E p \in Thread : \/ SigKernel(p) \/ Interrupt(p) \/ Schedule(p)
                       \/ (other_wakes(p) \/ do_sigreturn(p)) /\ UNCHANGED calls
                       \/ Calls(p) /\ Counted
  \/ Yield
  \/ schedule_other /\ UNCHANGED calls

SigSpec == SigInit /\ [][SigNext]_sig_vars

(* The CPU executes: kernel code runs and the timer interrupts user code.  *)
(* The code that runs is preempted again and again, and the scheduler      *)
(* gives the CPU to every thread that stays runnable.                      *)
Running == Yield \/ \E p \in Thread : SigKernel(p) \/ Interrupt(p)
Preempted == \E p \in Thread : Preempt(p)
Fairness == /\ WF_sig_vars(Running) /\ SF_sig_vars(Preempted)
            /\ \A p \in Thread : SF_sig_vars(Schedule(p))

-----------------------------------------------------------------------------
(* A signal that was sent to a thread itself, and that it does not block,  *)
(* is announced by TIF_SIGPENDING, without which do_signal does not look   *)
(* at the queues.  Only do_sigsuspend and do_sigwaitinfo change the mask   *)
(* without a look at what is pending.                                      *)
FlagKept == \A p \in Thread : saved[p] = NoMask /\ pending[p] \ blocked[p] # {} => flag[p]

(* A signal that is sent to a thread itself and not blocked reaches it: it *)
(* leaves the queue, is blocked, or the thread is stopped (or waits for a  *)
(* signal with a new mask).                                                *)
SignalTaken ==
  \A p \in Thread, s \in Signals :
    (s \in pending[p] \ blocked[p] /\ saved[p] = NoMask)
      ~> (s \notin pending[p] \/ s \in blocked[p] \/ asleep[p] = "WT_SIGNAL")
=============================================================================
