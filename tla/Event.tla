------------------------------- MODULE Event --------------------------------
(***************************************************************************)
(* Events (sync/event.c).  A sender waits in the event box of the receiver *)
(* until the receiver takes its event, its timer runs out, it is           *)
(* interrupted or the receiver exits.  A receiver that finds its box empty *)
(* sleeps until a sender wakes it; it looks in the box only once more.     *)
(* The structure of a process that has exited is used again by fork.       *)
(***************************************************************************)
EXTENDS List, Processes

VARIABLES
  alive,            \* the processes that are no zombies
  ev_wait_queue,    \* event_box.wait_queue of each process
  call,             \* "none", "send", "recv", or "copy" (an event is copied out)
  target,           \* the process a sender sends to
  ev_asleep,
  ev_wakeup_flags,  \* of the sender: "WT_EVENT_SEND" or "WT_INTERRUPTED"
  ev_armed,         \* the processes with a timer in the timer list
  taken             \* history: how often the event of the sender was received

ev_vars == <<alive, ev_wait_queue, call, target, ev_asleep,
             ev_wakeup_flags, ev_armed, taken>>

EventInit ==
  /\ alive = Proc
  /\ ev_wait_queue = [p \in Proc |-> <<>>]
  /\ call = [p \in Proc |-> "none"]
  /\ target = [p \in Proc |-> None]
  /\ ev_asleep = {} /\ ev_armed = {}
  /\ ev_wakeup_flags = [p \in Proc |-> "WT_INTERRUPTED"]
  /\ taken = [p \in Proc |-> 0]

\* ipc_event_send wakes a receiver that waits for an event.
RecvWoken(q) == IF q \in ev_asleep /\ call[q] = "recv" THEN {q} ELSE {}

\* ipc_event_send up to schedule(), with or without a timeout.
ipc_event_send(p, q, timed) ==
  /\ p \in alive /\ call[p] = "none"
  /\ q \in alive \ {p}
  /\ ev_asleep' = (ev_asleep \ RecvWoken(q)) \cup {p}
  /\ ev_wait_queue' = [ev_wait_queue EXCEPT ![q] = Append(@, p)]
  /\ call' = [call EXCEPT ![p] = "send"]
  /\ target' = [target EXCEPT ![p] = q]
  /\ ev_wakeup_flags' = [ev_wakeup_flags EXCEPT ![p] = "WT_INTERRUPTED"]
  /\ ev_armed' = IF timed THEN ev_armed \cup {p} ELSE ev_armed
  /\ taken' = [taken EXCEPT ![p] = 0]
  /\ UNCHANGED alive

\* send_event after schedule(): the sender leaves the box it was in.
send_event(p) ==
  /\ call[p] = "send" /\ p \notin ev_asleep
  /\ ev_armed' = ev_armed \ {p}
  /\ ev_wait_queue' = [ev_wait_queue EXCEPT ![target[p]] = Without(@, p)]
  /\ call' = [call EXCEPT ![p] = "none"]
  /\ target' = [target EXCEPT ![p] = None]
  /\ UNCHANGED <<alive, ev_asleep, ev_wakeup_flags, taken>>

\* Fault: the sender that is answered stays in the box.
AnsweredStays(box) == box

\* wakeup_wait takes the sender out of the box.
Answered(box) == Tail(box)

\* The second half of recv_event: the first event, if there is one, is taken
\* and its sender is woken.
TakeEvent(p) ==
  /\ ev_armed' = ev_armed \ {p}
  /\ IF ev_wait_queue[p] = <<>>
     THEN /\ call' = [call EXCEPT ![p] = "none"]
          /\ UNCHANGED <<ev_wait_queue, ev_asleep, ev_wakeup_flags, taken>>
     ELSE LET s == Head(ev_wait_queue[p]) IN
          /\ call' = [call EXCEPT ![p] = "copy"]
          /\ taken' = [taken EXCEPT ![s] = @ + 1]
          /\ ev_wait_queue' = [ev_wait_queue EXCEPT ![p] = Answered(@)]
          /\ ev_asleep' = ev_asleep \ {s}
          /\ ev_wakeup_flags' = [ev_wakeup_flags EXCEPT ![s] = "WT_EVENT_SEND"]
  /\ UNCHANGED <<alive, target>>

ipc_event_recv(p, timed) ==
  /\ p \in alive /\ call[p] = "none"
  /\ \/ ev_wait_queue[p] # <<>> /\ TakeEvent(p)
     \/ /\ ev_wait_queue[p] = <<>>
        /\ ev_asleep' = ev_asleep \cup {p}
        /\ call' = [call EXCEPT ![p] = "recv"]
        /\ ev_armed' = IF timed THEN ev_armed \cup {p} ELSE ev_armed
        /\ UNCHANGED <<alive, ev_wait_queue, target, ev_wakeup_flags, taken>>

recv_event(p) == call[p] = "recv" /\ p \notin ev_asleep /\ TakeEvent(p)

\* The event is copied out under lock_mm.
copy_event(p) ==
  /\ call[p] = "copy"
  /\ call' = [call EXCEPT ![p] = "none"]
  /\ UNCHANGED <<alive, ev_wait_queue, target, ev_asleep, ev_wakeup_flags, ev_armed, taken>>

EventTimeout(p) ==
  /\ p \in ev_armed
  /\ ev_armed' = ev_armed \ {p}
  /\ ev_asleep' = ev_asleep \ {p}
  /\ UNCHANGED <<alive, ev_wait_queue, call, target, ev_wakeup_flags, taken>>

\* A kill or a signal wakes a process; both waits can be interrupted.
EventInterrupt(p) ==
  /\ p \in ev_asleep
  /\ ev_asleep' = ev_asleep \ {p}
  /\ UNCHANGED <<alive, ev_wait_queue, call, target, ev_wakeup_flags, ev_armed, taken>>

\* wakeup_queue wakes them all.
ExitWakes(box) == Range(box)

\* Events in __do_exit: the senders are woken and leave the box.
exit_event_box(p) ==
  /\ p \in alive /\ call[p] = "none"
  /\ alive' = alive \ {p}
  /\ ev_asleep' = ev_asleep \ ExitWakes(ev_wait_queue[p])
  /\ ev_wakeup_flags' = [q \in Proc |-> IF q \in ExitWakes(ev_wait_queue[p])
                                     THEN "WT_INTERRUPTED" ELSE ev_wakeup_flags[q]]
  /\ ev_wait_queue' = [ev_wait_queue EXCEPT ![p] = <<>>]
  /\ UNCHANGED <<call, target, ev_armed, taken>>

\* The structure of a process that was waited for is used for a new one.
do_fork(p) ==
  /\ p \notin alive
  /\ alive' = alive \cup {p}
  /\ ev_wait_queue' = [ev_wait_queue EXCEPT ![p] = <<>>]
  /\ UNCHANGED <<call, target, ev_asleep, ev_wakeup_flags, ev_armed, taken>>

EventResume(p) == send_event(p) \/ recv_event(p) \/ copy_event(p)

EventNext == \E p \in Proc :
  \/ \E q \in Proc, timed \in BOOLEAN : ipc_event_send(p, q, timed)
  \/ \E timed \in BOOLEAN : ipc_event_recv(p, timed)
  \/ EventResume(p) \/ EventTimeout(p) \/ EventInterrupt(p)
  \/ exit_event_box(p) \/ do_fork(p)

EventSpec == EventInit /\ [][EventNext]_ev_vars

\* A process that was woken runs, and the timer interrupt keeps coming.
FairEventSpec ==
  EventSpec /\ \A p \in Proc : WF_ev_vars(EventResume(p)) /\ WF_ev_vars(EventTimeout(p))

-----------------------------------------------------------------------------
EventTypeOK ==
  /\ alive \subseteq Proc /\ ev_asleep \subseteq Proc /\ ev_armed \subseteq Proc
  /\ ev_wait_queue \in [Proc -> Seq(Proc)]
  /\ call \in [Proc -> {"none", "send", "recv", "copy"}]
  /\ target \in [Proc -> Proc \cup {None}]
  /\ ev_wakeup_flags \in [Proc -> {"WT_EVENT_SEND", "WT_INTERRUPTED"}]
  /\ taken \in [Proc -> 0..1]

(* Nobody sleeps in vain: a receiver sleeps only while no sender waits in  *)
(* its box, and a sender sleeps only in the box of a process that lives,   *)
(* also when boxes are abandoned by exit and used again by fork.           *)
NoEventMissed ==
  \A p \in ev_asleep :
    /\ call[p] = "recv" => ev_wait_queue[p] = <<>>
    /\ call[p] = "send" => target[p] \in alive /\ p \in Range(ev_wait_queue[target[p]])

(* A sender is told that its event was received if and only if it was,     *)
(* exactly once: also when its timer runs out, it is interrupted or the    *)
(* receiver exits between the answer and its return.                       *)
AnswerIsTrue ==
  \A p \in Proc : call[p] = "send" =>
    taken[p] = IF ev_wakeup_flags[p] = "WT_EVENT_SEND" THEN 1 ELSE 0

\* Nobody sleeps in vain, senders are told the truth, and the fields keep
\* their types.
EventsExact == NoEventMissed /\ AnswerIsTrue /\ EventTypeOK

(* A send ends when the receiver has exited, and a call with a timer ends. *)
EventCallsEnd ==
  \A p \in Proc :
    /\ \A q \in Proc : (call[p] = "send" /\ target[p] = q /\ q \notin alive)
                         ~> (call[p] = "none")
    /\ (p \in ev_armed) ~> (call[p] = "none")
=============================================================================
