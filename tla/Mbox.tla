-------------------------------- MODULE Mbox --------------------------------
(***************************************************************************)
(* A mailbox (sync/mbox.c): senders wait for a free slot, receivers for a  *)
(* message; the mailbox is freed by the last process in it and its memory  *)
(* and id are used again.  A receiver sleeps in lock_mm between taking a   *)
(* message and copying it out; if the copy fails it puts the message back. *)
(* Of a timer we keep whether it is in the timer list and whether its      *)
(* expires field is zero, which is what add_timer asserts about.           *)
(***************************************************************************)
EXTENDS List, Processes

CONSTANTS
  MaxSlots,   \* max_slots of the mailbox
  CopyFails   \* whether copying a message out can fail

\* What the model needs of the constants.
MboxConstants == /\ IsFiniteSet(Proc)
                 /\ MaxSlots \in Nat \ {0} /\ CopyFails \in BOOLEAN

VARIABLES
  state, slots, inuse, msgs, senders, receivers,  \* fields of the mailbox
  op,               \* "none", "send", "recv" (inside), or "copy" (out of a message)
  arg,              \* the size of the message or of the buffer in hand
  mb_asleep,        \* the processes that wait in one of the queues
  mb_wakeup_flags,  \* "wanted" (WT_MBOX_SEND, WT_MBOX_RECV) or "WT_INTERRUPTED"
  expires,          \* "none" (call without timeout), "positive" or "zero"
  mb_armed,         \* the processes with a timer in the timer list
  mb_panic

mb_vars == <<state, slots, inuse, msgs, senders, receivers, op, arg, mb_asleep,
             mb_wakeup_flags, expires, mb_armed, mb_panic>>

Size == {"small", "big"}

MboxInit ==
  /\ state = "CLOSED" /\ slots = 0 /\ inuse = 0
  /\ msgs = <<>> /\ senders = <<>> /\ receivers = <<>>
  /\ op = [p \in Proc |-> "none"]
  /\ arg = [p \in Proc |-> "small"]
  /\ mb_asleep = {}
  /\ mb_wakeup_flags = [p \in Proc |-> "WT_INTERRUPTED"]
  /\ expires = [p \in Proc |-> "none"]
  /\ mb_armed = {}
  /\ mb_panic = FALSE

\* ipc_mbox_init, new_mbox.
ipc_mbox_init ==
  /\ state = "CLOSED"
  /\ state' = "OPENED"
  /\ UNCHANGED <<slots, inuse, msgs, senders, receivers, op, arg, mb_asleep,
                 mb_wakeup_flags, expires, mb_armed, mb_panic>>

-----------------------------------------------------------------------------
(* Wakeups and timers.                                                     *)

\* wakeup_first wakes the first process of the queue, if there is one, and
\* takes it out.
First(queue) == IF queue = <<>> THEN {} ELSE {Head(queue)}

Rest(queue) == IF queue = <<>> THEN <<>> ELSE Tail(queue)

wakeup_wait(S, flags) ==
  /\ mb_asleep' = mb_asleep \ S
  /\ mb_wakeup_flags' = [q \in Proc |-> IF q \in S THEN flags ELSE mb_wakeup_flags[q]]

\* p goes to sleep with a timer whose expires field is e: wait_current_set
\* and ipc_add_timer, which asserts that the timer has not run out.
Sleep(p, e) ==
  /\ mb_asleep' = mb_asleep \cup {p}
  /\ mb_wakeup_flags' = [mb_wakeup_flags EXCEPT ![p] = "WT_INTERRUPTED"]
  /\ mb_armed' = IF e = "none" THEN mb_armed ELSE mb_armed \cup {p}
  /\ expires' = [expires EXCEPT ![p] = e]
  /\ mb_panic' = (e = "zero")

\* The expires field after ipc_del_timer.  That of a timer in the list is
\* relative to the timer before it.
AfterDel(p) == CASE expires[p] = "none" -> {"none"}
                 [] expires[p] # "none" /\ p \in mb_armed -> {"positive", "zero"}
                 [] OTHER -> {"zero"}

\* The call goes on as what: "none" if it is over.
Leave(p, what) == /\ op' = [op EXCEPT ![p] = what]
                  /\ expires' = [expires EXCEPT ![p] = "none"]
                  /\ mb_armed' = mb_armed \ {p}

\* The use count when a process leaves the mailbox.
Leaving(use) == use - 1

-----------------------------------------------------------------------------
(* The loops of send_msg and recv_msg, entered with the timer field e and  *)
(* with inuse = use; the queue has been left.                              *)

\* add_msg: the messages are now list.
add_msg(list) ==
  /\ msgs' = list
  /\ slots' = slots + 1
  /\ wakeup_wait(First(receivers), "wanted")

\* Fault: one message too many is let in.
IsFullOff(n) == n > MaxSlots

\* The loop condition of send_msg.
IsFull(n) == n >= MaxSlots

SendLoop(p, size, e, use) ==
  \/ /\ IsFull(slots)
     /\ Sleep(p, e)
     /\ senders' = Append(Without(senders, p), p)
     /\ op' = [op EXCEPT ![p] = "send"]
     /\ arg' = [arg EXCEPT ![p] = size]
     /\ inuse' = use
     /\ UNCHANGED <<state, slots, msgs, receivers>>
  \/ /\ ~IsFull(slots)
     /\ add_msg(Append(msgs, size))
     /\ receivers' = Rest(receivers)
     /\ senders' = Without(senders, p)
     /\ inuse' = Leaving(use)
     /\ Leave(p, "none")
     /\ UNCHANGED <<state, arg, mb_panic>>

\* Fault: the wakeup is not passed on.
PassOnNone(queue) == {}

\* A receiver for whom the message is too big wakes the next one.
PassOn(queue) == First(queue)

RecvLoop(p, size, e, use) ==
  \/ /\ slots = 0
     /\ Sleep(p, e)
     /\ receivers' = Append(Without(receivers, p), p)
     /\ op' = [op EXCEPT ![p] = "recv"]
     /\ arg' = [arg EXCEPT ![p] = size]
     /\ inuse' = use
     /\ UNCHANGED <<state, slots, msgs, senders>>
  \/ /\ slots > 0 /\ ~(size = "small" /\ Head(msgs) = "big")
     /\ slots' = slots - 1
     /\ msgs' = Tail(msgs)
     /\ wakeup_wait(First(senders), "wanted")
     /\ senders' = Rest(senders)
     /\ receivers' = Without(receivers, p)
     /\ inuse' = Leaving(use)
     /\ Leave(p, "copy")
     /\ arg' = [arg EXCEPT ![p] = Head(msgs)]
     /\ UNCHANGED <<state, mb_panic>>
  \/ /\ slots > 0 /\ size = "small" /\ Head(msgs) = "big"
     /\ LET queue == Without(receivers, p) IN
        /\ wakeup_wait(PassOn(queue), "wanted")
        /\ receivers' = IF PassOn(queue) = {} THEN queue ELSE Rest(queue)
     /\ inuse' = Leaving(use)
     /\ Leave(p, "none")
     /\ UNCHANGED <<state, slots, msgs, senders, arg, mb_panic>>

ipc_mbox_send(p, size, e) ==
  /\ op[p] = "none" /\ state = "OPENED"
  /\ SendLoop(p, size, e, inuse + 1)

ipc_mbox_recv(p, size, e) ==
  /\ op[p] = "none" /\ state = "OPENED"
  /\ RecvLoop(p, size, e, inuse + 1)

Awake(p) == op[p] \in {"send", "recv"} /\ p \notin mb_asleep

\* Back from schedule(): the loop goes on if the process was wanted ...
go_on(p) ==
  /\ Awake(p) /\ state = "OPENED" /\ mb_wakeup_flags[p] = "wanted"
  /\ \E e \in AfterDel(p) : \/ op[p] = "send" /\ SendLoop(p, arg[p], e, inuse)
                            \/ op[p] = "recv" /\ RecvLoop(p, arg[p], e, inuse)

\* The process that leaves is the last one in the mailbox.
IsLast(left) == left = 0

\* ... or ends; the last one in a mailbox that is closing frees it (mbox_free).
give_up(p) ==
  /\ Awake(p) /\ (state # "OPENED" \/ mb_wakeup_flags[p] # "wanted")
  /\ inuse' = Leaving(inuse)
  /\ IF state # "OPENED" /\ IsLast(inuse')
     THEN state' = "CLOSED" /\ slots' = 0 ELSE UNCHANGED <<state, slots>>
  /\ senders' = Without(senders, p)
  /\ receivers' = Without(receivers, p)
  /\ Leave(p, "none")
  /\ UNCHANGED <<msgs, arg, mb_asleep, mb_wakeup_flags, mb_panic>>

\* The message is copied out and freed ...
copy_done(p) ==
  /\ op[p] = "copy"
  /\ Leave(p, "none")
  /\ UNCHANGED <<state, slots, inuse, msgs, senders, receivers, arg, mb_asleep,
                 mb_wakeup_flags, mb_panic>>

\* ... or goes back to the front of a mailbox of the same id.
copy_fails(p) ==
  /\ CopyFails /\ op[p] = "copy" /\ state = "OPENED"
  /\ add_msg(<<arg[p]>> \o msgs)
  /\ receivers' = Rest(receivers)
  /\ Leave(p, "none")
  /\ UNCHANGED <<state, inuse, senders, arg, mb_panic>>

\* Both queues are woken.
FreeWakes == Range(senders) \cup Range(receivers)

\* ipc_mbox_free: the messages are freed and everybody is woken.
ipc_mbox_free ==
  /\ state = "OPENED"
  /\ wakeup_wait(FreeWakes, "WT_INTERRUPTED")
  /\ msgs' = <<>> /\ senders' = <<>> /\ receivers' = <<>>
  /\ IF IsLast(inuse) THEN state' = "CLOSED" /\ slots' = 0
                      ELSE state' = "CLOSING" /\ UNCHANGED slots
  /\ UNCHANGED <<inuse, op, arg, expires, mb_armed, mb_panic>>

\* The timer of p, a kill or a signal wakes p, which stays in its queue.
MboxTimeout(p) ==
  /\ p \in mb_armed
  /\ mb_armed' = mb_armed \ {p}
  /\ expires' = [expires EXCEPT ![p] = "zero"]
  /\ mb_asleep' = mb_asleep \ {p}
  /\ UNCHANGED <<state, slots, inuse, msgs, senders, receivers, op, arg,
                 mb_wakeup_flags, mb_panic>>

MboxInterrupt(p) ==
  /\ p \in mb_asleep
  /\ mb_asleep' = mb_asleep \ {p}
  /\ UNCHANGED <<state, slots, inuse, msgs, senders, receivers, op, arg,
                 mb_wakeup_flags, expires, mb_armed, mb_panic>>

Call(p) ==
  \/ \E size \in Size, e \in {"none", "positive"} :
       ipc_mbox_send(p, size, e) \/ ipc_mbox_recv(p, size, e)
  \/ op[p] = "none" /\ ipc_mbox_free

MboxResume(p) == go_on(p) \/ give_up(p) \/ copy_done(p) \/ copy_fails(p)

MboxNext == /\ ~mb_panic
            /\ \/ ipc_mbox_init
               \/ \E p \in Proc : \/ Call(p) \/ MboxResume(p)
                                  \/ MboxTimeout(p) \/ MboxInterrupt(p)

MboxSpec == MboxInit /\ [][MboxNext]_mb_vars

\* A process that was woken runs, and the timer interrupt keeps coming.
FairMboxSpec ==
  MboxSpec /\ \A p \in Proc : /\ WF_mb_vars(~mb_panic /\ MboxResume(p))
                             /\ WF_mb_vars(~mb_panic /\ MboxTimeout(p))

-----------------------------------------------------------------------------
MboxTypeOK ==
  /\ state \in {"CLOSED", "OPENED", "CLOSING"}
  /\ slots \in Nat /\ inuse \in 0..Cardinality(Proc)
  /\ msgs \in Seq(Size) /\ senders \in Seq(Proc) /\ receivers \in Seq(Proc)
  /\ op \in [Proc -> {"none", "send", "recv", "copy"}]
  /\ arg \in [Proc -> Size]
  /\ mb_asleep \subseteq Proc /\ mb_armed \subseteq Proc
  /\ mb_wakeup_flags \in [Proc -> {"wanted", "WT_INTERRUPTED"}]
  /\ expires \in [Proc -> {"none", "positive", "zero"}]
  /\ mb_panic \in BOOLEAN

(* No wakeup is lost.  While there is a message, a receiver sleeps only if *)
(* another one has been woken and has not run yet; while there is room, a  *)
(* sender sleeps only if another one has been woken.  One wakeup goes out  *)
(* per message, and it may reach a process whose timer has run out, that   *)
(* finds the message taken, or whose buffer is too small.                  *)
NoWakeupLost ==
  ~mb_panic /\ state = "OPENED" =>
    /\ slots > 0 /\ (\E p \in mb_asleep : op[p] = "recv") =>
         \E q \in Proc : Awake(q) /\ op[q] = "recv" /\ mb_wakeup_flags[q] = "wanted"
    /\ slots < MaxSlots /\ (\E p \in mb_asleep : op[p] = "send") =>
         \E q \in Proc : Awake(q) /\ op[q] = "send" /\ mb_wakeup_flags[q] = "wanted"

(* A mailbox is freed when nobody is inside: the use count is exact, and a *)
(* mailbox that is closed is empty and without waiters (what mbox_free     *)
(* asserts), so that nobody finds itself in the next mailbox of this id.   *)
FreedEmpty ==
  ~mb_panic =>
    /\ inuse = Cardinality({p \in Proc : op[p] \in {"send", "recv"}})
    /\ state # "OPENED" => msgs = <<>> /\ senders = <<>> /\ receivers = <<>> /\ mb_asleep = {}
    /\ state = "CLOSED" => inuse = 0 /\ slots = 0
    /\ state = "OPENED" => slots = Len(msgs)

\* No wakeup is lost, the mailbox is freed empty, and its fields keep their
\* types.
MailboxExact == NoWakeupLost /\ FreedEmpty /\ MboxTypeOK

\* Senders never fill more than max_slots of the mailbox, however they meet, as
\* long as every message can be copied out (CopyFails).
SlotsBounded == slots <= MaxSlots

(* The assertion of add_timer: a timer that is put in the list has time to *)
(* run.  The loops put the timer of the call in again after a wakeup that  *)
(* led to nothing.                                                         *)
TimerHasTime == ~mb_panic

\* Freeing the mailbox ends all the calls on it.
FreeEndsCalls ==
  (state = "CLOSING") ~> (state = "CLOSED" \/ mb_panic)
=============================================================================
