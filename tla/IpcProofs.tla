----------------------------- MODULE IpcProofs -----------------------------
(***************************************************************************)
(* Proofs about the waits of user programs for each other: mailboxes       *)
(* (Mbox; sync/mbox.c), for any processes and any number of slots, and     *)
(* user semaphores (USem; sync/sem.c), for any processes, semaphores and   *)
(* tables.                                                                 *)
(***************************************************************************)
EXTENDS Mbox, USem, QueueLemmas

USE ZenonT(30)

-----------------------------------------------------------------------------
(* Mailboxes: no sender sleeps beside a free slot and no receiver beside a *)
(* message unless another one has been told, the mailbox is freed empty,   *)
(* and it never holds more than max_slots messages unless one is put back. *)
(* Whoever is told leaves the queue, so that who is in the mailbox and in  *)
(* no queue was told of a message or of a slot: the invariant counts them. *)

\* Who is in the mailbox to do what, and whether a message or a free slot was
\* announced to it.
Callers(what) == {p \in Proc : op[p] = what}
Wanted(what) == {p \in Proc : op[p] = what /\ mb_wakeup_flags[p] = "wanted"}
Unwanted(what) == {p \in Proc : op[p] = what /\ mb_wakeup_flags[p] # "wanted"}
InMailbox == {p \in Proc : op[p] \in {"send", "recv"}}

MboxFields ==
  /\ state \in {"CLOSED", "OPENED", "CLOSING"}
  /\ slots \in Nat /\ msgs \in Seq(Size)
  /\ op \in [Proc -> {"none", "send", "recv", "copy"}]
  /\ arg \in [Proc -> Size]
  /\ mb_asleep \subseteq Proc /\ mb_armed \subseteq Proc
  /\ mb_wakeup_flags \in [Proc -> {"wanted", "WT_INTERRUPTED"}]
  /\ expires \in [Proc -> {"none", "positive", "zero"}]
  /\ mb_panic \in BOOLEAN

\* The queues of an open mailbox hold those who were not told anything.
MboxQueues ==
  /\ IsQueueIn(senders, Proc) /\ IsQueueIn(receivers, Proc)
  /\ state = "OPENED" => /\ Range(senders) = Unwanted("send")
                         /\ Range(receivers) = Unwanted("recv")
                         /\ slots = Len(msgs)
  /\ state # "OPENED" => /\ senders = <<>> /\ receivers = <<>> /\ msgs = <<>>
                         /\ mb_asleep = {}
  /\ mb_asleep \subseteq Unwanted("send") \cup Unwanted("recv")

\* The use count.
MboxUsed == /\ inuse = Cardinality(InMailbox)
            /\ state = "CLOSED" => inuse = 0 /\ slots = 0

\* While somebody queues, every message and every free slot was announced.
Announced ==
  /\ receivers # <<>> => Cardinality(Wanted("recv")) >= slots
  /\ senders # <<>> => Cardinality(Wanted("send")) >= MaxSlots - slots

MboxInv == MboxFields /\ MboxQueues /\ MboxUsed /\ Announced

-----------------------------------------------------------------------------
(* What wakeup_first does to a queue.                                      *)
LEMMA FirstAndRest ==
  ASSUME NEW T, NEW q, IsQueueIn(q, T)
  PROVE  /\ First(q) \subseteq Range(q) /\ IsQueueIn(Rest(q), T)
         /\ Range(Rest(q)) = Range(q) \ First(q)
         /\ Rest(q) # <<>> => q # <<>>
         /\ q # <<>> => \E x \in Range(q) : First(q) = {x}
<1>1. CASE q = <<>>
  <2>1. Range(q) = {}
    BY <1>1, NoQueue
  <2> QED BY <1>1, <2>1 DEF First, Rest
<1>2. CASE q # <<>>
  <2>1. /\ Head(q) \in Range(q)
        /\ IsQueueIn(Tail(q), T) /\ Range(Tail(q)) = Range(q) \ {Head(q)}
    BY <1>2, PopQueue
  <2> QED BY <1>2, <2>1 DEF First, Rest
<1> QED BY <1>1, <1>2

(* Counting with one element more or less.                                 *)
LEMMA OneMore ==
  ASSUME NEW S, IsFiniteSet(S), NEW x
  PROVE  /\ IsFiniteSet(S \cup {x}) /\ IsFiniteSet(S \ {x})
         /\ Cardinality(S) \in Nat
         /\ Cardinality(S \cup {x}) \in Nat /\ Cardinality(S \ {x}) \in Nat
         /\ x \notin S => /\ Cardinality(S \cup {x}) = Cardinality(S) + 1
                          /\ Cardinality(S \ {x}) = Cardinality(S)
         /\ x \in S => /\ Cardinality(S \cup {x}) = Cardinality(S)
                       /\ Cardinality(S \ {x}) = Cardinality(S) - 1
<1>1. IsFiniteSet(S \cup {x}) /\ IsFiniteSet(S \ {x})
  BY FS_AddElement, FS_RemoveElement
<1>2. /\ Cardinality(S) \in Nat
      /\ Cardinality(S \cup {x}) \in Nat /\ Cardinality(S \ {x}) \in Nat
  BY <1>1, FS_CardinalityType
<1>3. CASE x \in S
  <2>1. S \cup {x} = S
    BY <1>3
  <2>2. Cardinality(S \ {x}) = Cardinality(S) - 1
    BY <1>3, FS_RemoveElement
  <2> QED BY <1>1, <1>2, <1>3, <2>1, <2>2
<1>4. CASE x \notin S
  <2>1. S \ {x} = S
    BY <1>4
  <2>2. Cardinality(S \cup {x}) = Cardinality(S) + 1
    BY <1>4, FS_AddElement
  <2> QED BY <1>1, <1>2, <1>4, <2>1, <2>2
<1> QED BY <1>3, <1>4

(* The sets of processes are finite.                                       *)
LEMMA MboxFinite ==
  ASSUME MboxConstants
  PROVE  /\ IsFiniteSet(InMailbox)
         /\ \A what : IsFiniteSet(Wanted(what))
<1>1. InMailbox \subseteq Proc /\ \A what : Wanted(what) \subseteq Proc
  BY DEF InMailbox, Wanted
<1> QED BY <1>1, FS_Subset DEF MboxConstants

(* A queue without p does not change when p leaves it.                     *)
LEMMA NotQueued ==
  ASSUME NEW q, NEW p, p \notin Range(q)
  PROVE  Without(q, p) = q
BY DEF Without

(* p ends its loop and F, none of whom is p, are told something: who is    *)
(* where then.                                                             *)
LEMMA LeaversAndWoken ==
  ASSUME MboxFields, NEW p \in Proc, NEW w \in {"none", "copy"}, NEW F \in SUBSET Proc,
         p \notin F, op' = [op EXCEPT ![p] = w],
         \A q \in Proc : mb_wakeup_flags'[q] = IF q \in F THEN "wanted" ELSE mb_wakeup_flags[q]
  PROVE  /\ InMailbox' = InMailbox \ {p}
         /\ \A what \in {"send", "recv"} :
              /\ Wanted(what)' = (Wanted(what) \ {p}) \cup (F \cap Callers(what))
              /\ Unwanted(what)' = (Unwanted(what) \ {p}) \ F
<1>1. op'[p] = w /\ \A q \in Proc \ {p} : op'[q] = op[q]
  BY DEF MboxFields
<1>2. InMailbox' = InMailbox \ {p}
  BY <1>1 DEF InMailbox
<1>3. ASSUME NEW what \in {"send", "recv"}
      PROVE  /\ Wanted(what)' = (Wanted(what) \ {p}) \cup (F \cap Callers(what))
             /\ Unwanted(what)' = (Unwanted(what) \ {p}) \ F
  <2>1. ASSUME NEW q \in Proc
        PROVE  /\ q \in Wanted(what)' <=> q \in (Wanted(what) \ {p}) \cup (F \cap Callers(what))
               /\ q \in Unwanted(what)' <=> q \in (Unwanted(what) \ {p}) \ F
    BY <1>1 DEF Wanted, Unwanted, Callers
  <2> QED BY <2>1 DEF Wanted, Unwanted, Callers
<1> QED BY <1>2, <1>3

(* p goes to sleep in its queue.                                           *)
LEMMA MboxSleepers ==
  ASSUME MboxFields, NEW p \in Proc, NEW w \in {"send", "recv"},
         op[p] \in {"none", w}, op' = [op EXCEPT ![p] = w],
         mb_wakeup_flags' = [mb_wakeup_flags EXCEPT ![p] = "WT_INTERRUPTED"]
  PROVE  /\ InMailbox' = InMailbox \cup {p}
         /\ Unwanted(w)' = Unwanted(w) \cup {p}
         /\ \A what \in {"send", "recv"} \ {w} : /\ Unwanted(what)' = Unwanted(what)
                                                 /\ Wanted(what)' = Wanted(what)
<1>1. /\ op'[p] = w /\ \A q \in Proc \ {p} : op'[q] = op[q]
      /\ mb_wakeup_flags'[p] = "WT_INTERRUPTED"
      /\ \A q \in Proc \ {p} : mb_wakeup_flags'[q] = mb_wakeup_flags[q]
  BY DEF MboxFields
<1>2. InMailbox' = InMailbox \cup {p} /\ Unwanted(w)' = Unwanted(w) \cup {p}
  BY <1>1 DEF InMailbox, Unwanted
<1>3. ASSUME NEW what \in {"send", "recv"} \ {w}
      PROVE  Unwanted(what)' = Unwanted(what) /\ Wanted(what)' = Wanted(what)
  BY <1>1 DEF Unwanted, Wanted
<1> QED BY <1>2, <1>3

(* p may enter or go on in its loop: it is in the mailbox for nothing else *)
(* and in no queue.                                                        *)
MayLoop(p, w) == /\ state = "OPENED" /\ op[p] \in {"none", w}
                 /\ op[p] = w => mb_wakeup_flags[p] = "wanted"

\* Such a process is in no queue and does not sleep.
LEMMA LoopersQueueNot ==
  ASSUME MboxInv, NEW p \in Proc, NEW w \in {"send", "recv"}, MayLoop(p, w)
  PROVE  /\ p \notin Range(senders) /\ p \notin Range(receivers) /\ p \notin mb_asleep
         /\ Without(senders, p) = senders /\ Without(receivers, p) = receivers
<1>1. /\ p \notin Range(senders) /\ p \notin Range(receivers) /\ p \notin mb_asleep
  BY DEF MboxInv, MboxQueues, MayLoop, Unwanted
<1> QED BY <1>1, NotQueued

(* The fields that sleeping and leaving change keep their types.           *)
LEMMA SleepFields ==
  ASSUME MboxFields, NEW p \in Proc, NEW e \in {"none", "positive", "zero"}, Sleep(p, e)
  PROVE  /\ mb_asleep' \subseteq Proc /\ mb_armed' \subseteq Proc
         /\ mb_wakeup_flags' \in [Proc -> {"wanted", "WT_INTERRUPTED"}]
         /\ expires' \in [Proc -> {"none", "positive", "zero"}]
         /\ mb_panic' \in BOOLEAN
BY DEF MboxFields, Sleep

\* The same for the end of a call.
LEMMA LeaveFields ==
  ASSUME MboxFields, NEW p \in Proc, NEW w \in {"none", "copy"}, Leave(p, w)
  PROVE  /\ op' \in [Proc -> {"none", "send", "recv", "copy"}]
         /\ mb_armed' \subseteq Proc
         /\ expires' \in [Proc -> {"none", "positive", "zero"}]
BY DEF MboxFields, Leave

\* wakeup_wait ends the sleep of S and tells S why, and nobody else.
LEMMA WakeFields ==
  ASSUME MboxFields, NEW S \in SUBSET Proc, NEW f \in {"wanted", "WT_INTERRUPTED"},
         wakeup_wait(S, f)
  PROVE  /\ mb_asleep' = mb_asleep \ S
         /\ mb_wakeup_flags' \in [Proc -> {"wanted", "WT_INTERRUPTED"}]
         /\ \A q \in Proc : mb_wakeup_flags'[q] = IF q \in S THEN f ELSE mb_wakeup_flags[q]
BY DEF MboxFields, wakeup_wait

-----------------------------------------------------------------------------
(* The loops.                                                              *)

(* A process sleeps: a sender in a mailbox that is full, a receiver in one *)
(* that is empty.                                                          *)
LEMMA LoopSleeps ==
  ASSUME MboxConstants, MboxInv, NEW p \in Proc, NEW w \in {"send", "recv"}, MayLoop(p, w),
         NEW e \in {"none", "positive", "zero"}, Sleep(p, e),
         op' = [op EXCEPT ![p] = w], NEW size \in Size, arg' = [arg EXCEPT ![p] = size],
         inuse' = Cardinality(InMailbox \cup {p}),
         UNCHANGED <<state, slots, msgs>>,
         \/ /\ w = "send" /\ slots >= MaxSlots
            /\ senders' = Append(senders, p) /\ receivers' = receivers
         \/ /\ w = "recv" /\ slots = 0
            /\ receivers' = Append(receivers, p) /\ senders' = senders
  PROVE  MboxInv'
<1>0. MboxFields /\ MboxQueues /\ MboxUsed /\ Announced /\ state = "OPENED"
  BY DEF MboxInv, MayLoop
<1>1. p \notin Range(senders) /\ p \notin Range(receivers) /\ p \notin mb_asleep
  BY LoopersQueueNot
<1>2. /\ InMailbox' = InMailbox \cup {p} /\ Unwanted(w)' = Unwanted(w) \cup {p}
      /\ \A what \in {"send", "recv"} \ {w} : /\ Unwanted(what)' = Unwanted(what)
                                              /\ Wanted(what)' = Wanted(what)
  BY <1>0, MboxSleepers DEF MayLoop, Sleep
<1>3. MboxFields'
  <2>1. /\ op' \in [Proc -> {"none", "send", "recv", "copy"}] /\ arg' \in [Proc -> Size]
    BY <1>0 DEF MboxFields
  <2> QED BY <1>0, <2>1, SleepFields, SMTT(30) DEF MboxFields
<1>4. /\ mb_asleep' = mb_asleep \cup {p}
      /\ mb_asleep' \subseteq Unwanted("send")' \cup Unwanted("recv")'
  BY <1>0, <1>2 DEF Sleep, MboxQueues
<1>5. MboxUsed'
  BY <1>0, <1>2 DEF MboxUsed
<1>6. IsFiniteSet(Wanted("send")') /\ IsFiniteSet(Wanted("recv")')
  <2>1. Wanted("send")' \subseteq Proc /\ Wanted("recv")' \subseteq Proc
    BY DEF Wanted
  <2> QED BY <2>1, FS_Subset DEF MboxConstants
<1>7. Cardinality(Wanted("send")') \in Nat /\ Cardinality(Wanted("recv")') \in Nat
  BY <1>6, FS_CardinalityType
<1>8. slots \in Nat /\ MaxSlots \in Nat
  BY <1>0 DEF MboxFields, MboxConstants
<1>9. CASE w = "send" /\ slots >= MaxSlots /\ senders' = Append(senders, p) /\ receivers' = receivers
  <2>1. IsQueueIn(senders', Proc) /\ Range(senders') = Range(senders) \cup {p}
    BY <1>0, <1>1, <1>9, AddToQueue, SMTT(30) DEF MboxQueues
  <2>2. MboxQueues'
    BY <1>0, <1>2, <1>4, <1>9, <2>1 DEF MboxQueues
  <2>3. Announced'
    <3>1. Wanted("recv")' = Wanted("recv")
      BY <1>2, <1>9
    <3>2. Cardinality(Wanted("send")') >= MaxSlots - slots'
      BY <1>7, <1>8, <1>9, SMTT(30)
    <3> QED BY <1>0, <1>9, <3>1, <3>2 DEF Announced
  <2> QED BY <1>3, <1>5, <2>2, <2>3 DEF MboxInv
<1>10. CASE w = "recv" /\ slots = 0 /\ receivers' = Append(receivers, p) /\ senders' = senders
  <2>1. IsQueueIn(receivers', Proc) /\ Range(receivers') = Range(receivers) \cup {p}
    BY <1>0, <1>1, <1>10, AddToQueue, SMTT(30) DEF MboxQueues
  <2>2. MboxQueues'
    BY <1>0, <1>2, <1>4, <1>10, <2>1 DEF MboxQueues
  <2>3. Announced'
    <3>1. Wanted("send")' = Wanted("send")
      BY <1>2, <1>10
    <3>2. Cardinality(Wanted("recv")') >= slots'
      BY <1>7, <1>8, <1>10, SMTT(30)
    <3> QED BY <1>0, <1>10, <3>1, <3>2 DEF Announced
  <2> QED BY <1>3, <1>5, <2>2, <2>3 DEF MboxInv
<1> QED BY <1>9, <1>10

(* What announcing costs: the count of those who were told, when one of    *)
(* them leaves ...                                                         *)
LEMMA OneLess ==
  ASSUME NEW W, IsFiniteSet(W), NEW p
  PROVE  /\ Cardinality(W) \in Nat /\ Cardinality(W \ {p}) \in Nat
         /\ Cardinality(W \ {p}) >= Cardinality(W) - 1
<1>1. /\ Cardinality(W) \in Nat /\ Cardinality(W \ {p}) \in Nat
      /\ p \notin W => Cardinality(W \ {p}) = Cardinality(W)
      /\ p \in W => Cardinality(W \ {p}) = Cardinality(W) - 1
  BY OneMore
<1> QED BY <1>1, SMTT(30)

(* ... and when the first of the queue q is told.                          *)
LEMMA Tells ==
  ASSUME NEW W, IsFiniteSet(W), NEW T, NEW q, IsQueueIn(q, T), Range(q) \cap W = {}, q # <<>>
  PROVE  Cardinality(W) \in Nat /\ Cardinality(W \cup First(q)) = Cardinality(W) + 1
<1>1. PICK x \in Range(q) : First(q) = {x}
  BY FirstAndRest
<1>2. x \notin W
  BY <1>1
<1> QED BY <1>1, <1>2, OneMore, SMTT(30)

(* A message comes in, of a sender or back from a receiver, and the first  *)
(* receiver is told.                                                       *)
LEMMA Adds ==
  ASSUME MboxConstants, MboxInv, NEW p \in Proc, state = "OPENED",
         op[p] \in {"none", "send", "copy"}, op[p] = "send" => mb_wakeup_flags[p] = "wanted",
         NEW list \in Seq(Size), Len(list) = slots + 1, add_msg(list),
         receivers' = Rest(receivers), senders' = senders,
         inuse' = Cardinality(InMailbox \ {p}), Leave(p, "none"),
         UNCHANGED <<state, arg, mb_panic>>
  PROVE  MboxInv'
<1>0. MboxFields /\ MboxQueues /\ MboxUsed /\ Announced
  BY DEF MboxInv
<1> DEFINE F == First(receivers)
<1>1. /\ F \subseteq Range(receivers) /\ IsQueueIn(receivers', Proc)
      /\ Range(receivers') = Range(receivers) \ F
      /\ receivers' # <<>> => receivers # <<>>
  BY <1>0, FirstAndRest DEF MboxQueues
<1>2. F \in SUBSET Proc /\ p \notin F /\ F \subseteq Callers("recv")
  BY <1>0, <1>1 DEF MboxQueues, Unwanted, Callers
<1>3. /\ mb_asleep' = mb_asleep \ F
      /\ mb_wakeup_flags' \in [Proc -> {"wanted", "WT_INTERRUPTED"}]
      /\ \A q \in Proc : mb_wakeup_flags'[q] = IF q \in F THEN "wanted" ELSE mb_wakeup_flags[q]
  BY <1>0, <1>2, WakeFields DEF add_msg
<1> HIDE DEF F
<1>4. /\ InMailbox' = InMailbox \ {p}
      /\ \A what \in {"send", "recv"} :
           /\ Wanted(what)' = (Wanted(what) \ {p}) \cup (F \cap Callers(what))
           /\ Unwanted(what)' = (Unwanted(what) \ {p}) \ F
  BY <1>0, <1>2, <1>3, LeaversAndWoken DEF Leave
<1>5. /\ F \cap Callers("send") = {} /\ F \cap Callers("recv") = F
      /\ p \notin Unwanted("send") /\ p \notin Unwanted("recv") /\ p \notin Wanted("recv")
      /\ F \cap Unwanted("send") = {} /\ p \notin mb_asleep
  BY <1>0, <1>2 DEF Callers, Unwanted, Wanted, MboxQueues
<1>6. MboxFields'
  <2>1. slots' \in Nat /\ msgs' \in Seq(Size)
    BY <1>0, SMTT(30) DEF add_msg, MboxFields
  <2> QED BY <1>0, <1>3, <2>1, LeaveFields DEF MboxFields
<1>7. /\ Unwanted("send")' = Unwanted("send") /\ Unwanted("recv")' = Unwanted("recv") \ F
      /\ Wanted("send")' = Wanted("send") \ {p} /\ Wanted("recv")' = Wanted("recv") \cup F
  BY <1>4, <1>5
<1>8. MboxQueues'
  <2>1. slots' = Len(msgs')
    BY DEF add_msg
  <2>2. mb_asleep' \subseteq Unwanted("send")' \cup Unwanted("recv")'
    BY <1>0, <1>3, <1>7 DEF MboxQueues
  <2>3. Range(senders') = Unwanted("send")' /\ Range(receivers') = Unwanted("recv")'
    BY <1>0, <1>1, <1>7 DEF MboxQueues
  <2> QED BY <1>0, <1>1, <2>1, <2>2, <2>3 DEF MboxQueues
<1>9. MboxUsed'
  BY <1>4 DEF MboxUsed
<1>10. slots' = slots + 1 /\ slots \in Nat /\ MaxSlots \in Nat
  BY <1>0 DEF add_msg, MboxFields, MboxConstants
<1>11. ASSUME receivers' # <<>> PROVE Cardinality(Wanted("recv")') >= slots'
  <2>1. receivers # <<>> /\ Cardinality(Wanted("recv")) >= slots
    BY <1>0, <1>1, <1>11 DEF Announced
  <2>2. /\ IsFiniteSet(Wanted("recv")) /\ IsQueueIn(receivers, Proc)
        /\ Range(receivers) \cap Wanted("recv") = {} /\ receivers # <<>>
    BY <1>0, <2>1, MboxFinite DEF MboxQueues, Unwanted, Wanted
  <2>3. /\ Cardinality(Wanted("recv")) \in Nat
        /\ Cardinality(Wanted("recv") \cup F) = Cardinality(Wanted("recv")) + 1
    BY <2>2, Tells DEF F
  <2>4. Cardinality(Wanted("recv")') = Cardinality(Wanted("recv") \cup F)
    BY <1>7
  <2> QED BY <1>10, <2>1, <2>3, <2>4, SMTT(30)
<1>12. ASSUME senders' # <<>> PROVE Cardinality(Wanted("send")') >= MaxSlots - slots'
  <2>1. Cardinality(Wanted("send")) >= MaxSlots - slots
    BY <1>0, <1>12 DEF Announced
  <2>2. IsFiniteSet(Wanted("send"))
    BY MboxFinite
  <2>3. /\ Cardinality(Wanted("send")) \in Nat /\ Cardinality(Wanted("send") \ {p}) \in Nat
        /\ Cardinality(Wanted("send") \ {p}) >= Cardinality(Wanted("send")) - 1
    BY <2>2, OneLess
  <2>4. Cardinality(Wanted("send")') = Cardinality(Wanted("send") \ {p})
    BY <1>7
  <2> QED BY <1>10, <2>1, <2>3, <2>4, SMTT(30)
<1> QED BY <1>6, <1>8, <1>9, <1>11, <1>12 DEF MboxInv, Announced

(* A message is taken, and the first sender is told.                       *)
LEMMA MboxTakes ==
  ASSUME MboxConstants, MboxInv, NEW p \in Proc, MayLoop(p, "recv"), slots > 0,
         slots' = slots - 1, msgs' = Tail(msgs), wakeup_wait(First(senders), "wanted"),
         senders' = Rest(senders), receivers' = receivers,
         inuse' = Cardinality(InMailbox \ {p}), Leave(p, "copy"),
         arg' = [arg EXCEPT ![p] = Head(msgs)], UNCHANGED <<state, mb_panic>>
  PROVE  MboxInv'
<1>0. MboxFields /\ MboxQueues /\ MboxUsed /\ Announced /\ state = "OPENED"
  BY DEF MboxInv, MayLoop
<1> DEFINE F == First(senders)
<1>1. /\ F \subseteq Range(senders) /\ IsQueueIn(senders', Proc)
      /\ Range(senders') = Range(senders) \ F
      /\ senders' # <<>> => senders # <<>>
  BY <1>0, FirstAndRest DEF MboxQueues
<1>2. F \in SUBSET Proc /\ p \notin F /\ F \subseteq Callers("send")
  BY <1>0, <1>1 DEF MboxQueues, Unwanted, Callers, MayLoop
<1>3. /\ mb_asleep' = mb_asleep \ F
      /\ mb_wakeup_flags' \in [Proc -> {"wanted", "WT_INTERRUPTED"}]
      /\ \A q \in Proc : mb_wakeup_flags'[q] = IF q \in F THEN "wanted" ELSE mb_wakeup_flags[q]
  BY <1>0, <1>2, WakeFields
<1> HIDE DEF F
<1>4. /\ InMailbox' = InMailbox \ {p}
      /\ \A what \in {"send", "recv"} :
           /\ Wanted(what)' = (Wanted(what) \ {p}) \cup (F \cap Callers(what))
           /\ Unwanted(what)' = (Unwanted(what) \ {p}) \ F
  BY <1>0, <1>2, <1>3, LeaversAndWoken DEF Leave
<1>5. /\ F \cap Callers("recv") = {} /\ F \cap Callers("send") = F
      /\ p \notin Unwanted("send") /\ p \notin Unwanted("recv") /\ p \notin Wanted("send")
      /\ F \cap Unwanted("recv") = {} /\ p \notin mb_asleep
  BY <1>0, <1>2 DEF Callers, Unwanted, Wanted, MboxQueues, MayLoop
<1>6. /\ msgs \in Seq(Size) /\ slots = Len(msgs) /\ slots \in Nat /\ msgs # <<>>
  BY <1>0, SMTT(30) DEF MboxFields, MboxQueues
<1>7. Head(msgs) \in Size /\ Tail(msgs) \in Seq(Size) /\ Len(Tail(msgs)) = Len(msgs) - 1
  BY <1>6, SMTT(30)
<1>8. MboxFields'
  <2>1. slots' \in Nat /\ msgs' \in Seq(Size) /\ arg' \in [Proc -> Size]
    BY <1>0, <1>6, <1>7, SMTT(30) DEF MboxFields
  <2> QED BY <1>0, <1>3, <2>1, LeaveFields DEF MboxFields
<1>9. /\ Unwanted("recv")' = Unwanted("recv") /\ Unwanted("send")' = Unwanted("send") \ F
      /\ Wanted("recv")' = Wanted("recv") \ {p} /\ Wanted("send")' = Wanted("send") \cup F
  BY <1>4, <1>5
<1>10. MboxQueues'
  <2>1. slots' = Len(msgs')
    BY <1>6, <1>7
  <2>2. mb_asleep' \subseteq Unwanted("send")' \cup Unwanted("recv")'
    BY <1>0, <1>3, <1>9, SMTT(30) DEF MboxQueues
  <2>3. Range(senders') = Unwanted("send")' /\ Range(receivers') = Unwanted("recv")'
    BY <1>0, <1>1, <1>9 DEF MboxQueues
  <2> QED BY <1>0, <1>1, <2>1, <2>2, <2>3 DEF MboxQueues
<1>11. MboxUsed'
  BY <1>0, <1>4 DEF MboxUsed
<1>12. MaxSlots \in Nat
  BY DEF MboxConstants
<1>13. ASSUME senders' # <<>> PROVE Cardinality(Wanted("send")') >= MaxSlots - slots'
  <2>1. senders # <<>> /\ Cardinality(Wanted("send")) >= MaxSlots - slots
    BY <1>0, <1>1, <1>13 DEF Announced
  <2>2. /\ IsFiniteSet(Wanted("send")) /\ IsQueueIn(senders, Proc)
        /\ Range(senders) \cap Wanted("send") = {} /\ senders # <<>>
    BY <1>0, <2>1, MboxFinite DEF MboxQueues, Unwanted, Wanted
  <2>3. /\ Cardinality(Wanted("send")) \in Nat
        /\ Cardinality(Wanted("send") \cup F) = Cardinality(Wanted("send")) + 1
    BY <2>2, Tells DEF F
  <2>4. Cardinality(Wanted("send")') = Cardinality(Wanted("send") \cup F)
    BY <1>9
  <2> QED BY <1>6, <1>12, <2>1, <2>3, <2>4, SMTT(30)
<1>14. ASSUME receivers' # <<>> PROVE Cardinality(Wanted("recv")') >= slots'
  <2>1. Cardinality(Wanted("recv")) >= slots
    BY <1>0, <1>14 DEF Announced
  <2>2. IsFiniteSet(Wanted("recv"))
    BY MboxFinite
  <2>3. /\ Cardinality(Wanted("recv")) \in Nat /\ Cardinality(Wanted("recv") \ {p}) \in Nat
        /\ Cardinality(Wanted("recv") \ {p}) >= Cardinality(Wanted("recv")) - 1
    BY <2>2, OneLess
  <2>4. Cardinality(Wanted("recv")') = Cardinality(Wanted("recv") \ {p})
    BY <1>9
  <2> QED BY <1>6, <2>1, <2>3, <2>4, SMTT(30)
<1> QED BY <1>8, <1>10, <1>11, <1>13, <1>14 DEF MboxInv, Announced

(* A receiver whose buffer is too small leaves and tells the next one.     *)
LEMMA MboxPasses ==
  ASSUME MboxConstants, MboxInv, NEW p \in Proc, MayLoop(p, "recv"),
         wakeup_wait(First(receivers), "wanted"), receivers' = Rest(receivers),
         inuse' = Cardinality(InMailbox \ {p}), Leave(p, "none"),
         UNCHANGED <<state, slots, msgs, senders, arg, mb_panic>>
  PROVE  MboxInv'
<1>0. MboxFields /\ MboxQueues /\ MboxUsed /\ Announced /\ state = "OPENED"
  BY DEF MboxInv, MayLoop
<1> DEFINE F == First(receivers)
<1>1. /\ F \subseteq Range(receivers) /\ IsQueueIn(receivers', Proc)
      /\ Range(receivers') = Range(receivers) \ F
      /\ receivers' # <<>> => receivers # <<>>
  BY <1>0, FirstAndRest DEF MboxQueues
<1>2. F \in SUBSET Proc /\ p \notin F /\ F \subseteq Callers("recv")
  BY <1>0, <1>1 DEF MboxQueues, Unwanted, Callers, MayLoop
<1>3. /\ mb_asleep' = mb_asleep \ F
      /\ mb_wakeup_flags' \in [Proc -> {"wanted", "WT_INTERRUPTED"}]
      /\ \A q \in Proc : mb_wakeup_flags'[q] = IF q \in F THEN "wanted" ELSE mb_wakeup_flags[q]
  BY <1>0, <1>2, WakeFields
<1> HIDE DEF F
<1>4. /\ InMailbox' = InMailbox \ {p}
      /\ \A what \in {"send", "recv"} :
           /\ Wanted(what)' = (Wanted(what) \ {p}) \cup (F \cap Callers(what))
           /\ Unwanted(what)' = (Unwanted(what) \ {p}) \ F
  BY <1>0, <1>2, <1>3, LeaversAndWoken DEF Leave
<1>5. /\ F \cap Callers("send") = {} /\ F \cap Callers("recv") = F
      /\ p \notin Unwanted("send") /\ p \notin Unwanted("recv") /\ p \notin Wanted("send")
      /\ F \cap Unwanted("send") = {} /\ p \notin mb_asleep
  BY <1>0, <1>2 DEF Callers, Unwanted, Wanted, MboxQueues, MayLoop
<1>6. MboxFields'
  BY <1>0, <1>3, LeaveFields DEF MboxFields
<1>7. /\ Unwanted("send")' = Unwanted("send") /\ Unwanted("recv")' = Unwanted("recv") \ F
      /\ Wanted("send")' = Wanted("send") /\ Wanted("recv")' = (Wanted("recv") \ {p}) \cup F
  BY <1>4, <1>5
<1>8. MboxQueues'
  <2>1. mb_asleep' \subseteq Unwanted("send")' \cup Unwanted("recv")'
    BY <1>0, <1>3, <1>7 DEF MboxQueues
  <2>2. Range(senders') = Unwanted("send")' /\ Range(receivers') = Unwanted("recv")'
    BY <1>0, <1>1, <1>7 DEF MboxQueues
  <2> QED BY <1>0, <1>1, <2>1, <2>2 DEF MboxQueues
<1>9. MboxUsed'
  BY <1>0, <1>4 DEF MboxUsed
<1>10. slots \in Nat
  BY <1>0 DEF MboxFields
<1>11. ASSUME receivers' # <<>> PROVE Cardinality(Wanted("recv")') >= slots'
  <2>1. receivers # <<>> /\ Cardinality(Wanted("recv")) >= slots
    BY <1>0, <1>1, <1>11 DEF Announced
  <2>2. IsFiniteSet(Wanted("recv"))
    BY MboxFinite
  <2>3. /\ Cardinality(Wanted("recv")) \in Nat
        /\ Cardinality(Wanted("recv") \ {p}) \in Nat
        /\ Cardinality(Wanted("recv") \ {p}) >= Cardinality(Wanted("recv")) - 1
    BY <2>2, OneLess
  <2>4. /\ IsFiniteSet(Wanted("recv") \ {p}) /\ IsQueueIn(receivers, Proc)
        /\ Range(receivers) \cap (Wanted("recv") \ {p}) = {} /\ receivers # <<>>
    BY <1>0, <2>1, <2>2, OneMore DEF MboxQueues, Unwanted, Wanted
  <2>5. Cardinality((Wanted("recv") \ {p}) \cup F) = Cardinality(Wanted("recv") \ {p}) + 1
    BY <2>4, Tells DEF F
  <2>6. Cardinality(Wanted("recv")') = Cardinality((Wanted("recv") \ {p}) \cup F)
    BY <1>7
  <2> QED BY <1>10, <2>1, <2>3, <2>5, <2>6, SMTT(30)
<1>12. ASSUME senders' # <<>> PROVE Cardinality(Wanted("send")') >= MaxSlots - slots'
  BY <1>0, <1>7, <1>12 DEF Announced
<1> QED BY <1>6, <1>8, <1>9, <1>11, <1>12 DEF MboxInv, Announced

(* The use count of a call that has come in and leaves.                    *)
LEMMA UseOfLeaver ==
  ASSUME MboxConstants, NEW p \in Proc
  PROVE  Leaving(Cardinality(InMailbox \cup {p})) = Cardinality(InMailbox \ {p})
<1>1. IsFiniteSet(InMailbox)
  BY MboxFinite
<1>2. /\ Cardinality(InMailbox) \in Nat
      /\ p \notin InMailbox => /\ Cardinality(InMailbox \cup {p}) = Cardinality(InMailbox) + 1
                               /\ Cardinality(InMailbox \ {p}) = Cardinality(InMailbox)
      /\ p \in InMailbox => /\ Cardinality(InMailbox \cup {p}) = Cardinality(InMailbox)
                            /\ Cardinality(InMailbox \ {p}) = Cardinality(InMailbox) - 1
  BY <1>1, OneMore
<1> QED BY <1>2, SMTT(30) DEF Leaving

(* One round of the loop of send_msg.                                      *)
LEMMA SendLoops ==
  ASSUME MboxConstants, MboxInv, NEW p \in Proc, MayLoop(p, "send"), NEW size \in Size,
         NEW e \in {"none", "positive", "zero"},
         SendLoop(p, size, e, Cardinality(InMailbox \cup {p}))
  PROVE  MboxInv'
<1>1. Without(senders, p) = senders
  BY LoopersQueueNot
<1>2. Leaving(Cardinality(InMailbox \cup {p})) = Cardinality(InMailbox \ {p})
  BY UseOfLeaver
<1>3. state = "OPENED" /\ op[p] \in {"none", "send"} /\ (op[p] = "send" => mb_wakeup_flags[p] = "wanted")
  BY DEF MayLoop
<1>4. msgs \in Seq(Size) /\ slots = Len(msgs) /\ slots \in Nat /\ MaxSlots \in Nat
  BY <1>3 DEF MboxInv, MboxFields, MboxQueues, MboxConstants
<1>5. CASE IsFull(slots)
  <2>1. /\ Sleep(p, e) /\ senders' = Append(senders, p) /\ receivers' = receivers
        /\ op' = [op EXCEPT ![p] = "send"] /\ arg' = [arg EXCEPT ![p] = size]
        /\ inuse' = Cardinality(InMailbox \cup {p})
        /\ UNCHANGED <<state, slots, msgs>> /\ slots >= MaxSlots
    BY <1>1, <1>5 DEF SendLoop, IsFull
  <2> QED BY <2>1, LoopSleeps
<1>6. CASE ~IsFull(slots)
  <2>1. /\ add_msg(Append(msgs, size)) /\ receivers' = Rest(receivers) /\ senders' = senders
        /\ inuse' = Cardinality(InMailbox \ {p}) /\ Leave(p, "none")
        /\ UNCHANGED <<state, arg, mb_panic>>
    BY <1>1, <1>2, <1>6 DEF SendLoop
  <2>2. Append(msgs, size) \in Seq(Size) /\ Len(Append(msgs, size)) = slots + 1
    BY <1>4, SMTT(30)
  <2> QED BY <1>3, <2>1, <2>2, Adds
<1> QED BY <1>5, <1>6

(* One round of the loop of recv_msg.                                      *)
LEMMA RecvLoops ==
  ASSUME MboxConstants, MboxInv, NEW p \in Proc, MayLoop(p, "recv"), NEW size \in Size,
         NEW e \in {"none", "positive", "zero"},
         RecvLoop(p, size, e, Cardinality(InMailbox \cup {p}))
  PROVE  MboxInv'
<1>1. Without(receivers, p) = receivers
  BY LoopersQueueNot
<1>2. Leaving(Cardinality(InMailbox \cup {p})) = Cardinality(InMailbox \ {p})
  BY UseOfLeaver
<1>3. CASE slots = 0 /\ Sleep(p, e)
  <2>1. /\ receivers' = Append(receivers, p) /\ senders' = senders
        /\ op' = [op EXCEPT ![p] = "recv"] /\ arg' = [arg EXCEPT ![p] = size]
        /\ inuse' = Cardinality(InMailbox \cup {p})
        /\ UNCHANGED <<state, slots, msgs>>
    BY <1>1, <1>3, SMTT(30) DEF RecvLoop
  <2> QED BY <1>3, <2>1, LoopSleeps
<1>4. CASE slots > 0 /\ ~(size = "small" /\ Head(msgs) = "big")
  <2>1. /\ slots' = slots - 1 /\ msgs' = Tail(msgs) /\ wakeup_wait(First(senders), "wanted")
        /\ senders' = Rest(senders) /\ receivers' = receivers
        /\ inuse' = Cardinality(InMailbox \ {p}) /\ Leave(p, "copy")
        /\ arg' = [arg EXCEPT ![p] = Head(msgs)] /\ UNCHANGED <<state, mb_panic>>
    BY <1>1, <1>2, <1>4, SMTT(30) DEF RecvLoop
  <2> QED BY <1>4, <2>1, MboxTakes
<1>5. CASE slots > 0 /\ size = "small" /\ Head(msgs) = "big"
  <2>1. /\ wakeup_wait(First(receivers), "wanted")
        /\ receivers' = IF First(receivers) = {} THEN receivers ELSE Rest(receivers)
        /\ inuse' = Cardinality(InMailbox \ {p}) /\ Leave(p, "none")
        /\ UNCHANGED <<state, slots, msgs, senders, arg, mb_panic>>
    BY <1>1, <1>2, <1>5, SMTT(30) DEF RecvLoop, PassOn
  <2>2. receivers' = Rest(receivers)
    BY <2>1 DEF First, Rest
  <2> QED BY <2>1, <2>2, MboxPasses
<1> QED BY <1>3, <1>4, <1>5 DEF RecvLoop

-----------------------------------------------------------------------------
(* The steps.                                                              *)

(* A new call enters the loop with the use count raised ...                *)
LEMMA CallSteps ==
  ASSUME MboxConstants, MboxInv, NEW p \in Proc, NEW size \in Size,
         NEW e \in {"none", "positive"}, ipc_mbox_send(p, size, e) \/ ipc_mbox_recv(p, size, e)
  PROVE  MboxInv'
<1>1. op[p] = "none" /\ state = "OPENED" /\ e \in {"none", "positive", "zero"}
  BY DEF ipc_mbox_send, ipc_mbox_recv
<1>2. MayLoop(p, "send") /\ MayLoop(p, "recv")
  BY <1>1 DEF MayLoop
<1>3. p \notin InMailbox /\ IsFiniteSet(InMailbox) /\ inuse = Cardinality(InMailbox)
  BY <1>1, MboxFinite DEF InMailbox, MboxInv, MboxUsed
<1>4. inuse + 1 = Cardinality(InMailbox \cup {p})
  BY <1>3, OneMore
<1>5. CASE SendLoop(p, size, e, inuse + 1)
  BY <1>1, <1>2, <1>4, <1>5, SendLoops
<1>6. CASE RecvLoop(p, size, e, inuse + 1)
  BY <1>1, <1>2, <1>4, <1>6, RecvLoops
<1> QED BY <1>5, <1>6 DEF ipc_mbox_send, ipc_mbox_recv

(* ... and one that was wanted goes on in it.                              *)
LEMMA GoOnSteps ==
  ASSUME MboxConstants, MboxInv, NEW p \in Proc, go_on(p)
  PROVE  MboxInv'
<1>1. /\ op[p] \in {"send", "recv"} /\ p \notin mb_asleep
      /\ state = "OPENED" /\ mb_wakeup_flags[p] = "wanted"
  BY DEF go_on, Awake
<1>2. PICK e \in AfterDel(p) : \/ op[p] = "send" /\ SendLoop(p, arg[p], e, inuse)
                               \/ op[p] = "recv" /\ RecvLoop(p, arg[p], e, inuse)
  BY DEF go_on
<1>3. e \in {"none", "positive", "zero"} /\ arg[p] \in Size
  BY DEF AfterDel, MboxInv, MboxFields
<1>4. InMailbox \cup {p} = InMailbox /\ inuse = Cardinality(InMailbox)
  BY <1>1 DEF InMailbox, MboxInv, MboxUsed
<1>5. inuse = Cardinality(InMailbox \cup {p})
  BY <1>4
<1>6. CASE op[p] = "send" /\ SendLoop(p, arg[p], e, inuse)
  <2>1. MayLoop(p, "send")
    BY <1>1, <1>6 DEF MayLoop
  <2> QED BY <1>3, <1>5, <1>6, <2>1, SendLoops
<1>7. CASE op[p] = "recv" /\ RecvLoop(p, arg[p], e, inuse)
  <2>1. MayLoop(p, "recv")
    BY <1>1, <1>7 DEF MayLoop
  <2> QED BY <1>3, <1>5, <1>7, <2>1, RecvLoops
<1> QED BY <1>2, <1>6, <1>7

(* A call ends without having been told anything, or because the mailbox   *)
(* is closing.                                                             *)
LEMMA GiveUpSteps ==
  ASSUME MboxConstants, MboxInv, NEW p \in Proc, give_up(p)
  PROVE  MboxInv'
<1>0. MboxFields /\ MboxQueues /\ MboxUsed /\ Announced
  BY DEF MboxInv
<1>1. /\ op[p] \in {"send", "recv"} /\ p \notin mb_asleep
      /\ state # "OPENED" \/ mb_wakeup_flags[p] # "wanted"
      /\ inuse' = Leaving(inuse) /\ Leave(p, "none")
      /\ senders' = Without(senders, p) /\ receivers' = Without(receivers, p)
      /\ UNCHANGED <<msgs, arg, mb_asleep, mb_wakeup_flags, mb_panic>>
  BY DEF give_up, Awake
<1>2. \/ state # "OPENED" /\ inuse' = 0 /\ state' = "CLOSED" /\ slots' = 0
      \/ UNCHANGED <<state, slots>>
  BY DEF give_up, IsLast
<1>3. /\ InMailbox' = InMailbox \ {p}
      /\ \A what \in {"send", "recv"} :
           /\ Wanted(what)' = Wanted(what) \ {p}
           /\ Unwanted(what)' = Unwanted(what) \ {p}
  <2>1. \A q \in Proc : mb_wakeup_flags'[q] = IF q \in {} THEN "wanted" ELSE mb_wakeup_flags[q]
    BY <1>1
  <2>2. /\ InMailbox' = InMailbox \ {p}
        /\ \A what \in {"send", "recv"} :
             /\ Wanted(what)' = (Wanted(what) \ {p}) \cup ({} \cap Callers(what))
             /\ Unwanted(what)' = (Unwanted(what) \ {p}) \ {}
    BY <1>0, <1>1, <2>1, LeaversAndWoken DEF Leave
  <2> QED BY <2>2
<1>4. p \in InMailbox /\ InMailbox \cup {p} = InMailbox
  BY <1>1 DEF InMailbox
<1>5. inuse' = Cardinality(InMailbox \ {p})
  BY <1>0, <1>1, <1>4, UseOfLeaver DEF MboxUsed
<1>6. /\ IsQueueIn(senders', Proc) /\ Range(senders') = Range(senders) \ {p}
      /\ IsQueueIn(receivers', Proc) /\ Range(receivers') = Range(receivers) \ {p}
  BY <1>0, <1>1, DropFromQueue DEF MboxQueues
<1>7. senders = <<>> => senders' = <<>>
  BY <1>1, NoQueue, NotQueued
<1>8. receivers = <<>> => receivers' = <<>>
  BY <1>1, NoQueue, NotQueued
<1>9. MboxFields'
  BY <1>0, <1>1, <1>2, LeaveFields, SMTT(30) DEF MboxFields
<1>10. MboxQueues'
  <2>1. mb_asleep' \subseteq Unwanted("send")' \cup Unwanted("recv")'
    BY <1>0, <1>1, <1>3 DEF MboxQueues
  <2>2. CASE state = "OPENED"
    <3>1. Range(senders') = Unwanted("send")' /\ Range(receivers') = Unwanted("recv")'
      BY <1>0, <1>3, <1>6, <2>2 DEF MboxQueues
    <3>2. slots' = Len(msgs') /\ state' = "OPENED"
      BY <1>0, <1>1, <1>2, <2>2 DEF MboxQueues
    <3> QED BY <1>6, <2>1, <3>1, <3>2 DEF MboxQueues
  <2>3. CASE state # "OPENED"
    <3>1. state' # "OPENED"
      BY <1>2, <2>3
    <3> QED BY <1>0, <1>1, <1>6, <1>7, <1>8, <2>1, <2>3, <3>1 DEF MboxQueues
  <2> QED BY <2>2, <2>3
<1>11. state # "CLOSED"
  <2>1. CASE state = "CLOSED"
    <3>1. Cardinality(InMailbox) = 0 /\ IsFiniteSet(InMailbox)
      BY <1>0, <2>1, MboxFinite DEF MboxUsed
    <3>2. InMailbox = {}
      BY <3>1, FS_EmptySet
    <3> QED BY <1>4, <3>2
  <2> QED BY <2>1
<1>12. MboxUsed'
  <2>1. inuse' = Cardinality(InMailbox')
    BY <1>3, <1>5
  <2> QED BY <1>2, <1>11, <2>1 DEF MboxUsed
<1>13. Announced'
  <2>1. CASE state = "OPENED"
    <3>1. p \notin Wanted("send") /\ p \notin Wanted("recv") /\ slots' = slots
      BY <1>1, <1>2, <2>1 DEF Wanted
    <3>2. Wanted("send")' = Wanted("send") /\ Wanted("recv")' = Wanted("recv")
      BY <1>3, <3>1
    <3> QED BY <1>0, <1>7, <1>8, <3>1, <3>2 DEF Announced
  <2>2. CASE state # "OPENED"
    BY <1>0, <1>7, <1>8, <2>2 DEF MboxQueues, Announced
  <2> QED BY <2>1, <2>2
<1> QED BY <1>9, <1>10, <1>12, <1>13 DEF MboxInv

(* The message is copied out ...                                           *)
LEMMA CopyDoneSteps ==
  ASSUME MboxConstants, MboxInv, NEW p \in Proc, copy_done(p)
  PROVE  MboxInv'
<1>0. MboxFields /\ MboxQueues /\ MboxUsed /\ Announced
  BY DEF MboxInv
<1>1. op[p] = "copy" /\ Leave(p, "none")
      /\ UNCHANGED <<state, slots, inuse, msgs, senders, receivers, arg, mb_asleep,
                     mb_wakeup_flags, mb_panic>>
  BY DEF copy_done
<1>2. op'[p] = "none" /\ \A q \in Proc \ {p} : op'[q] = op[q]
  BY <1>0, <1>1 DEF MboxFields, Leave
<1>3. InMailbox' = InMailbox
  BY <1>1, <1>2 DEF InMailbox
<1>4. /\ Wanted("send")' = Wanted("send") /\ Wanted("recv")' = Wanted("recv")
      /\ Unwanted("send")' = Unwanted("send") /\ Unwanted("recv")' = Unwanted("recv")
  BY <1>1, <1>2 DEF Wanted, Unwanted
<1>5. MboxFields'
  BY <1>0, <1>1, LeaveFields DEF MboxFields
<1>6. MboxQueues' /\ MboxUsed' /\ Announced'
  BY <1>0, <1>1, <1>3, <1>4 DEF MboxQueues, MboxUsed, Announced
<1> QED BY <1>5, <1>6 DEF MboxInv

(* ... or put back.                                                        *)
LEMMA CopyFailsSteps ==
  ASSUME MboxConstants, MboxInv, NEW p \in Proc, copy_fails(p)
  PROVE  MboxInv'
<1>1. /\ op[p] = "copy" /\ state = "OPENED" /\ add_msg(<<arg[p]>> \o msgs)
      /\ receivers' = Rest(receivers) /\ senders' = senders /\ inuse' = inuse
      /\ Leave(p, "none") /\ UNCHANGED <<state, arg, mb_panic>>
  BY DEF copy_fails
<1>2. msgs \in Seq(Size) /\ slots = Len(msgs) /\ arg[p] \in Size /\ inuse = Cardinality(InMailbox)
  BY <1>1 DEF MboxInv, MboxFields, MboxQueues, MboxUsed
<1>3. <<arg[p]>> \o msgs \in Seq(Size) /\ Len(<<arg[p]>> \o msgs) = slots + 1
  BY <1>2, SMTT(30)
<1>4. InMailbox \ {p} = InMailbox
  BY <1>1 DEF InMailbox
<1>5. inuse' = Cardinality(InMailbox \ {p})
  BY <1>1, <1>2, <1>4
<1> QED BY <1>1, <1>3, <1>5, Adds

(* Freeing the mailbox empties it and wakes everybody.                     *)
LEMMA FreeSteps ==
  ASSUME MboxConstants, MboxInv, ipc_mbox_free
  PROVE  MboxInv'
<1>0. MboxFields /\ MboxQueues /\ MboxUsed /\ Announced /\ state = "OPENED"
  BY DEF MboxInv, ipc_mbox_free
<1>1. /\ wakeup_wait(FreeWakes, "WT_INTERRUPTED")
      /\ msgs' = <<>> /\ senders' = <<>> /\ receivers' = <<>>
      /\ UNCHANGED <<inuse, op, arg, expires, mb_armed, mb_panic>>
      /\ \/ inuse = 0 /\ state' = "CLOSED" /\ slots' = 0
         \/ state' = "CLOSING" /\ slots' = slots
  BY DEF ipc_mbox_free, IsLast
<1>2. FreeWakes = Unwanted("send") \cup Unwanted("recv") /\ FreeWakes \in SUBSET Proc
  BY <1>0 DEF FreeWakes, MboxQueues, Unwanted
<1>3. mb_asleep' = {} /\ mb_wakeup_flags' \in [Proc -> {"wanted", "WT_INTERRUPTED"}]
  BY <1>0, <1>1, <1>2, WakeFields DEF MboxQueues
<1>4. MboxFields'
  <2>1. msgs' \in Seq(Size) /\ slots' \in Nat
    BY <1>0, <1>1, SMTT(30) DEF MboxFields
  <2> QED BY <1>0, <1>1, <1>3, <2>1 DEF MboxFields
<1>5. MboxQueues'
  BY <1>1, <1>3, NoQueue DEF MboxQueues
<1>6. InMailbox' = InMailbox
  BY <1>1 DEF InMailbox
<1>7. MboxUsed'
  BY <1>0, <1>1, <1>6 DEF MboxUsed
<1>8. Announced'
  BY <1>1 DEF Announced
<1> QED BY <1>4, <1>5, <1>7, <1>8 DEF MboxInv

(* A mailbox that is opened has nobody in it.                              *)
LEMMA OpenSteps ==
  ASSUME MboxConstants, MboxInv, ipc_mbox_init
  PROVE  MboxInv'
<1>0. MboxFields /\ MboxQueues /\ MboxUsed /\ Announced /\ state = "CLOSED" /\ state' = "OPENED"
  BY DEF MboxInv, ipc_mbox_init
<1>1. UNCHANGED <<slots, inuse, msgs, senders, receivers, op, arg, mb_asleep,
                  mb_wakeup_flags, expires, mb_armed, mb_panic>>
  BY DEF ipc_mbox_init
<1>2. InMailbox = {}
  <2>1. Cardinality(InMailbox) = 0 /\ IsFiniteSet(InMailbox)
    BY <1>0, MboxFinite DEF MboxUsed
  <2> QED BY <2>1, FS_EmptySet
<1>3. Unwanted("send") = {} /\ Unwanted("recv") = {}
  BY <1>2 DEF InMailbox, Unwanted
<1>4. Unwanted("send")' = {} /\ Unwanted("recv")' = {}
  BY <1>1, <1>3 DEF Unwanted
<1>5. InMailbox' = InMailbox
  BY <1>1 DEF InMailbox
<1>6. MboxFields'
  BY <1>0, <1>1 DEF MboxFields
<1>7. MboxQueues'
  <2>1. slots = 0 /\ msgs = <<>> /\ senders = <<>> /\ receivers = <<>> /\ mb_asleep = {}
    BY <1>0 DEF MboxUsed, MboxQueues
  <2>2. Len(msgs') = 0 /\ slots' = 0
    BY <1>1, <2>1
  <2> QED BY <1>0, <1>1, <1>4, <2>1, <2>2, NoQueue DEF MboxQueues
<1>8. MboxUsed'
  BY <1>0, <1>1, <1>5 DEF MboxUsed
<1>9. Announced'
  BY <1>0, <1>1 DEF MboxQueues, Announced
<1> QED BY <1>6, <1>7, <1>8, <1>9 DEF MboxInv

(* Who is woken by its timer, a kill or a signal stays where it is.        *)
LEMMA InterruptSteps ==
  ASSUME MboxConstants, MboxInv, NEW p \in Proc, MboxTimeout(p) \/ MboxInterrupt(p)
  PROVE  MboxInv'
<1>0. MboxFields /\ MboxQueues /\ MboxUsed /\ Announced
  BY DEF MboxInv
<1>1. /\ UNCHANGED <<state, slots, inuse, msgs, senders, receivers, op, arg,
                     mb_wakeup_flags, mb_panic>>
      /\ mb_asleep' = mb_asleep \ {p}
  BY DEF MboxTimeout, MboxInterrupt
<1>2. mb_armed' \subseteq Proc /\ expires' \in [Proc -> {"none", "positive", "zero"}]
  BY <1>0 DEF MboxTimeout, MboxInterrupt, MboxFields
<1>3. MboxFields'
  BY <1>0, <1>1, <1>2 DEF MboxFields
<1>4. /\ InMailbox' = InMailbox
      /\ Wanted("send")' = Wanted("send") /\ Wanted("recv")' = Wanted("recv")
      /\ Unwanted("send")' = Unwanted("send") /\ Unwanted("recv")' = Unwanted("recv")
  BY <1>1 DEF InMailbox, Wanted, Unwanted
<1>5. MboxQueues'
  <2>1. mb_asleep' \subseteq Unwanted("send")' \cup Unwanted("recv")'
    BY <1>0, <1>1, <1>4 DEF MboxQueues
  <2> QED BY <1>0, <1>1, <1>4, <2>1 DEF MboxQueues
<1>6. MboxUsed' /\ Announced'
  BY <1>0, <1>1, <1>4 DEF MboxUsed, Announced
<1> QED BY <1>3, <1>5, <1>6 DEF MboxInv

\* The invariant holds before the mailbox is opened.
LEMMA MboxInitially ==
  ASSUME MboxConstants, MboxInit
  PROVE  MboxInv
<1>1. MboxFields
  <2>1. <<>> \in Seq(Size) /\ 0 \in Nat
    BY SMTT(30)
  <2>2. "small" \in Size
    BY DEF Size
  <2> QED BY <2>1, <2>2 DEF MboxFields, MboxInit
<1>2. InMailbox = {}
  BY DEF MboxInit, InMailbox
<1>3. MboxQueues
  BY NoQueue DEF MboxInit, MboxQueues
<1>4. MboxUsed
  BY <1>2, FS_EmptySet DEF MboxInit, MboxUsed
<1>5. Announced
  BY DEF MboxInit, Announced
<1> QED BY <1>1, <1>3, <1>4, <1>5 DEF MboxInv

\* The invariant is inductive.
LEMMA MboxSteps ==
  ASSUME MboxConstants, MboxInv, [MboxNext]_mb_vars
  PROVE  MboxInv'
<1>1. CASE ipc_mbox_init
  BY <1>1, OpenSteps
<1>2. CASE \E p \in Proc : Call(p) \/ MboxResume(p) \/ MboxTimeout(p) \/ MboxInterrupt(p)
  <2>1. PICK p \in Proc : Call(p) \/ MboxResume(p) \/ MboxTimeout(p) \/ MboxInterrupt(p)
    BY <1>2
  <2>2. CASE Call(p)
    BY <2>2, CallSteps, FreeSteps DEF Call
  <2>3. CASE MboxResume(p)
    BY <2>3, GoOnSteps, GiveUpSteps, CopyDoneSteps, CopyFailsSteps DEF MboxResume
  <2>4. CASE MboxTimeout(p) \/ MboxInterrupt(p)
    BY <2>4, InterruptSteps
  <2> QED BY <2>1, <2>2, <2>3, <2>4
<1>3. CASE UNCHANGED mb_vars
  <2>1. UNCHANGED <<state, slots, inuse, msgs, senders, receivers, op, arg, mb_asleep,
                    mb_wakeup_flags, expires, mb_armed, mb_panic>>
    BY <1>3 DEF mb_vars
  <2>2. /\ InMailbox' = InMailbox
        /\ Wanted("send")' = Wanted("send") /\ Wanted("recv")' = Wanted("recv")
        /\ Unwanted("send")' = Unwanted("send") /\ Unwanted("recv")' = Unwanted("recv")
    BY <2>1 DEF InMailbox, Wanted, Unwanted
  <2>3. MboxFields' /\ MboxUsed' /\ Announced'
    BY <2>1, <2>2 DEF MboxInv, MboxFields, MboxUsed, Announced
  <2>4. MboxQueues'
    BY <2>1, <2>2 DEF MboxInv, MboxQueues
  <2> QED BY <2>3, <2>4 DEF MboxInv
<1> QED BY <1>1, <1>2, <1>3 DEF MboxNext

\* The invariant holds in every reachable state.
LEMMA MboxInvariance == ASSUME MboxConstants PROVE MboxSpec => []MboxInv
<1>1. MboxInit => MboxInv
  BY MboxInitially
<1>2. MboxInv /\ [MboxNext]_mb_vars => MboxInv'
  BY MboxSteps
<1> QED BY <1>1, <1>2, PTL DEF MboxSpec

-----------------------------------------------------------------------------
(* The fields of the mailbox keep their ranges, and never more processes   *)
(* are counted in it than there are.                                       *)
THEOREM MboxTypes == ASSUME MboxConstants PROVE MboxSpec => []MboxTypeOK
<1>1. MboxInv => MboxTypeOK
  <2> SUFFICES ASSUME MboxInv PROVE MboxTypeOK
    OBVIOUS
  <2>1. InMailbox \subseteq Proc /\ IsFiniteSet(Proc)
    BY DEF InMailbox, MboxConstants
  <2>2. /\ IsFiniteSet(InMailbox) /\ Cardinality(InMailbox) <= Cardinality(Proc)
    BY <2>1, FS_Subset
  <2>3. Cardinality(InMailbox) \in Nat /\ Cardinality(Proc) \in Nat
    BY <2>1, <2>2, FS_CardinalityType
  <2>4. inuse \in 0..Cardinality(Proc)
    BY <2>2, <2>3, SMTT(30) DEF MboxInv, MboxUsed
  <2>5. senders \in Seq(Proc) /\ receivers \in Seq(Proc)
    BY InQueue DEF MboxInv, MboxQueues
  <2> QED BY <2>4, <2>5 DEF MboxTypeOK, MboxInv, MboxFields
<1> QED BY <1>1, MboxInvariance, PTL

(* send_msg, recv_msg: nobody sleeps for a message or for room that is     *)
(* there, unless a process that was told of it has not run yet.            *)
THEOREM NoMboxWakeupLost == ASSUME MboxConstants PROVE MboxSpec => []NoWakeupLost
<1>1. MboxInv => NoWakeupLost
  <2> SUFFICES ASSUME MboxInv, state = "OPENED"
               PROVE  /\ slots > 0 /\ (\E p \in mb_asleep : op[p] = "recv") =>
                           Wanted("recv") # {} /\ Wanted("recv") \cap mb_asleep = {}
                      /\ slots < MaxSlots /\ (\E p \in mb_asleep : op[p] = "send") =>
                           Wanted("send") # {} /\ Wanted("send") \cap mb_asleep = {}
    BY DEF NoWakeupLost, Wanted, Awake
  <2>1. Wanted("recv") \cap mb_asleep = {} /\ Wanted("send") \cap mb_asleep = {}
    BY DEF MboxInv, MboxQueues, Wanted, Unwanted
  <2>2. slots \in Nat /\ MaxSlots \in Nat
    BY DEF MboxInv, MboxFields, MboxConstants
  <2>3. Cardinality({}) = 0
    BY FS_EmptySet
  <2>4. ASSUME slots > 0, NEW p \in mb_asleep, op[p] = "recv" PROVE Wanted("recv") # {}
    <3>1. p \in Range(receivers)
      BY <2>4 DEF MboxInv, MboxQueues, Unwanted
    <3>2. receivers # <<>>
      BY <3>1, NoQueue
    <3>3. Cardinality(Wanted("recv")) >= slots
      BY <3>2 DEF MboxInv, Announced
    <3> QED BY <2>2, <2>3, <2>4, <3>3, SMTT(30)
  <2>5. ASSUME slots < MaxSlots, NEW p \in mb_asleep, op[p] = "send" PROVE Wanted("send") # {}
    <3>1. p \in Range(senders)
      BY <2>5 DEF MboxInv, MboxQueues, Unwanted
    <3>2. senders # <<>>
      BY <3>1, NoQueue
    <3>3. Cardinality(Wanted("send")) >= MaxSlots - slots
      BY <3>2 DEF MboxInv, Announced
    <3> QED BY <2>2, <2>3, <2>5, <3>3, SMTT(30)
  <2> QED BY <2>1, <2>4, <2>5
<1> QED BY <1>1, MboxInvariance, PTL

(* ipc_mbox_free, mbox_free: inuse counts the processes inside, and a      *)
(* mailbox that is closing or closed holds no message and no waiter.       *)
THEOREM MboxFreedEmpty == ASSUME MboxConstants PROVE MboxSpec => []FreedEmpty
<1>1. MboxInv => FreedEmpty
  BY DEF MboxInv, MboxUsed, MboxQueues, InMailbox, FreedEmpty
<1> QED BY <1>1, MboxInvariance, PTL

(* ipc_mbox_send, ipc_mbox_recv, ipc_mbox_free: no wakeup is lost, the     *)
(* mailbox is freed empty, and its fields keep their types.                *)
THEOREM MailboxCorrect == ASSUME MboxConstants PROVE MboxSpec => []MailboxExact
BY MboxTypes, NoMboxWakeupLost, MboxFreedEmpty, PTL DEF MailboxExact

(* send_msg: when every message can be copied out, no interleaving of      *)
(* senders, receivers and wakeups puts more than max_slots messages in.    *)
THEOREM SlotsAreBounded ==
  ASSUME MboxConstants, ~CopyFails
  PROVE  MboxSpec => []SlotsBounded
<1> DEFINE Bounded == slots \in Nat /\ SlotsBounded
<1>1. MboxInit => Bounded
  BY SMTT(30) DEF MboxInit, SlotsBounded, MboxConstants
<1>2. Bounded /\ [MboxNext]_mb_vars => Bounded'
  <2> SUFFICES ASSUME Bounded, [MboxNext]_mb_vars PROVE Bounded'
    OBVIOUS
  <2>1. slots \in Nat /\ slots <= MaxSlots /\ MaxSlots \in Nat
    BY DEF SlotsBounded, MboxConstants
  <2>2. ASSUME NEW p, NEW size, NEW e, NEW use, SendLoop(p, size, e, use) PROVE Bounded'
    BY <2>1, <2>2, SMTT(30) DEF SendLoop, IsFull, add_msg, SlotsBounded
  <2>3. ASSUME NEW p, NEW size, NEW e, NEW use, RecvLoop(p, size, e, use) PROVE Bounded'
    BY <2>1, <2>3, SMTT(30) DEF RecvLoop, SlotsBounded
  <2>4. ASSUME NEW p \in Proc, Call(p) PROVE Bounded'
    BY <2>1, <2>2, <2>3, <2>4, SMTT(30)
    DEF Call, ipc_mbox_send, ipc_mbox_recv, ipc_mbox_free, SlotsBounded
  <2>5. ASSUME NEW p \in Proc, MboxResume(p) PROVE Bounded'
    <3>1. CASE go_on(p)
      BY <2>2, <2>3, <3>1 DEF go_on
    <3>2. CASE give_up(p)
      BY <2>1, <3>2, SMTT(30) DEF give_up, SlotsBounded
    <3>3. CASE copy_done(p)
      BY <2>1, <3>3 DEF copy_done, SlotsBounded
    <3> QED BY <2>5, <3>1, <3>2, <3>3 DEF MboxResume, copy_fails
  <2>6. CASE UNCHANGED slots
    BY <2>1, <2>6 DEF SlotsBounded
  <2>7. \/ \E p \in Proc : Call(p) \/ MboxResume(p)
        \/ UNCHANGED slots
    BY DEF MboxNext, ipc_mbox_init, MboxTimeout, MboxInterrupt, mb_vars
  <2> QED BY <2>4, <2>5, <2>6, <2>7
<1>3. Bounded => SlotsBounded
  OBVIOUS
<1> QED BY <1>1, <1>2, <1>3, PTL DEF MboxSpec

-----------------------------------------------------------------------------
(* User semaphores: no post is lost or counts twice, and the memory of a   *)
(* semaphore is freed with its last entry, never under a waiter, whatever  *)
(* timers, kills, stop signals, frees, forks, execs and exits happen       *)
(* meanwhile.                                                              *)

\* The processes in the wait queue of s.
Queued(s) == Range(sem_wait_queue[s])

\* The tables with an entry for s.
Listing(s) == {t \in Table : s \in semu_list[t]}

\* A process is in a wait queue once.
SemQueues == \A s \in Sem : IsQueueIn(sem_wait_queue[s], Proc)

(* A process in a wait queue is inside __down for that semaphore, nobody   *)
(* has handed it a unit, the semaphore is valid, and the table of the      *)
(* process has an entry for it: what keeps its memory from being freed.    *)
Waiters ==
  \A s \in Sem : \A p \in Queued(s) :
    /\ p \in Proc /\ waits_for[p] = s /\ sem_wakeup_flags[p] = "WT_INTERRUPTED" /\ valid[s]
    /\ sem_queue[p] \in Table /\ s \in semu_list[sem_queue[p]]

\* A unit is there only if nobody waits for it.
Values == \A s \in Sem : sem_value[s] > 0 => Queued(s) = {}

\* A process that sleeps in __down is in the queue of its semaphore.
Sleeping ==
  \A p \in Proc : wait_state[p] = "WT_USEM" =>
    waits_for[p] \in Sem /\ p \in Queued(waits_for[p])

(* sem->count counts the entries, and a table that no process uses has     *)
(* none left: put_sem_queue destroyed them.                                *)
Counts ==
  /\ \A s \in Sem : count[s] = Cardinality(Listing(s))
  /\ \A t \in Table : (\A p \in Proc : sem_queue[p] # t) => semu_list[t] = {}

(* The inductive invariant.  MemoryHeld says of a waiter only that the     *)
(* semaphore has some entry; that an exit or an exec of another process    *)
(* leaves one needs Waiters, which ties the entry to the table of the      *)
(* waiter, and Counts, by which a new table starts empty.                  *)
SemInv == SemTypeOK /\ SemQueues /\ Waiters /\ Values /\ Sleeping /\ Counts

\* The invariant holds when no semaphore exists.
LEMMA SemInitially ==
  ASSUME SemConstants, NEW tables \in [Proc -> Table \cup {None}], SemBoot(tables)
  PROVE  SemInv
<1>1. \A s \in Sem : Queued(s) = {} /\ IsQueueIn(sem_wait_queue[s], Proc) /\ Listing(s) = {}
  BY NoQueue DEF SemBoot, Queued, Listing
<1>2. Cardinality({}) = 0 /\ Cardinality(Table) \in Nat
  BY FS_EmptySet, FS_CardinalityType DEF SemConstants
<1>3. SemTypeOK
  <2>1. valid \in [Sem -> BOOLEAN] /\ sem_panic \in BOOLEAN
    BY DEF SemBoot
  <2>2. sem_value \in [Sem -> -1..MaxValue]
    BY SMTT(30) DEF SemBoot, SemConstants
  <2>3. sem_wait_queue \in [Sem -> Seq(Proc)]
    BY EmptySeq DEF SemBoot
  <2> QED BY <1>2, <2>1, <2>2, <2>3, SMTT(30) DEF SemBoot, SemTypeOK
<1>4. SemQueues /\ Waiters /\ Values
  BY <1>1 DEF SemQueues, Waiters, Values
<1>5. Sleeping
  BY DEF SemBoot, Sleeping
<1>6. Counts
  BY <1>1, <1>2 DEF SemBoot, Counts
<1> QED BY <1>3, <1>4, <1>5, <1>6 DEF SemInv

\* One wait queue changes, the others stay.
LEMMA QueueChanged ==
  ASSUME SemInv, NEW s \in Sem, NEW w, IsQueueIn(w, Proc),
         sem_wait_queue' = [sem_wait_queue EXCEPT ![s] = w]
  PROVE  /\ sem_wait_queue' \in [Sem -> Seq(Proc)] /\ SemQueues'
         /\ Queued(s)' = Range(w) /\ \A r \in Sem \ {s} : Queued(r)' = Queued(r)
<1>1. w \in Seq(Proc)
  BY InQueue
<1>2. sem_wait_queue \in [Sem -> Seq(Proc)]
  BY DEF SemInv, SemTypeOK
<1>3. sem_wait_queue'[s] = w /\ \A r \in Sem \ {s} : sem_wait_queue'[r] = sem_wait_queue[r]
  BY <1>2
<1>4. sem_wait_queue' \in [Sem -> Seq(Proc)]
  BY <1>1, <1>2
<1>5. SemQueues'
  BY <1>3 DEF SemInv, SemQueues
<1>6. Queued(s)' = Range(w) /\ \A r \in Sem \ {s} : Queued(r)' = Queued(r)
  BY <1>3 DEF Queued
<1> QED BY <1>4, <1>5, <1>6

\* A semaphore has no more entries than there are tables.
LEMMA CountType ==
  ASSUME SemConstants, NEW H \in SUBSET Table
  PROVE  Cardinality(H) \in 0..Cardinality(Table) /\ IsFiniteSet(H)
BY FS_Subset, FS_CardinalityType, SMTT(30) DEF SemConstants

\* A timer, a kill, a signal or a stop: the process stays in the queue.
LEMMA Awakes ==
  ASSUME SemInv, NEW p \in Proc, NEW st \in {"none", "WT_SIGNAL"},
         wait_state' = [wait_state EXCEPT ![p] = st], timer' \subseteq timer,
         UNCHANGED <<sem_value, valid, sem_wait_queue, count, semu_list, sem_queue, waits_for,
                     sem_wakeup_flags, sem_panic>>
  PROVE  SemInv'
<1>1. /\ wait_state' \in [Proc -> {"none", "WT_USEM", "WT_SIGNAL"}]
      /\ \A r \in Proc : wait_state'[r] = "WT_USEM" => wait_state[r] = "WT_USEM"
  BY DEF SemInv, SemTypeOK
<1>2. SemTypeOK'
  BY <1>1 DEF SemInv, SemTypeOK
<1>3. SemQueues' /\ Waiters' /\ Values'
  BY DEF SemInv, SemQueues, Waiters, Values, Queued
<1>4. Sleeping'
  BY <1>1 DEF SemInv, Sleeping, Queued
<1>5. Counts'
  BY DEF SemInv, Counts, Listing
<1> QED BY <1>2, <1>3, <1>4, <1>5 DEF SemInv

\* ipc_sem_post: the first waiter gets the unit and leaves the queue, or the
\* value grows while nobody waits.
LEMMA Posts ==
  ASSUME SemConstants, SemInv, NEW p \in Proc, NEW s \in Sem, ipc_sem_post(p, s)
  PROVE  SemInv'
<1>0. UNCHANGED <<valid, count, semu_list, sem_queue, waits_for, timer>>
  BY DEF ipc_sem_post
<1>1. Counts'
  BY <1>0 DEF SemInv, Counts, Listing
<1>2. CASE /\ sem_wait_queue[s] = <<>> /\ sem_value[s] < MaxValue
           /\ sem_value' = [sem_value EXCEPT ![s] = @ + 1]
           /\ UNCHANGED <<sem_wait_queue, wait_state, sem_wakeup_flags, sem_panic>>
  <2>1. /\ sem_value' \in [Sem -> -1..MaxValue]
        /\ \A r \in Sem \ {s} : sem_value'[r] = sem_value[r]
    BY <1>2, SMTT(30) DEF SemInv, SemTypeOK, SemConstants
  <2>2. SemTypeOK'
    BY <1>0, <1>2, <2>1 DEF SemInv, SemTypeOK
  <2>3. SemQueues' /\ Waiters' /\ Sleeping'
    BY <1>0, <1>2 DEF SemInv, SemQueues, Waiters, Sleeping, Queued
  <2>4. Queued(s) = {}
    BY <1>2, InQueue DEF SemInv, SemQueues, Queued
  <2>5. Values'
    BY <1>2, <2>1, <2>4 DEF SemInv, Values, Queued
  <2> QED BY <1>1, <2>2, <2>3, <2>5 DEF SemInv
<1>3. CASE sem_wait_queue[s] # <<>> /\ wait_state[Head(sem_wait_queue[s])] # "WT_USEM"
  <2>1. /\ sem_panic' = TRUE /\ UNCHANGED <<sem_value, sem_wait_queue, sem_wakeup_flags, wait_state>>
    BY <1>3 DEF ipc_sem_post
  <2>2. SemTypeOK'
    BY <1>0, <2>1 DEF SemInv, SemTypeOK
  <2>3. SemQueues' /\ Waiters' /\ Sleeping' /\ Values'
    BY <1>0, <2>1 DEF SemInv, SemQueues, Waiters, Sleeping, Values, Queued
  <2> QED BY <1>1, <2>2, <2>3 DEF SemInv
<1>4. CASE sem_wait_queue[s] # <<>> /\ wait_state[Head(sem_wait_queue[s])] = "WT_USEM"
  <2>1. PICK q : q = Head(sem_wait_queue[s])
    OBVIOUS
  <2>2. PICK w : w = Tail(sem_wait_queue[s])
    OBVIOUS
  <2>3. /\ sem_wait_queue' = [sem_wait_queue EXCEPT ![s] = w]
        /\ sem_wakeup_flags' = [sem_wakeup_flags EXCEPT ![q] = "WT_USEM"]
        /\ wait_state' = [wait_state EXCEPT ![q] = "none"]
        /\ UNCHANGED <<sem_value, sem_panic>>
    BY <1>4, <2>1, <2>2 DEF ipc_sem_post
  <2>4. q \in Queued(s) /\ IsQueueIn(w, Proc) /\ Range(w) = Queued(s) \ {q}
    BY <1>4, <2>1, <2>2, PopQueue DEF SemInv, SemQueues, Queued
  <2>5. /\ sem_wait_queue' \in [Sem -> Seq(Proc)] /\ SemQueues'
        /\ Queued(s)' = Queued(s) \ {q} /\ \A r \in Sem \ {s} : Queued(r)' = Queued(r)
    BY <2>3, <2>4, QueueChanged
  <2>6. q \in Proc /\ waits_for[q] = s
    BY <2>4 DEF SemInv, Waiters
  <2>7. \A r \in Sem : q \notin Queued(r)' /\ Queued(r)' \subseteq Queued(r)
    BY <2>5, <2>6, SMTT(30) DEF SemInv, Waiters
  <2>8. /\ wait_state'[q] = "none"
        /\ \A r \in Proc \ {q} : wait_state'[r] = wait_state[r] /\ sem_wakeup_flags'[r] = sem_wakeup_flags[r]
    BY <2>3, <2>6 DEF SemInv, SemTypeOK
  <2>9. SemTypeOK'
    BY <1>0, <2>3, <2>5 DEF SemInv, SemTypeOK
  <2>10. Waiters'
    <3> SUFFICES ASSUME NEW r \in Sem, NEW m \in Queued(r)'
                 PROVE  /\ m \in Proc /\ waits_for'[m] = r
                        /\ sem_wakeup_flags'[m] = "WT_INTERRUPTED" /\ valid'[r]
                        /\ sem_queue'[m] \in Table /\ r \in semu_list'[sem_queue'[m]]
      BY DEF Waiters
    <3>1. m \in Queued(r) /\ m # q
      BY <2>7
    <3> QED BY <1>0, <2>8, <3>1 DEF SemInv, Waiters
  <2>11. Values'
    BY <2>3, <2>7 DEF SemInv, Values
  <2>12. Sleeping'
    <3> SUFFICES ASSUME NEW r \in Proc, wait_state'[r] = "WT_USEM"
                 PROVE  (waits_for[r] \in Sem /\ r \in Queued(waits_for[r]))'
      BY DEF Sleeping
    <3>1. r # q /\ wait_state[r] = "WT_USEM"
      BY <2>8
    <3>2. PICK m \in Sem : m = waits_for[r] /\ r \in Queued(m)
      BY <3>1 DEF SemInv, Sleeping
    <3>3. r \in Queued(m)'
      BY <2>5, <3>1, <3>2
    <3> QED BY <1>0, <3>2, <3>3 DEF Queued
  <2> QED BY <1>1, <2>5, <2>9, <2>10, <2>11, <2>12 DEF SemInv
<1> QED BY <1>2, <1>3, <1>4 DEF ipc_sem_post

\* ipc_sem_wait takes a unit or joins the queue of a semaphore without any.
LEMMA Downs ==
  ASSUME SemConstants, SemInv, NEW p \in Proc, NEW s \in Sem, NEW timed \in BOOLEAN,
         ipc_sem_wait(p, s, timed)
  PROVE  SemInv'
<1>0. /\ sem_queue[p] \in Table /\ waits_for[p] = None /\ s \in semu_list[sem_queue[p]] /\ valid[s]
      /\ UNCHANGED <<valid, count, semu_list, sem_queue, sem_panic>>
  BY DEF ipc_sem_wait, Found, Listed, InUser, SemInv, SemTypeOK
<1>1. Counts'
  BY <1>0, SMTT(30) DEF SemInv, Counts, Listing
<1>2. CASE /\ sem_value[s] > 0
           /\ sem_value' = [sem_value EXCEPT ![s] = @ - 1]
           /\ UNCHANGED <<sem_wait_queue, waits_for, wait_state, sem_wakeup_flags, timer>>
  <2>1. /\ sem_value' \in [Sem -> -1..MaxValue]
        /\ \A r \in Sem : sem_value'[r] > 0 => sem_value[r] > 0
    BY <1>2, SMTT(30) DEF SemInv, SemTypeOK, SemConstants
  <2>2. SemTypeOK'
    BY <1>0, <1>2, <2>1 DEF SemInv, SemTypeOK
  <2>3. SemQueues' /\ Waiters' /\ Sleeping'
    BY <1>0, <1>2 DEF SemInv, SemQueues, Waiters, Sleeping, Queued
  <2>4. Values'
    BY <1>2, <2>1 DEF SemInv, Values, Queued
  <2> QED BY <1>1, <2>2, <2>3, <2>4 DEF SemInv
<1>3. CASE sem_value[s] <= 0
  <2>1. PICK w : w = Append(sem_wait_queue[s], p)
    OBVIOUS
  <2>2. /\ sem_wait_queue' = [sem_wait_queue EXCEPT ![s] = w]
        /\ waits_for' = [waits_for EXCEPT ![p] = s]
        /\ wait_state' = [wait_state EXCEPT ![p] = "WT_USEM"]
        /\ sem_wakeup_flags' = [sem_wakeup_flags EXCEPT ![p] = "WT_INTERRUPTED"]
        /\ timer' \subseteq timer \cup {p} /\ UNCHANGED sem_value
    BY <1>3, <2>1, SMTT(30) DEF ipc_sem_wait, SemInv, SemTypeOK
  <2>3. \A r \in Sem : p \notin Queued(r)
    BY <1>0 DEF SemInv, Waiters, SemConstants
  <2>4. IsQueueIn(w, Proc) /\ Range(w) = Queued(s) \cup {p}
    BY <2>1, <2>3, AddToQueue DEF SemInv, SemQueues, Queued
  <2>5. /\ sem_wait_queue' \in [Sem -> Seq(Proc)] /\ SemQueues'
        /\ Queued(s)' = Queued(s) \cup {p} /\ \A r \in Sem \ {s} : Queued(r)' = Queued(r)
    BY <2>2, <2>4, QueueChanged
  <2>6. /\ waits_for'[p] = s /\ sem_wakeup_flags'[p] = "WT_INTERRUPTED"
        /\ \A r \in Proc \ {p} : /\ waits_for'[r] = waits_for[r] /\ wait_state'[r] = wait_state[r]
                                   /\ sem_wakeup_flags'[r] = sem_wakeup_flags[r]
    BY <2>2 DEF SemInv, SemTypeOK
  <2>7. SemTypeOK'
    BY <1>0, <2>2, <2>5 DEF SemInv, SemTypeOK
  <2>8. Waiters'
    <3> SUFFICES ASSUME NEW r \in Sem, NEW m \in Queued(r)'
                 PROVE  /\ m \in Proc /\ waits_for'[m] = r
                        /\ sem_wakeup_flags'[m] = "WT_INTERRUPTED" /\ valid'[r]
                        /\ sem_queue'[m] \in Table /\ r \in semu_list'[sem_queue'[m]]
      BY DEF Waiters
    <3>1. CASE m = p
      <4>1. r = s
        BY <2>3, <2>5, <3>1
      <4> QED BY <1>0, <2>6, <3>1, <4>1
    <3>2. CASE m # p
      <4>1. m \in Queued(r)
        BY <2>5, <3>2
      <4> QED BY <1>0, <2>6, <3>2, <4>1 DEF SemInv, Waiters
    <3> QED BY <3>1, <3>2
  <2>9. sem_value[s] \in Int /\ ~(sem_value[s] > 0)
    BY <1>3, SMTT(30) DEF SemInv, SemTypeOK
  <2>10. Values'
    BY <2>2, <2>5, <2>9 DEF SemInv, Values
  <2>11. Sleeping'
    <3> SUFFICES ASSUME NEW r \in Proc, wait_state'[r] = "WT_USEM"
                 PROVE  (waits_for[r] \in Sem /\ r \in Queued(waits_for[r]))'
      BY DEF Sleeping
    <3>1. CASE r = p
      <4>1. p \in Queued(s)'
        BY <2>5
      <4> QED BY <2>6, <3>1, <4>1 DEF Queued
    <3>2. CASE r # p
      <4>1. PICK m \in Sem : m = waits_for[r] /\ r \in Queued(m)
        BY <2>6, <3>2 DEF SemInv, Sleeping
      <4>2. r \in Queued(m)' /\ waits_for'[r] = m
        BY <2>5, <2>6, <3>2, <4>1
      <4> QED BY <4>1, <4>2 DEF Queued
    <3> QED BY <3>1, <3>2
  <2> QED BY <1>1, <2>5, <2>7, <2>8, <2>10, <2>11 DEF SemInv
<1> QED BY <1>2, <1>3 DEF ipc_sem_wait

\* __down after schedule(): the process is in no queue any more.
LEMMA SemDownReturns ==
  ASSUME SemConstants, SemInv, NEW p \in Proc, sem_down_returns(p)
  PROVE  SemInv'
<1>0. /\ waits_for[p] # None /\ wait_state[p] = "none"
      /\ waits_for' = [waits_for EXCEPT ![p] = None]
      /\ timer' = timer \ {p}
      /\ UNCHANGED <<sem_value, valid, count, semu_list, sem_queue, wait_state, sem_wakeup_flags, sem_panic>>
  BY DEF sem_down_returns
<1>1. PICK s \in Sem : s = waits_for[p]
  BY <1>0 DEF SemInv, SemTypeOK
<1>2. PICK w : w = Without(sem_wait_queue[s], p)
  OBVIOUS
<1>3. sem_wait_queue' = [sem_wait_queue EXCEPT ![s] = w]
  BY <1>1, <1>2 DEF sem_down_returns
<1>4. IsQueueIn(w, Proc) /\ Range(w) = Queued(s) \ {p}
  BY <1>2, DropFromQueue DEF SemInv, SemQueues, Queued
<1>5. /\ sem_wait_queue' \in [Sem -> Seq(Proc)] /\ SemQueues'
      /\ Queued(s)' = Queued(s) \ {p} /\ \A r \in Sem \ {s} : Queued(r)' = Queued(r)
  BY <1>3, <1>4, QueueChanged
<1>6. \A r \in Sem : p \notin Queued(r)' /\ Queued(r)' \subseteq Queued(r)
  <2>1. \A r \in Sem \ {s} : p \notin Queued(r)
    BY <1>1 DEF SemInv, Waiters
  <2> QED BY <1>5, <2>1
<1>7. \A r \in Proc \ {p} : waits_for'[r] = waits_for[r]
  BY <1>0 DEF SemInv, SemTypeOK
<1>8. SemTypeOK'
  BY <1>0, <1>5 DEF SemInv, SemTypeOK
<1>9. Waiters'
  <2> SUFFICES ASSUME NEW r \in Sem, NEW m \in Queued(r)'
               PROVE  /\ m \in Proc /\ waits_for'[m] = r
                      /\ sem_wakeup_flags'[m] = "WT_INTERRUPTED" /\ valid'[r]
                      /\ sem_queue'[m] \in Table /\ r \in semu_list'[sem_queue'[m]]
    BY DEF Waiters
  <2>1. m \in Queued(r) /\ m # p
    BY <1>6
  <2> QED BY <1>0, <1>7, <2>1 DEF SemInv, Waiters
<1>10. Values'
  BY <1>0, <1>6 DEF SemInv, Values
<1>11. Sleeping'
  <2> SUFFICES ASSUME NEW r \in Proc, wait_state'[r] = "WT_USEM"
               PROVE  (waits_for[r] \in Sem /\ r \in Queued(waits_for[r]))'
    BY DEF Sleeping
  <2>1. r # p /\ wait_state[r] = "WT_USEM"
    BY <1>0
  <2>2. PICK m \in Sem : m = waits_for[r] /\ r \in Queued(m)
    BY <2>1 DEF SemInv, Sleeping
  <2>3. r \in Queued(m)' /\ waits_for'[r] = m
    BY <1>5, <1>7, <2>1, <2>2
  <2> QED BY <2>2, <2>3 DEF Queued
<1>12. Counts'
  BY <1>0 DEF SemInv, Counts, Listing
<1> QED BY <1>5, <1>8, <1>9, <1>10, <1>11, <1>12 DEF SemInv

\* ipc_sem_free wakes whoever waits and empties the queue.
LEMMA Frees ==
  ASSUME SemConstants, SemInv, NEW p \in Proc, NEW s \in Sem, ipc_sem_free(p, s)
  PROVE  SemInv'
<1>0. /\ valid' = [valid EXCEPT ![s] = FALSE]
      /\ sem_wait_queue' = [sem_wait_queue EXCEPT ![s] = <<>>]
      /\ wait_state' = [q \in Proc |-> IF q \in Queued(s) THEN "none" ELSE wait_state[q]]
      /\ UNCHANGED <<sem_value, count, semu_list, sem_queue, waits_for, sem_wakeup_flags, timer, sem_panic>>
  BY DEF ipc_sem_free, SemFreeWakes, Queued
<1>1. /\ sem_wait_queue' \in [Sem -> Seq(Proc)] /\ SemQueues'
      /\ Queued(s)' = {} /\ \A r \in Sem \ {s} : Queued(r)' = Queued(r)
  BY <1>0, NoQueue, QueueChanged
<1>2. valid' \in [Sem -> BOOLEAN] /\ \A r \in Sem \ {s} : valid'[r] = valid[r]
  <2>1. valid \in [Sem -> BOOLEAN]
    BY DEF SemInv, SemTypeOK
  <2> QED BY <1>0, <2>1
<1>3. SemTypeOK'
  BY <1>0, <1>1, <1>2 DEF SemInv, SemTypeOK
<1>4. Waiters'
  <2> SUFFICES ASSUME NEW r \in Sem, NEW m \in Queued(r)'
               PROVE  /\ m \in Proc /\ waits_for'[m] = r
                      /\ sem_wakeup_flags'[m] = "WT_INTERRUPTED" /\ valid'[r]
                      /\ sem_queue'[m] \in Table /\ r \in semu_list'[sem_queue'[m]]
    BY DEF Waiters
  <2>1. r # s /\ m \in Queued(r)
    BY <1>1
  <2> QED BY <1>0, <1>2, <2>1 DEF SemInv, Waiters
<1>5. Values'
  BY <1>0, <1>1 DEF SemInv, Values
<1>6. Sleeping'
  <2> SUFFICES ASSUME NEW r \in Proc, wait_state'[r] = "WT_USEM"
               PROVE  (waits_for[r] \in Sem /\ r \in Queued(waits_for[r]))'
    BY DEF Sleeping
  <2>1. wait_state[r] = "WT_USEM" /\ r \notin Queued(s)
    BY <1>0
  <2>2. PICK m \in Sem : m = waits_for[r] /\ r \in Queued(m)
    BY <2>1 DEF SemInv, Sleeping
  <2>3. r \in Queued(m)' /\ waits_for'[r] = m
    BY <1>0, <1>1, <2>1, <2>2
  <2> QED BY <2>2, <2>3 DEF Queued
<1>7. Counts'
  BY <1>0 DEF SemInv, Counts, Listing
<1> QED BY <1>1, <1>3, <1>4, <1>5, <1>6, <1>7 DEF SemInv

\* ipc_sem_init: memory without entries has no waiters, so that the new queue
\* forgets nobody.
LEMMA Creates ==
  ASSUME SemConstants, SemInv, NEW p \in Proc, NEW s \in Sem, NEW v \in -1..MaxValue,
         ipc_sem_init(p, s, v)
  PROVE  SemInv'
<1>0. /\ sem_queue[p] \in Table /\ count[s] = 0
      /\ sem_value' = [sem_value EXCEPT ![s] = v]
      /\ valid' = [valid EXCEPT ![s] = TRUE]
      /\ sem_wait_queue' = [sem_wait_queue EXCEPT ![s] = <<>>]
      /\ count' = [count EXCEPT ![s] = 1]
      /\ semu_list' = [semu_list EXCEPT ![sem_queue[p]] = @ \cup {s}]
      /\ UNCHANGED <<sem_queue, procVars>>
  BY DEF ipc_sem_init, InUser, SemInv, SemTypeOK
<1>1. UNCHANGED <<waits_for, wait_state, sem_wakeup_flags, timer, sem_panic>>
  BY <1>0 DEF procVars
<1>2. PICK t \in Table : t = sem_queue[p]
  BY <1>0
<1>3. Listing(s) = {}
  <2>1. IsFiniteSet(Listing(s)) /\ Cardinality(Listing(s)) = 0
    BY <1>0, CountType DEF Listing, SemInv, Counts
  <2> QED BY <2>1, FS_EmptySet
<1>4. Queued(s) = {}
  BY <1>3 DEF SemInv, Waiters, Listing
<1>5. /\ sem_wait_queue' \in [Sem -> Seq(Proc)] /\ SemQueues' /\ \A r \in Sem : Queued(r)' = Queued(r)
  BY <1>0, <1>4, NoQueue, QueueChanged
<1>6. /\ semu_list' \in [Table -> SUBSET Sem]
      /\ semu_list'[t] = semu_list[t] \cup {s}
      /\ \A u \in Table \ {t} : semu_list'[u] = semu_list[u]
  BY <1>0, <1>2 DEF SemInv, SemTypeOK
<1>7. /\ valid' \in [Sem -> BOOLEAN] /\ valid'[s] /\ \A r \in Sem \ {s} : valid'[r] = valid[r]
  <2>1. valid \in [Sem -> BOOLEAN]
    BY DEF SemInv, SemTypeOK
  <2> QED BY <1>0, <2>1
<1>8. Listing(s)' = {t} /\ \A r \in Sem \ {s} : Listing(r)' = Listing(r)
  BY <1>3, <1>6 DEF Listing
<1>9. Counts'
  <2>1. count'[s] = 1 /\ \A r \in Sem \ {s} : count'[r] = count[r]
    BY <1>0 DEF SemInv, SemTypeOK
  <2>2. Cardinality({t}) = 1
    BY FS_Singleton
  <2>3. \A r \in Sem : count'[r] = Cardinality(Listing(r)')
    BY <1>8, <2>1, <2>2 DEF SemInv, Counts
  <2>4. \A u \in Table : (\A r \in Proc : sem_queue'[r] # u) => semu_list'[u] = {}
    BY <1>0, <1>2, <1>6 DEF SemInv, Counts
  <2> QED BY <2>3, <2>4 DEF Counts, Listing
<1>10. SemTypeOK'
  <2>1. Cardinality({t}) \in 0..Cardinality(Table) /\ Cardinality({t}) = 1
    BY CountType, FS_Singleton
  <2>2. count' \in [Sem -> 0..Cardinality(Table)]
    BY <1>0, <2>1 DEF SemInv, SemTypeOK
  <2>3. sem_value' \in [Sem -> -1..MaxValue]
    BY <1>0 DEF SemInv, SemTypeOK
  <2> QED BY <1>0, <1>1, <1>5, <1>6, <1>7, <2>2, <2>3 DEF SemInv, SemTypeOK
<1>11. Waiters'
  <2> SUFFICES ASSUME NEW r \in Sem, NEW m \in Queued(r)'
               PROVE  /\ m \in Proc /\ waits_for'[m] = r
                      /\ sem_wakeup_flags'[m] = "WT_INTERRUPTED" /\ valid'[r]
                      /\ sem_queue'[m] \in Table /\ r \in semu_list'[sem_queue'[m]]
    BY DEF Waiters
  <2>1. m \in Queued(r) /\ r # s
    BY <1>4, <1>5
  <2>2. /\ m \in Proc /\ waits_for[m] = r
        /\ sem_wakeup_flags[m] = "WT_INTERRUPTED" /\ valid[r]
        /\ sem_queue[m] \in Table /\ r \in semu_list[sem_queue[m]]
    BY <2>1 DEF SemInv, Waiters
  <2> QED BY <1>0, <1>1, <1>6, <1>7, <2>1, <2>2
<1>12. Values'
  <2>1. \A r \in Sem \ {s} : sem_value'[r] = sem_value[r]
    BY <1>0 DEF SemInv, SemTypeOK
  <2> QED BY <1>4, <1>5, <2>1 DEF SemInv, Values
<1>13. Sleeping'
  BY <1>1, <1>5 DEF SemInv, Sleeping
<1> QED BY <1>5, <1>9, <1>10, <1>11, <1>12, <1>13 DEF SemInv

\* A step that only changes entries and tables keeps the invariant if the
\* entries are counted and those of the waiters are kept.
LEMMA Relists ==
  ASSUME SemConstants, SemInv,
         UNCHANGED <<sem_value, valid, sem_wait_queue, procVars>>,
         sem_queue' \in [Proc -> Table \cup {None}],
         semu_list' \in [Table -> SUBSET Sem],
         count' \in [Sem -> Int],
         Counts',
         \A s \in Sem : \A p \in Queued(s) :
           sem_queue'[p] = sem_queue[p] /\ s \in semu_list'[sem_queue[p]]
  PROVE  SemInv'
<1>1. UNCHANGED <<sem_value, valid, sem_wait_queue, waits_for, wait_state, sem_wakeup_flags, timer, sem_panic>>
  BY DEF procVars
<1>2. count' \in [Sem -> 0..Cardinality(Table)]
  <2>1. \A s \in Sem : Listing(s)' \in SUBSET Table
    BY DEF Listing
  <2>2. \A s \in Sem : Cardinality(Listing(s)') \in 0..Cardinality(Table)
    BY <2>1, CountType
  <2>3. \A s \in Sem : count'[s] = Cardinality(Listing(s)')
    BY DEF Counts, Listing
  <2> QED BY <2>2, <2>3
<1>3. SemTypeOK'
  BY <1>1, <1>2 DEF SemInv, SemTypeOK
<1>4. SemQueues' /\ Values' /\ Sleeping'
  BY <1>1 DEF SemInv, SemQueues, Values, Sleeping, Queued
<1>5. Waiters'
  BY <1>1 DEF SemInv, Waiters, Queued
<1> QED BY <1>3, <1>4, <1>5 DEF SemInv

\* A process in user mode, or a free slot, is in no wait queue.
LEMMA UserWaitsNot ==
  ASSUME SemConstants, SemInv, NEW p \in Proc, waits_for[p] = None \/ sem_queue[p] = None
  PROVE  \A s \in Sem : p \notin Queued(s)
BY DEF SemConstants, SemInv, Waiters

\* semu_destroy counts the entries it removes.
LEMMA Destroys ==
  ASSUME SemConstants, SemInv, NEW t \in Table, NEW S \in SUBSET semu_list[t],
         semu_destroy(t, S)
  PROVE  /\ semu_list' \in [Table -> SUBSET Sem] /\ count' \in [Sem -> Int]
         /\ semu_list'[t] = semu_list[t] \ S
         /\ \A u \in Table \ {t} : semu_list'[u] = semu_list[u]
         /\ \A s \in Sem : count'[s] = Cardinality(Listing(s)')
<1>1. /\ semu_list' \in [Table -> SUBSET Sem]
      /\ semu_list'[t] = semu_list[t] \ S
      /\ \A u \in Table \ {t} : semu_list'[u] = semu_list[u]
  BY DEF SemInv, SemTypeOK, semu_destroy
<1>2. /\ count' = [s \in Sem |-> IF s \in S THEN count[s] - 1 ELSE count[s]]
      /\ \A s \in Sem : count[s] \in Int
  BY SMTT(30) DEF SemInv, SemTypeOK, semu_destroy
<1>3. count' \in [Sem -> Int]
  BY <1>2, SMTT(30)
<1>4. ASSUME NEW s \in Sem
      PROVE  count'[s] = Cardinality(Listing(s)')
  <2>1. IsFiniteSet(Listing(s)) /\ count[s] = Cardinality(Listing(s))
    BY CountType DEF SemInv, Counts, Listing
  <2>2. CASE s \in S
    <3>1. t \in Listing(s) /\ Listing(s)' = Listing(s) \ {t}
      BY <1>1, <2>2 DEF Listing
    <3>2. Cardinality(Listing(s) \ {t}) = Cardinality(Listing(s)) - 1
      BY <2>1, <3>1, FS_RemoveElement
    <3> QED BY <1>2, <2>1, <2>2, <3>1, <3>2
  <2>3. CASE s \notin S
    <3>1. Listing(s)' = Listing(s)
      BY <1>1, <2>3 DEF Listing
    <3> QED BY <1>2, <2>1, <2>3, <3>1
  <2> QED BY <2>2, <2>3
<1> QED BY <1>1, <1>3, <1>4

\* semu_list_search destroys an entry of a freed semaphore: nobody waits for it.
LEMMA SearchesFreed ==
  ASSUME SemConstants, SemInv, NEW p \in Proc, NEW s \in Sem, semu_list_search_freed(p, s)
  PROVE  SemInv'
<1>0. /\ sem_queue[p] # None /\ s \in semu_list[sem_queue[p]] /\ ~valid[s]
      /\ semu_destroy(sem_queue[p], {s})
      /\ UNCHANGED <<sem_value, valid, sem_wait_queue, sem_queue, procVars>>
  BY DEF semu_list_search_freed, Listed, InUser
<1>1. PICK t \in Table : t = sem_queue[p]
  BY <1>0 DEF SemInv, SemTypeOK
<1>2. /\ semu_list' \in [Table -> SUBSET Sem] /\ count' \in [Sem -> Int]
      /\ semu_list'[t] = semu_list[t] \ {s}
      /\ \A u \in Table \ {t} : semu_list'[u] = semu_list[u]
      /\ \A r \in Sem : count'[r] = Cardinality(Listing(r)')
  BY <1>0, <1>1, Destroys
<1>3. Counts'
  <2>1. \A u \in Table : (\A r \in Proc : sem_queue'[r] # u) => semu_list'[u] = {}
    BY <1>0, <1>1, <1>2 DEF SemInv, Counts
  <2> QED BY <1>2, <2>1 DEF Counts, Listing
<1>4. \A r \in Sem : \A q \in Queued(r) :
        sem_queue'[q] = sem_queue[q] /\ r \in semu_list'[sem_queue[q]]
  <2> SUFFICES ASSUME NEW r \in Sem, NEW q \in Queued(r)
               PROVE  r \in semu_list'[sem_queue[q]]
    BY <1>0
  <2>1. r # s /\ sem_queue[q] \in Table /\ r \in semu_list[sem_queue[q]]
    BY <1>0 DEF SemInv, Waiters
  <2> QED BY <1>2, <2>1
<1>5. sem_queue' \in [Proc -> Table \cup {None}]
  BY <1>0 DEF SemInv, SemTypeOK
<1> QED BY <1>0, <1>2, <1>3, <1>4, <1>5, Relists

\* do_fork with CLONE_SEM.
LEMMA SharesTable ==
  ASSUME SemConstants, SemInv, NEW p \in Proc, NEW q \in Proc, do_fork_shared(p, q)
  PROVE  SemInv'
<1>0. /\ sem_queue[p] # None /\ sem_queue[q] = None
      /\ sem_queue' = [sem_queue EXCEPT ![q] = sem_queue[p]]
      /\ UNCHANGED <<sem_value, valid, sem_wait_queue, count, semu_list, procVars>>
  BY DEF do_fork_shared, InUser
<1>1. /\ sem_queue' \in [Proc -> Table \cup {None}]
      /\ \A r \in Proc \ {q} : sem_queue'[r] = sem_queue[r]
  BY <1>0 DEF SemInv, SemTypeOK
<1>2. /\ semu_list' \in [Table -> SUBSET Sem] /\ count' \in [Sem -> Int]
  BY <1>0, SMTT(30) DEF SemInv, SemTypeOK
<1>3. Counts'
  <2>1. \A u \in Table : (\A r \in Proc : sem_queue'[r] # u) => semu_list'[u] = {}
    BY <1>0, <1>1 DEF SemInv, Counts, SemConstants
  <2> QED BY <1>0, <2>1 DEF SemInv, Counts, Listing
<1>4. \A s \in Sem : \A r \in Queued(s) :
        sem_queue'[r] = sem_queue[r] /\ s \in semu_list'[sem_queue[r]]
  <2>1. \A s \in Sem : q \notin Queued(s)
    BY <1>0, UserWaitsNot
  <2> QED BY <1>0, <1>1, <2>1, SMTT(30) DEF SemInv, Waiters
<1> QED BY <1>0, <1>1, <1>2, <1>3, <1>4, Relists

\* A table that no process uses is empty.
LEMMA FreeTable ==
  ASSUME SemInv, NEW t \in FreeTables
  PROVE  t \in Table /\ semu_list[t] = {} /\ \A p \in Proc : sem_queue[p] # t
BY DEF FreeTables, Users, SemInv, Counts

\* do_fork without CLONE_SEM: the entries of the new table are counted.
LEMMA CopiesTable ==
  ASSUME SemConstants, SemInv, NEW p \in Proc, NEW q \in Proc, NEW t \in Table,
         do_fork_copied(p, q, t)
  PROVE  SemInv'
<1>0. PICK S : S = {s \in semu_list[sem_queue[p]] : valid[s]}
  OBVIOUS
<1>1. /\ sem_queue[p] # None /\ sem_queue[q] = None /\ t \in FreeTables
      /\ semu_list' = [semu_list EXCEPT ![t] = S]
      /\ count' = [s \in Sem |-> IF s \in S THEN count[s] + 1 ELSE count[s]]
      /\ sem_queue' = [sem_queue EXCEPT ![q] = t]
      /\ UNCHANGED <<sem_value, valid, sem_wait_queue, procVars>>
  BY <1>0 DEF do_fork_copied, InUser, dup_sem_queue
<1>2. S \subseteq Sem
  <2>1. sem_queue[p] \in Table
    BY <1>1 DEF SemInv, SemTypeOK
  <2> QED BY <1>0, <2>1 DEF SemInv, SemTypeOK
<1>3. semu_list[t] = {} /\ \A r \in Proc : sem_queue[r] # t
  BY <1>1, FreeTable
<1>4. /\ semu_list' \in [Table -> SUBSET Sem]
      /\ semu_list'[t] = S
      /\ \A u \in Table \ {t} : semu_list'[u] = semu_list[u]
  BY <1>1, <1>2 DEF SemInv, SemTypeOK
<1>5. /\ sem_queue' \in [Proc -> Table \cup {None}] /\ sem_queue'[q] = t
      /\ \A r \in Proc \ {q} : sem_queue'[r] = sem_queue[r]
  BY <1>1 DEF SemInv, SemTypeOK
<1>6. count' \in [Sem -> Int]
  BY <1>1, SMTT(30) DEF SemInv, SemTypeOK
<1>7. ASSUME NEW s \in Sem
      PROVE  count'[s] = Cardinality(Listing(s)')
  <2>1. IsFiniteSet(Listing(s)) /\ count[s] = Cardinality(Listing(s))
    BY CountType DEF SemInv, Counts, Listing
  <2>2. CASE s \in S
    <3>1. t \notin Listing(s) /\ Listing(s)' = Listing(s) \cup {t}
      BY <1>3, <1>4, <2>2 DEF Listing
    <3>2. Cardinality(Listing(s) \cup {t}) = Cardinality(Listing(s)) + 1
      BY <2>1, <3>1, FS_AddElement
    <3> QED BY <1>1, <2>1, <2>2, <3>1, <3>2
  <2>3. CASE s \notin S
    <3>1. Listing(s)' = Listing(s)
      BY <1>3, <1>4, <2>3 DEF Listing
    <3> QED BY <1>1, <2>1, <2>3, <3>1
  <2> QED BY <2>2, <2>3
<1>8. Counts'
  <2>1. ASSUME NEW u \in Table, \A r \in Proc : sem_queue'[r] # u
        PROVE  semu_list'[u] = {}
    <3>1. u # t /\ \A r \in Proc \ {q} : sem_queue[r] # u
      BY <1>5, <2>1
    <3>2. sem_queue[q] # u
      BY <1>1 DEF SemConstants
    <3> QED BY <1>4, <3>1, <3>2 DEF SemInv, Counts
  <2> QED BY <1>7, <2>1 DEF Counts, Listing
<1>9. \A s \in Sem : \A r \in Queued(s) :
        sem_queue'[r] = sem_queue[r] /\ s \in semu_list'[sem_queue[r]]
  <2>1. \A s \in Sem : q \notin Queued(s)
    BY <1>1, UserWaitsNot
  <2> QED BY <1>3, <1>4, <1>5, <2>1, SMTT(30) DEF SemInv, Waiters
<1> QED BY <1>1, <1>4, <1>5, <1>6, <1>8, <1>9, Relists

\* put_sem_queue in do_exit and do_execve: the last user destroys the entries,
\* which are those of no waiter; t is the new table, or None.
LEMMA PutsTable ==
  ASSUME SemConstants, SemInv, NEW p \in Proc, NEW t \in FreeTables \cup {None},
         InUser(p), put_sem_queue(p),
         sem_queue' = [sem_queue EXCEPT ![p] = t],
         UNCHANGED <<sem_value, valid, sem_wait_queue, procVars>>
  PROVE  SemInv'
<1>1. PICK old \in Table : old = sem_queue[p]
  BY DEF InUser, SemInv, SemTypeOK
<1>2. t # old /\ t \in Table \cup {None}
  BY <1>1, FreeTable DEF SemConstants
<1>3. /\ sem_queue' \in [Proc -> Table \cup {None}] /\ sem_queue'[p] = t
      /\ \A r \in Proc \ {p} : sem_queue'[r] = sem_queue[r]
  BY <1>2 DEF SemInv, SemTypeOK
<1>4. \A s \in Sem : p \notin Queued(s)
  BY UserWaitsNot DEF InUser
<1>5. CASE Users(old) = {p}
  <2>1. semu_destroy(old, semu_list[old])
    BY <1>1, <1>5 DEF put_sem_queue
  <2>2. /\ semu_list' \in [Table -> SUBSET Sem] /\ count' \in [Sem -> Int]
        /\ semu_list'[old] = {}
        /\ \A u \in Table \ {old} : semu_list'[u] = semu_list[u]
        /\ \A s \in Sem : count'[s] = Cardinality(Listing(s)')
    <3>1. PICK S \in SUBSET semu_list[old] : S = semu_list[old]
      OBVIOUS
    <3>2. semu_destroy(old, S)
      BY <2>1, <3>1
    <3>3. /\ semu_list' \in [Table -> SUBSET Sem] /\ count' \in [Sem -> Int]
          /\ semu_list'[old] = semu_list[old] \ S
          /\ \A u \in Table \ {old} : semu_list'[u] = semu_list[u]
          /\ \A s \in Sem : count'[s] = Cardinality(Listing(s)')
      BY <3>2, Destroys
    <3> QED BY <3>1, <3>3
  <2>3. \A r \in Proc \ {p} : sem_queue[r] # old
    BY <1>5 DEF Users
  <2>4. Counts'
    <3>1. ASSUME NEW u \in Table, \A r \in Proc : sem_queue'[r] # u
          PROVE  semu_list'[u] = {}
      <4>1. CASE u = old
        BY <2>2, <4>1
      <4>2. CASE u # old
        BY <1>1, <1>3, <2>2, <3>1, <4>2 DEF SemInv, Counts
      <4> QED BY <4>1, <4>2
    <3> QED BY <2>2, <3>1 DEF Counts, Listing
  <2>5. \A s \in Sem : \A r \in Queued(s) :
          sem_queue'[r] = sem_queue[r] /\ s \in semu_list'[sem_queue[r]]
    BY <1>3, <1>4, <2>2, <2>3, SMTT(30) DEF SemInv, Waiters
  <2> QED BY <1>3, <2>2, <2>4, <2>5, Relists
<1>6. CASE Users(old) # {p}
  <2>1. UNCHANGED <<semu_list, count>>
    BY <1>1, <1>6 DEF put_sem_queue
  <2>2. PICK o \in Proc \ {p} : sem_queue[o] = old
    BY <1>1, <1>6, SMTT(30) DEF Users
  <2>3. Counts'
    <3>1. ASSUME NEW u \in Table, \A r \in Proc : sem_queue'[r] # u
          PROVE  semu_list'[u] = {}
      <4>1. u # old
        BY <1>3, <2>2, <3>1
      <4>2. \A r \in Proc : sem_queue[r] # u
        BY <1>1, <1>3, <3>1, <4>1
      <4> QED BY <2>1, <4>2 DEF SemInv, Counts
    <3>2. \A s \in Sem : count'[s] = Cardinality(Listing(s)')
      BY <2>1 DEF SemInv, Counts, Listing
    <3> QED BY <3>1, <3>2 DEF Counts, Listing
  <2>4. \A s \in Sem : \A r \in Queued(s) :
          sem_queue'[r] = sem_queue[r] /\ s \in semu_list'[sem_queue[r]]
    BY <1>3, <1>4, <2>1, SMTT(30) DEF SemInv, Waiters
  <2>5. semu_list' \in [Table -> SUBSET Sem] /\ count' \in [Sem -> Int]
    BY <2>1, SMTT(30) DEF SemInv, SemTypeOK
  <2> QED BY <1>3, <2>3, <2>4, <2>5, Relists
<1> QED BY <1>5, <1>6

\* The invariant is inductive.
LEMMA SemSteps ==
  ASSUME SemConstants, SemInv, [SemNext]_sem_vars
  PROVE  SemInv'
<1>1. CASE UNCHANGED sem_vars
  <2>1. SemTypeOK'
    BY <1>1 DEF sem_vars, SemInv, SemTypeOK
  <2>2. SemQueues' /\ Waiters' /\ Values' /\ Sleeping'
    BY <1>1 DEF sem_vars, SemInv, SemQueues, Waiters, Values, Sleeping, Queued
  <2>3. Counts'
    BY <1>1 DEF sem_vars, SemInv, Counts, Listing
  <2> QED BY <2>1, <2>2, <2>3 DEF SemInv
<1>2. ASSUME NEW p \in Proc, SemCall(p)
      PROVE  SemInv'
  <2>1. PICK s \in Sem : \/ \E v \in -1..MaxValue : ipc_sem_init(p, s, v)
                         \/ semu_list_search_freed(p, s)
                         \/ ipc_sem_post(p, s) \/ ipc_sem_free(p, s)
                         \/ \E timed \in BOOLEAN : ipc_sem_wait(p, s, timed)
    BY <1>2 DEF SemCall
  <2> QED BY <2>1, Creates, SearchesFreed, Posts, Frees, Downs
<1>3. ASSUME NEW p \in Proc, TableCall(p)
      PROVE  SemInv'
  <2>1. ASSUME exit_sem_queue(p)
        PROVE  SemInv'
    BY <2>1, PutsTable DEF exit_sem_queue
  <2>2. ASSUME NEW t \in Table, do_execve(p, t)
        PROVE  SemInv'
    BY <2>2, PutsTable DEF do_execve
  <2> QED BY <1>3, <2>1, <2>2, SharesTable, CopiesTable DEF TableCall
<1>4. ASSUME NEW p \in Proc, SemTimeout(p) \/ SemInterrupt(p) \/ stop_proc(p)
      PROVE  SemInv'
  BY <1>4, Awakes DEF SemTimeout, SemInterrupt, stop_proc, wakeup_proc
<1> QED BY <1>1, <1>2, <1>3, <1>4, SemDownReturns DEF SemNext

\* The invariant holds at the start.
LEMMA SemStarts == ASSUME SemConstants, SemInit PROVE SemInv
<1>1. PICK p \in Proc, t \in Table : SemBoot([q \in Proc |-> IF q = p THEN t ELSE None])
  BY DEF SemInit
<1>2. [q \in Proc |-> IF q = p THEN t ELSE None] \in [Proc -> Table \cup {None}]
  OBVIOUS
<1> QED BY <1>1, <1>2, SemInitially

\* The invariant holds in every reachable state.
LEMMA SemInvariance == ASSUME SemConstants PROVE SemSpec => []SemInv
<1>1. SemInit => SemInv
  BY SemStarts
<1>2. SemInv /\ [SemNext]_sem_vars => SemInv'
  BY SemSteps
<1> QED BY <1>1, <1>2, PTL DEF SemSpec

(* ipc_sem_post: a unit never lies unused while a process waits for it, a  *)
(* process asleep in __down is in the queue of a semaphore without units,  *)
(* and one that was handed a unit is out of the queue, so that the next    *)
(* post goes to another one.                                               *)
THEOREM PostsAreExact == ASSUME SemConstants PROVE SemSpec => []PostsExact
<1>1. SemInv => PostsExact
  <2> SUFFICES ASSUME SemInv PROVE PostsExact
    OBVIOUS
  <2>1. \A s \in Sem : sem_value[s] > 0 => sem_wait_queue[s] = <<>>
    <3> SUFFICES ASSUME NEW s \in Sem, sem_value[s] > 0
                 PROVE  sem_wait_queue[s] = <<>>
      OBVIOUS
    <3>1. Range(sem_wait_queue[s]) = {} /\ IsQueueIn(sem_wait_queue[s], Proc)
      BY DEF SemInv, Values, SemQueues, Queued
    <3> QED BY <3>1, InQueue, SMTT(30)
  <2>2. ASSUME NEW p \in Proc, wait_state[p] = "WT_USEM"
        PROVE  p \in Range(sem_wait_queue[waits_for[p]]) /\ sem_value[waits_for[p]] <= 0
    <3>1. PICK s \in Sem : s = waits_for[p] /\ p \in Queued(s)
      BY <2>2 DEF SemInv, Sleeping
    <3>2. sem_value[s] <= 0
      <4>1. sem_value[s] \in Int
        BY SMTT(30) DEF SemInv, SemTypeOK
      <4>2. ~(sem_value[s] > 0)
        BY <3>1 DEF SemInv, Values
      <4> QED BY <4>1, <4>2, SMTT(30)
    <3> QED BY <3>1, <3>2 DEF Queued
  <2>3. ASSUME NEW p \in Proc, waits_for[p] # None, sem_wakeup_flags[p] = "WT_USEM"
        PROVE  wait_state[p] # "WT_USEM" /\ p \notin Range(sem_wait_queue[waits_for[p]])
    <3>1. PICK s \in Sem : s = waits_for[p]
      BY <2>3 DEF SemInv, SemTypeOK
    <3>2. p \notin Queued(s)
      BY <2>3, <3>1 DEF SemInv, Waiters
    <3> QED BY <3>1, <3>2 DEF SemInv, Sleeping, Queued
  <2> QED BY <2>1, <2>2, <2>3 DEF PostsExact
<1> QED BY <1>1, SemInvariance, PTL

(* semu_destroy, put_sem_queue: sem->count is the number of entries in all *)
(* tables, and a semaphore that a process waits for is valid and has an    *)
(* entry, so that its memory is not freed.  The fields keep their types.   *)
THEOREM MemoryIsHeld == ASSUME SemConstants PROVE SemSpec => []MemoryHeld
<1>1. SemInv => MemoryHeld
  <2> SUFFICES ASSUME SemInv, NEW s \in Sem
               PROVE  /\ count[s] = Cardinality(Listing(s))
                      /\ \A p \in Queued(s) : waits_for[p] = s /\ valid[s] /\ count[s] > 0
    BY DEF MemoryHeld, Listing, Queued, SemInv
  <2>1. IsFiniteSet(Listing(s)) /\ count[s] = Cardinality(Listing(s)) /\ count[s] \in Nat
    BY CountType, SMTT(30) DEF SemInv, Counts, Listing
  <2>2. ASSUME NEW p \in Queued(s)
        PROVE  waits_for[p] = s /\ valid[s] /\ Listing(s) # {}
    BY <2>2 DEF SemInv, Waiters, Listing
  <2>3. Listing(s) # {} => count[s] > 0
    BY <2>1, FS_EmptySet, SMTT(30)
  <2> QED BY <2>1, <2>2, <2>3
<1> QED BY <1>1, SemInvariance, PTL
=============================================================================
