---------------------------- MODULE SignalProofs ----------------------------
(***************************************************************************)
(* Proofs about signals (Signal, SignalMasks; process/signal.c and         *)
(* arch_signal.c), for any threads, signals, masks, actions and depth of   *)
(* the frames: TIF_SIGPENDING announces the signals of a thread, and       *)
(* handlers, sigreturn and sigsuspend leave every program with the mask    *)
(* that it chose.                                                          *)
(***************************************************************************)
EXTENDS SignalMasks, WellFoundedInduction, TLAPS

USE ZenonT(30)

-----------------------------------------------------------------------------
(* The signal that dequeue_signal takes first.                             *)

(* A set of numbers that is not empty has a smallest one.                  *)
LEMMA Smallest ==
  ASSUME NEW T \in SUBSET Nat, T # {}
  PROVE  \E x \in T : \A y \in T : x <= y
<1> DEFINE R == OpToRel(<, Nat)
<1>1. IsWellFoundedOn(R, Nat)
  BY NatLessThanWellFounded
<1>2. \A x, y \in Nat : x < y => <<x, y>> \in R
  BY DEF OpToRel
<1> HIDE DEF R
<1>3. PICK x \in T : \A y \in T : ~(<<y, x>> \in R)
  BY <1>1, WFMin
<1>4. ASSUME NEW y \in T PROVE x <= y
  <2>1. ~(y < x) /\ x \in Nat /\ y \in Nat
    BY <1>2, <1>3
  <2> QED BY <2>1, SMTT(30)
<1> QED BY <1>4

\* The order of the loop of do_signal: private signals before shared ones.
Before(x, y) == x[1] < y[1] \/ (x[1] = y[1] /\ x[2] <= y[2])

(* Of the signals that do_signal can take, one comes before all others.    *)
LEMMA FirstTaken ==
  ASSUME NEW R \in SUBSET ({0, 1} \X Nat), R # {}
  PROVE  \E x \in R : \A y \in R : Before(x, y)
<1> DEFINE T(i) == {s \in Nat : <<i, s>> \in R}
<1>0. ASSUME NEW y \in R
      PROVE  \E i \in {0, 1}, s \in Nat : y = <<i, s>> /\ s \in T(i)
  BY SMTT(30)
<1>1. ASSUME NEW i \in {0, 1}, T(i) # {}
      PROVE  \E s \in T(i) : \A t \in T(i) : s <= t
  <2>1. T(i) \in SUBSET Nat
    OBVIOUS
  <2> HIDE DEF T
  <2> QED BY <1>1, <2>1, Smallest
<1>2. CASE T(0) # {}
  <2>1. PICK s \in T(0) : \A t \in T(0) : s <= t
    BY <1>1, <1>2
  <2>2. ASSUME NEW y \in R PROVE Before(<<0, s>>, y)
    <3>1. PICK i \in {0, 1}, t \in Nat : y = <<i, t>> /\ t \in T(i)
      BY <1>0
    <3>2. CASE i = 0
      <4>1. s <= t
        BY <2>1, <3>1, <3>2
      <4> QED BY <3>1, <3>2, <4>1 DEF Before
    <3>3. CASE i = 1
      BY <3>1, <3>3, SMTT(30) DEF Before
    <3> QED BY <3>2, <3>3
  <2> QED BY <2>1, <2>2
<1>3. CASE T(0) = {}
  <2>1. \A y \in R : \E t \in Nat : y = <<1, t>> /\ t \in T(1)
    BY <1>0, <1>3
  <2>2. T(1) # {}
    BY <2>1
  <2>3. PICK s \in T(1) : \A t \in T(1) : s <= t
    BY <1>1, <2>2
  <2>4. ASSUME NEW y \in R PROVE Before(<<1, s>>, y)
    <3>1. PICK t \in Nat : y = <<1, t>> /\ t \in T(1)
      BY <2>1
    <3>2. s <= t
      BY <2>3, <3>1
    <3> QED BY <3>1, <3>2 DEF Before
  <2> QED BY <2>3, <2>4
<1> QED BY <1>2, <1>3

-----------------------------------------------------------------------------
\* The sigactions that a table may hold.
SigActions == [sa_handler : {"SIG_DFL", "SIG_IGN", "user"}, sa_mask : SUBSET Signals,
               nodefer : BOOLEAN, oneshot : BOOLEAN]

(* A one-shot handler is reset, and SIGKILL and SIGSTOP leave a mask.      *)
LEMMA ActionChanged ==
  ASSUME NEW a \in SigActions, NEW m \in SUBSET Signals
  PROVE  /\ [a EXCEPT !.sa_handler = "SIG_DFL"] \in SigActions
         /\ [a EXCEPT !.sa_mask = m] \in SigActions
<1>1. [a EXCEPT !.sa_handler = "SIG_DFL"] \in SigActions
  BY DEF SigActions
<1>2. [a EXCEPT !.sa_mask = m] \in SigActions
  BY DEF SigActions
<1> QED BY <1>1, <1>2

\* The types of what the flag is computed from.
Typed ==
  /\ pending \in [Thread -> SUBSET Signals]
  /\ shared \in [Thread -> SUBSET Signals]
  /\ blocked \in [Thread -> SUBSET Signals]
  /\ flag \in [Thread -> BOOLEAN]
  /\ action \in [Signals -> SigActions]
  /\ frames \in [Thread -> Seq(SUBSET Signals)]
  /\ saved \in [Thread -> (SUBSET Signals) \cup {NoMask}]

(* The inductive invariant.  The types are needed because NoMask must      *)
(* not be a mask of a program: saved tells a thread in do_sigsuspend.      *)
IInv == Typed /\ FlagKept

(* A thread starts with no signals and an empty mask.                      *)
LEMMA Initially == SignalConstants => (SigInit => IInv)
  BY SMTT(30) DEF SigInit, IInv, Typed, FlagKept, SigActions, Default, NoMask

(* What a round of do_signal does to the queues, the mask and the flag,    *)
(* whichever signals it takes: the flag is computed from the queues that   *)
(* are left and the mask that the handler gets.                            *)
LEMMA Taken ==
  ASSUME SignalConstants, IInv, NEW p \in Thread, Loop(p)
  PROVE  \/ Gone(p, Alive \ {p})
         \/ \E pend \in SUBSET pending[p], shar \in SUBSET shared[p] :
              /\ pending' = [pending EXCEPT ![p] = pend]
              /\ shared' = [shared EXCEPT ![p] = shar]
              /\ \/ flag' = flag /\ pend = pending[p] /\ UNCHANGED <<blocked, saved>>
                 \/ flag' = [flag EXCEPT ![p] = (pend \cup shar) \ blocked'[p] # {}]
              /\ \/ UNCHANGED <<blocked, action, frames, saved>>
                 \/ /\ saved' = [saved EXCEPT ![p] = NoMask]
                    /\ action' \in [Signals -> SigActions]
                    /\ \/ UNCHANGED <<blocked, frames>>
                       \/ /\ frames' = [frames EXCEPT ![p] = <<Old(p)>> \o @]
                          /\ \E m \in SUBSET Signals : blocked' = [blocked EXCEPT ![p] = m]
<1> DEFINE q == {<<0, s>> : s \in Seen(pending[p] \ blocked[p])}
                  \cup {<<1, s>> : s \in Seen(shared[p] \ blocked[p])}
           real == {x \in q : Effect(x[2]) # "none"}
           first == CHOOSE x \in real : \A y \in real : Before(x, y)
           taken == IF real = {} THEN q ELSE {x \in q : Before(x, first)}
           pend == pending[p] \ {x[2] : x \in {y \in taken : y[1] = 0}}
           shar == shared[p] \ {x[2] : x \in {y \in taken : y[1] = 1}}
           act == action[first[2]]
           mask == IF act.nodefer THEN blocked[p]
                   ELSE blocked[p] \cup act.sa_mask \cup {first[2]}
           Dequeue == /\ pending' = [pending EXCEPT ![p] = pend]
                      /\ shared' = [shared EXCEPT ![p] = shar]
           Flagged(m) == flag' = [flag EXCEPT ![p] = IF q = {} THEN @
                                                     ELSE Recalc(p, pend \cup shar, m)]
<1>1. \/ /\ real = {} /\ Dequeue /\ Flagged(blocked[p])
         /\ UNCHANGED <<blocked, action, frames, saved>>
      \/ Gone(p, Alive \ {p})
      \/ /\ real # {} /\ Dequeue /\ Flagged(blocked[p])
         /\ UNCHANGED <<blocked, action, frames, saved>>
      \/ /\ real # {} /\ Dequeue
         /\ saved' = [saved EXCEPT ![p] = NoMask]
         /\ action' = IF act.oneshot THEN [action EXCEPT ![first[2]].sa_handler = "SIG_DFL"]
                      ELSE action
         /\ \/ /\ frames' = [frames EXCEPT ![p] = <<Old(p)>> \o @]
               /\ blocked' = [blocked EXCEPT ![p] = mask]
               /\ Flagged(mask)
            \/ Flagged(blocked[p]) /\ UNCHANGED <<blocked, frames>>
  BY DEF Loop, Before
<1>2. pend \in SUBSET pending[p] /\ shar \in SUBSET shared[p]
  OBVIOUS
<1>3. q = {} => pend = pending[p]
  OBVIOUS
<1>4. blocked[p] \in SUBSET Signals
  BY DEF IInv, Typed
<1>5. ASSUME real # {}
      PROVE  first[2] \in Signals /\ q # {} /\ mask \in SUBSET Signals
  <2>1. q \in SUBSET ({0, 1} \X Signals)
    BY SMTT(30) DEF IInv, Typed, Seen
  <2>2. Signals \subseteq Nat
    BY SMTT(30) DEF SignalConstants
  <2>3. real \in SUBSET ({0, 1} \X Nat) /\ real \in SUBSET ({0, 1} \X Signals)
    BY <2>1, <2>2
  <2> HIDE DEF q, real
  <2>4. \E x \in real : \A y \in real : Before(x, y)
    BY <1>5, <2>3, FirstTaken
  <2>5. first \in real
    BY <2>4
  <2> HIDE DEF first
  <2>6. first[2] \in Signals
    BY <2>3, <2>5
  <2>7. act.sa_mask \in SUBSET Signals
    BY <2>6 DEF IInv, Typed, SigActions
  <2>8. mask \in SUBSET Signals
    BY <1>4, <2>6, <2>7
  <2>9. q # {}
    BY <1>5 DEF real
  <2> QED BY <2>6, <2>8, <2>9
<1>6. ASSUME real # {}
      PROVE  (IF act.oneshot THEN [action EXCEPT ![first[2]].sa_handler = "SIG_DFL"]
              ELSE action) \in [Signals -> SigActions]
  <2>1. first[2] \in Signals
    BY <1>5, <1>6
  <2> HIDE DEF first
  <2>2. [action[first[2]] EXCEPT !.sa_handler = "SIG_DFL"] \in SigActions
    BY <2>1, ActionChanged DEF IInv, Typed
  <2> QED BY <2>1, <2>2 DEF IInv, Typed
<1>7. ASSUME NEW m, Flagged(m)
      PROVE  /\ q = {} => flag' = flag
             /\ q # {} => flag' = [flag EXCEPT ![p] = (pend \cup shar) \ m # {}]
  <2> HIDE DEF q, pend, shar
  <2> QED BY <1>7 DEF Recalc, IInv, Typed
<1> HIDE DEF q, real, first, pend, shar, mask, Flagged
<1>8. p \in DOMAIN blocked
  BY DEF IInv, Typed
<1>9. CASE /\ Dequeue /\ Flagged(blocked[p])
           /\ UNCHANGED <<blocked, action, frames, saved>>
  BY <1>2, <1>3, <1>7, <1>9
<1>10. CASE Gone(p, Alive \ {p})
  BY <1>10
<1>11. CASE /\ real # {} /\ Dequeue
            /\ saved' = [saved EXCEPT ![p] = NoMask]
            /\ action' = IF act.oneshot THEN [action EXCEPT ![first[2]].sa_handler = "SIG_DFL"]
                         ELSE action
            /\ \/ /\ frames' = [frames EXCEPT ![p] = <<Old(p)>> \o @]
                  /\ blocked' = [blocked EXCEPT ![p] = mask]
                  /\ Flagged(mask)
               \/ Flagged(blocked[p]) /\ UNCHANGED <<blocked, frames>>
  <2>1. q # {} /\ mask \in SUBSET Signals /\ action' \in [Signals -> SigActions]
    BY <1>5, <1>6, <1>11
  <2>2. CASE /\ frames' = [frames EXCEPT ![p] = <<Old(p)>> \o @]
             /\ blocked' = [blocked EXCEPT ![p] = mask]
             /\ Flagged(mask)
    <3>1. blocked'[p] = mask
      BY <1>8, <2>2
    <3>2. flag' = [flag EXCEPT ![p] = (pend \cup shar) \ blocked'[p] # {}]
      BY <1>7, <2>1, <2>2, <3>1
    <3> QED BY <1>2, <1>11, <2>1, <2>2, <3>2
  <2>3. CASE Flagged(blocked[p]) /\ UNCHANGED <<blocked, frames>>
    BY <1>2, <1>7, <1>11, <2>1, <2>3
  <2> QED BY <1>11, <2>2, <2>3
<1> QED BY <1>1, <1>9, <1>10, <1>11

(* do_signal keeps the invariant, unless the signal ends the thread.       *)
LEMMA Loops ==
  ASSUME SignalConstants, IInv, NEW p \in Thread, Loop(p), ~Gone(p, Alive \ {p})
  PROVE  IInv'
<1> USE DEF IInv, Typed
<1>1. PICK pend \in SUBSET pending[p], shar \in SUBSET shared[p] :
        /\ pending' = [pending EXCEPT ![p] = pend]
        /\ shared' = [shared EXCEPT ![p] = shar]
        /\ \/ flag' = flag /\ pend = pending[p] /\ UNCHANGED <<blocked, saved>>
           \/ flag' = [flag EXCEPT ![p] = (pend \cup shar) \ blocked'[p] # {}]
        /\ \/ UNCHANGED <<blocked, action, frames, saved>>
           \/ /\ saved' = [saved EXCEPT ![p] = NoMask]
              /\ action' \in [Signals -> SigActions]
              /\ \/ UNCHANGED <<blocked, frames>>
                 \/ /\ frames' = [frames EXCEPT ![p] = <<Old(p)>> \o @]
                    /\ \E m \in SUBSET Signals : blocked' = [blocked EXCEPT ![p] = m]
  BY Taken
<1>2. Old(p) \in SUBSET Signals
  BY DEF Old
<1>3. <<Old(p)>> \o frames[p] \in Seq(SUBSET Signals)
  BY <1>2, SMTT(30)
<1>4. flag' \in [Thread -> BOOLEAN]
  BY <1>1
<1>5. /\ pending' \in [Thread -> SUBSET Signals] /\ shared' \in [Thread -> SUBSET Signals]
      /\ blocked' \in [Thread -> SUBSET Signals] /\ action' \in [Signals -> SigActions]
      /\ saved' \in [Thread -> (SUBSET Signals) \cup {NoMask}]
  <2>1. pending' \in [Thread -> SUBSET Signals] /\ shared' \in [Thread -> SUBSET Signals]
    BY <1>1
  <2>2. blocked' \in [Thread -> SUBSET Signals]
    BY <1>1
  <2>3. saved' \in [Thread -> (SUBSET Signals) \cup {NoMask}]
    BY <1>1
  <2>4. action' \in [Signals -> SigActions]
    BY <1>1
  <2> QED BY <2>1, <2>2, <2>3, <2>4
<1>6. frames' \in [Thread -> Seq(SUBSET Signals)]
  BY <1>1, <1>3
<1>7. FlagKept'
  <2> SUFFICES ASSUME NEW r \in Thread, saved'[r] = NoMask, pending'[r] \ blocked'[r] # {}
               PROVE  flag'[r]
    BY DEF FlagKept
  <2>1. CASE r # p
    <3>1. /\ saved'[r] = saved[r] /\ pending'[r] = pending[r] /\ blocked'[r] = blocked[r]
          /\ flag'[r] = flag[r]
      BY <1>1, <2>1
    <3> QED BY <3>1 DEF FlagKept
  <2>2. CASE r = p
    <3>1. pending'[p] = pend
      BY <1>1
    <3>2. CASE flag' = flag /\ pend = pending[p] /\ UNCHANGED <<blocked, saved>>
      BY <2>2, <3>1, <3>2 DEF FlagKept
    <3>3. CASE flag' = [flag EXCEPT ![p] = (pend \cup shar) \ blocked'[p] # {}]
      <4>1. (pend \cup shar) \ blocked'[p] # {}
        BY <2>2, <3>1
      <4> QED BY <2>2, <3>3, <4>1
    <3> QED BY <1>1, <3>2, <3>3
  <2> QED BY <2>1, <2>2
<1> QED BY <1>4, <1>5, <1>6, <1>7

(* The stack of a thread that leaves holds no frame.                       *)
LEMMA EmptySeqOf ==
  ASSUME NEW S
  PROVE  <<>> \in Seq(S)
  BY SMTT(30)

(* A thread that exits has no signals left (__do_exit).                    *)
LEMMA Ends ==
  ASSUME SignalConstants, IInv, NEW p \in Thread, NEW S, Gone(p, S)
  PROVE  IInv'
<1> USE DEF IInv, Typed, Gone
<1>1. flag' \in [Thread -> BOOLEAN]
  OBVIOUS
<1>2. /\ pending' \in [Thread -> SUBSET Signals] /\ shared' \in [Thread -> SUBSET Signals]
      /\ blocked' \in [Thread -> SUBSET Signals] /\ action' \in [Signals -> SigActions]
      /\ saved' \in [Thread -> (SUBSET Signals) \cup {NoMask}]
  OBVIOUS
<1>3. frames' \in [Thread -> Seq(SUBSET Signals)]
  BY EmptySeqOf
<1>4. FlagKept'
  BY DEF FlagKept
<1> QED BY <1>1, <1>2, <1>3, <1>4

(* specific_send_sig_info puts a signal in a queue and raises the flag if  *)
(* the thread does not block it.                                           *)
LEMMA SendsOne ==
  ASSUME SignalConstants, IInv, NEW s \in Signals, NEW q \in Thread, specific_send(s, q),
         UNCHANGED <<shared, blocked, action, frames, saved>>
  PROVE  IInv'
<1> USE DEF IInv, Typed, specific_send
<1>1. CASE UNCHANGED <<pending, flag>>
  BY <1>1 DEF FlagKept
<1>2. CASE /\ pending' = [pending EXCEPT ![q] = @ \cup {s}]
           /\ s \in blocked[q] /\ UNCHANGED flag
  <2>1. pending' \in [Thread -> SUBSET Signals]
    BY <1>2
  <2>2. FlagKept'
    BY <1>2 DEF FlagKept
  <2> QED BY <1>2, <2>1, <2>2
<1>3. CASE /\ pending' = [pending EXCEPT ![q] = @ \cup {s}]
           /\ flag' = [flag EXCEPT ![q] = TRUE]
  <2>1. pending' \in [Thread -> SUBSET Signals]
    BY <1>3
  <2>2. flag' \in [Thread -> BOOLEAN]
    BY <1>3
  <2>3. FlagKept'
    BY <1>3 DEF FlagKept
  <2> QED BY <2>1, <2>2, <2>3
<1> QED BY <1>1, <1>2, <1>3 DEF signal_wakeup

(* group_send_sig_info: handle_stop_signal removes signals and computes    *)
(* the flags again, and one more thread is told.                           *)
LEMMA SendsGroup ==
  ASSUME SignalConstants, IInv, NEW s \in Signals, NEW q \in Thread, group_send(s, q),
         UNCHANGED <<blocked, action, frames, saved>>
  PROVE  IInv'
<1> DEFINE mine == IF current \in Thread THEN Alive ELSE {}
           pend == [p \in Thread |-> IF p \in mine THEN pending[p] \ CancelsPrivate(s)
                                     ELSE pending[p]]
           left == [shared EXCEPT ![q] = @ \ Cancels(s)]
           f == [p \in Thread |-> IF p \in mine /\ Cancels(s) # {}
                                  THEN Recalc(p, pend[p] \cup left[p], blocked[p])
                                  ELSE flag[p]]
<1>1. /\ pending' = pend
      /\ shared' = left \/ shared' = [left EXCEPT ![q] = @ \cup {s}]
      /\ flag' = f \/ \E t \in Picks(s, q, f) : flag' = [f EXCEPT ![t] = TRUE]
  BY DEF group_send, signal_wakeup
<1>2. pend \in [Thread -> SUBSET Signals] /\ left \in [Thread -> SUBSET Signals]
  BY DEF IInv, Typed
<1>3. shared' \in [Thread -> SUBSET Signals]
  <2> HIDE DEF pend, left, f
  <2>1. [left EXCEPT ![q] = @ \cup {s}] \in [Thread -> SUBSET Signals]
    BY <1>2
  <2> QED BY <1>1, <1>2, <2>1
<1>4. f \in [Thread -> BOOLEAN]
  BY DEF IInv, Typed, Recalc
<1>5. ASSUME NEW p \in Thread, saved[p] = NoMask, pend[p] \ blocked[p] # {}
      PROVE  f[p]
  <2>1. CASE p \in mine /\ Cancels(s) # {}
    BY <1>5, <2>1 DEF Recalc
  <2>2. CASE ~(p \in mine /\ Cancels(s) # {})
    <3>1. f[p] = flag[p] /\ pend[p] \subseteq pending[p]
      BY <2>2
    <3> QED BY <1>5, <3>1 DEF IInv, FlagKept
  <2> QED BY <2>1, <2>2
<1> HIDE DEF pend, left, f
<1>6. flag' \in [Thread -> BOOLEAN]
  BY <1>1, <1>4
<1>7. FlagKept'
  BY <1>1, <1>4, <1>5 DEF FlagKept
<1> QED BY <1>1, <1>2, <1>3, <1>6, <1>7 DEF IInv, Typed

(* Steps that leave the signals alone keep the invariant.                  *)
LEMMA Resting ==
  ASSUME IInv, UNCHANGED sigs
  PROVE  IInv'
  BY DEF IInv, Typed, FlagKept, sigs

(* A thread gets another mask, by sigprocmask or sigreturn.                *)
LEMMA NewMask ==
  ASSUME IInv, NEW p \in Thread, NEW m \in SUBSET Signals,
         blocked' = [blocked EXCEPT ![p] = m],
         flag' = [flag EXCEPT ![p] = Recalc(p, pending[p] \cup shared[p], m)],
         UNCHANGED <<pending, shared, action, saved>>,
         frames' \in [Thread -> Seq(SUBSET Signals)]
  PROVE  IInv'
<1> USE DEF IInv, Typed
<1>1. flag' \in [Thread -> BOOLEAN]
  BY DEF Recalc
<1>2. blocked' \in [Thread -> SUBSET Signals]
  OBVIOUS
<1>3. FlagKept'
  BY DEF FlagKept, Recalc
<1> QED BY <1>1, <1>2, <1>3

(* do_sigsuspend changes the mask without a look at the queues; saved      *)
(* tells that it did.                                                      *)
LEMMA Suspends ==
  ASSUME SignalConstants, IInv, NEW p \in Thread, NEW m \in Masks, do_sigsuspend(p, m)
  PROVE  IInv'
<1> USE DEF IInv, Typed, do_sigsuspend
<1>1. Blockable(m) \in SUBSET Signals
  BY DEF SignalConstants, Blockable
<1>2. blocked' \in [Thread -> SUBSET Signals] /\ saved' \in [Thread -> (SUBSET Signals) \cup {NoMask}]
  BY <1>1
<1>3. saved'[p] # NoMask
  BY SMTT(30) DEF NoMask, SignalConstants
<1>4. FlagKept'
  BY <1>3 DEF FlagKept
<1> QED BY <1>2, <1>4

(* do_sigaction, which drops the signals that are now ignored.             *)
LEMMA Installs ==
  ASSUME SignalConstants, IInv, NEW p \in Thread, NEW s \in Signals, NEW a \in Actions,
         do_sigaction(p, s, a)
  PROVE  IInv'
<1> USE DEF IInv, Typed
<1>0. PICK drop \in SUBSET {s} :
        /\ action' = [action EXCEPT ![s] = [a EXCEPT !.sa_mask = Blockable(@)]]
        /\ pending' = [q \in Thread |-> IF q \in Alive THEN pending[q] \ drop ELSE pending[q]]
        /\ shared' = [shared EXCEPT ![p] = @ \ drop]
        /\ flag' = [q \in Thread |->
                      IF Ignores(s, a) /\ q \in Alive
                      THEN Recalc(q, pending'[q] \cup shared'[q], blocked[q])
                      ELSE flag[q]]
        /\ UNCHANGED <<blocked, frames, saved>>
  BY DEF do_sigaction
<1>1. [a EXCEPT !.sa_mask = Blockable(@)] \in SigActions
  <2>1. a \in SigActions
    BY DEF SignalConstants, SigActions
  <2>2. Blockable(a.sa_mask) \in SUBSET Signals
    BY <2>1 DEF SigActions, Blockable
  <2> QED BY <2>1, <2>2, ActionChanged
<1>2. action' \in [Signals -> SigActions]
  BY <1>0, <1>1
<1>3. pending' \in [Thread -> SUBSET Signals] /\ shared' \in [Thread -> SUBSET Signals]
  BY <1>0
<1>4. flag' \in [Thread -> BOOLEAN]
  BY <1>0 DEF Recalc
<1>5. FlagKept'
  <2> SUFFICES ASSUME NEW q \in Thread, saved[q] = NoMask, pending'[q] \ blocked[q] # {}
               PROVE  flag'[q]
    BY <1>0 DEF FlagKept
  <2>1. CASE Ignores(s, a) /\ q \in Alive
    BY <1>0, <2>1 DEF Recalc
  <2>2. CASE ~(Ignores(s, a) /\ q \in Alive)
    <3>1. flag'[q] = flag[q] /\ pending'[q] \subseteq pending[q]
      BY <1>0, <2>2
    <3> QED BY <3>1 DEF FlagKept
  <2> QED BY <2>1, <2>2
<1> QED BY <1>0, <1>2, <1>3, <1>4, <1>5

(* Every step keeps the invariant.                                         *)
LEMMA Steps == SignalConstants /\ IInv /\ [SigNext]_sig_vars => IInv'
<1> SUFFICES ASSUME SignalConstants, IInv, [SigNext]_sig_vars PROVE IInv'
  OBVIOUS
<1>0. CASE UNCHANGED sig_vars
  BY <1>0, Resting DEF sig_vars, sigs
<1>1. ASSUME NEW p \in Thread, Loop(p) PROVE IInv'
  BY <1>1, Loops, Ends
<1>2. ASSUME NEW p \in Thread, SigKernel(p) PROVE IInv'
  BY <1>1, <1>2, Ends, Resting DEF SigKernel, trap_may_killed, do_signal, continued, return
<1>3. ASSUME NEW p \in Thread, Interrupt(p) \/ Schedule(p) PROVE IInv'
  BY <1>3, Resting DEF Interrupt, interrupt, Schedule, schedule
<1>4. ASSUME NEW p \in Thread, other_wakes(p) PROVE IInv'
  BY <1>4, Resting DEF other_wakes
<1>5. ASSUME NEW p \in Thread, do_sigreturn(p) PROVE IInv'
  <2>1. /\ frames[p] \in Seq(SUBSET Signals) /\ frames[p] # <<>>
        /\ frames' = [frames EXCEPT ![p] = Tail(@)]
    BY <1>5 DEF do_sigreturn, IInv, Typed
  <2>2. frames[p][1] \in SUBSET Signals /\ Tail(frames[p]) \in Seq(SUBSET Signals)
    BY <2>1, SMTT(30)
  <2>3. frames' \in [Thread -> Seq(SUBSET Signals)]
    BY <2>1, <2>2 DEF IInv, Typed
  <2> QED BY <1>5, <2>2, <2>3, NewMask DEF do_sigreturn
<1>6. ASSUME NEW p \in Thread, NEW s \in Signals, NEW q \in Thread, Send(s, q) PROVE IInv'
  BY <1>6, SendsOne, SendsGroup DEF Send
<1>7. ASSUME NEW p \in Thread, Calls(p) PROVE IInv'
  <2>1. CASE sleep(p) \/ exit(p)
    BY <2>1, Resting, Ends DEF sleep, exit
  <2>2. ASSUME NEW m \in Masks, do_sigprocmask(p, m) PROVE IInv'
    <3>1. Blockable(m) \in SUBSET Signals
      BY DEF SignalConstants, Blockable
    <3>2. frames' \in [Thread -> Seq(SUBSET Signals)]
      BY <2>2 DEF do_sigprocmask, IInv, Typed
    <3> QED BY <2>2, <3>1, <3>2, NewMask DEF do_sigprocmask
  <2>3. ASSUME NEW m \in Masks, do_sigsuspend(p, m) PROVE IInv'
    BY <2>3, Suspends
  <2>4. ASSUME NEW s \in Signals, NEW q \in Thread, kill(p, q, s) PROVE IInv'
    BY <1>6, <2>4 DEF kill
  <2>5. ASSUME NEW s \in Signals, other_kills(p, s) PROVE IInv'
    BY <1>6, <2>5 DEF other_kills
  <2>6. ASSUME NEW s \in Signals, NEW a \in Actions, do_sigaction(p, s, a) PROVE IInv'
    BY <2>6, Installs
  <2> QED BY <1>7, <2>1, <2>2, <2>3, <2>4, <2>5, <2>6 DEF Calls
<1>8. CASE Yield \/ schedule_other
  BY <1>8, Resting DEF Yield, other_yields, schedule_other
<1> QED
  BY <1>0, <1>2, <1>3, <1>4, <1>5, <1>7, <1>8 DEF SigNext

(* A signal that was sent to a thread itself and that it does not block is *)
(* announced by TIF_SIGPENDING (sig_recalc_pending), except while          *)
(* do_sigsuspend has exchanged the mask.                                   *)
THEOREM FlagCorrect ==
  ASSUME SignalConstants
  PROVE  SigSpec => []FlagKept
<1>1. SigInit => IInv
  BY Initially
<1>2. IInv /\ [SigNext]_sig_vars => IInv'
  BY Steps
<1>3. IInv => FlagKept
  BY DEF IInv
<1> QED BY <1>1, <1>2, <1>3, PTL DEF SigSpec

-----------------------------------------------------------------------------
\* Where a thread can be.
Places == {"user", "trap", "call", "signal", "suspend", "stop", "gone"}

(* The masks that the program of p chose are where the kernel will find    *)
(* them: the latest is the current one or the one that do_sigsuspend has   *)
(* set aside, and each frame holds the one before it.                      *)
Framed(p) ==
  /\ own[p] \in Seq(SUBSET Signals) /\ Len(own[p]) = Len(frames[p]) + 1
  /\ \A i \in 1..Len(frames[p]) : frames[p][i] = own[p][i + 1]
  /\ Old(p) = own[p][1]
  /\ at[p] \in {"user", "trap", "call", "signal", "gone"} => saved[p] = NoMask
  /\ at[p] = "gone" => own[p] = <<{}>>

\* The inductive invariant of the masks.
MaskInv == IInv /\ at \in [Thread -> Places] /\ \A p \in Thread : Framed(p)

(* Every program starts with the empty mask.                               *)
LEMMA MaskInitially == SignalConstants => (MaskInit => MaskInv)
<1> SUFFICES ASSUME SignalConstants, MaskInit PROVE MaskInv
  OBVIOUS
<1>1. IInv
  BY Initially DEF MaskInit
<1>2. at \in [Thread -> Places]
  BY DEF MaskInit, SigInit, Places
<1>3. ASSUME NEW p \in Thread PROVE Framed(p)
  <2>1. /\ own[p] = <<{}>> /\ frames[p] = <<>> /\ saved[p] = NoMask /\ blocked[p] = {}
        /\ at[p] = "signal"
    BY DEF MaskInit, SigInit
  <2> QED BY <2>1, SMTT(30) DEF Framed, Old
<1> QED BY <1>1, <1>2, <1>3 DEF MaskInv

(* The frames that are left when the latest one has gone.                  *)
LEMMA TailParts ==
  ASSUME NEW T, NEW q \in Seq(T), q # <<>>
  PROVE  /\ Tail(q) \in Seq(T) /\ Len(q) \in Nat \ {0} /\ Len(Tail(q)) = Len(q) - 1
         /\ \A i \in 1..Len(q) - 1 : Tail(q)[i] = q[i + 1]
BY SMTT(30)

(* The frames when another one is put on top.                              *)
LEMMA PushParts ==
  ASSUME NEW T, NEW q \in Seq(T), NEW x \in T
  PROVE  /\ <<x>> \o q \in Seq(T) /\ Len(q) \in Nat /\ Len(<<x>> \o q) = Len(q) + 1
         /\ (<<x>> \o q)[1] = x
         /\ \A i \in 1..Len(q) : (<<x>> \o q)[i + 1] = q[i]
BY SMTT(30)

(* The thread p replaces the mask that it chose last.                      *)
LEMMA Replaces ==
  ASSUME IInv', NEW p \in Thread, Framed(p),
         frames[p] \in Seq(SUBSET Signals), frames'[p] = frames[p], saved'[p] = NoMask,
         own'[p] = <<blocked'[p]>> \o Tail(own[p]), at'[p] # "gone"
  PROVE  Framed(p)'
<1>1. blocked'[p] \in SUBSET Signals
  BY DEF IInv, Typed
<1>2. own[p] \in Seq(SUBSET Signals) /\ Len(own[p]) = Len(frames[p]) + 1 /\ Len(frames[p]) \in Nat
  BY SMTT(30) DEF Framed
<1>3. own[p] # <<>>
  BY <1>2, SMTT(30)
<1>4. /\ Tail(own[p]) \in Seq(SUBSET Signals) /\ Len(Tail(own[p])) = Len(frames[p])
      /\ \A i \in 1..Len(frames[p]) : Tail(own[p])[i] = own[p][i + 1]
  BY <1>2, <1>3, TailParts, SMTT(30)
<1>5. /\ own'[p] \in Seq(SUBSET Signals) /\ Len(own'[p]) = Len(frames[p]) + 1
      /\ own'[p][1] = blocked'[p]
      /\ \A i \in 1..Len(frames[p]) : own'[p][i + 1] = Tail(own[p])[i]
  BY <1>1, <1>4, PushParts, SMTT(30)
<1>6. \A i \in 1..Len(frames[p]) : frames[p][i] = own'[p][i + 1]
  BY <1>4, <1>5 DEF Framed
<1> QED BY <1>5, <1>6 DEF Framed, Old

(* What a step remembers of the masks of one thread.                       *)
LEMMA Remembers ==
  ASSUME Remember, NEW p \in Thread
  PROVE  /\ at'[p] = "gone" => own'[p] = <<{}>>
         /\ at'[p] # "gone" /\ Len(frames'[p]) > Len(frames[p]) =>
              own'[p] = <<blocked'[p]>> \o own[p]
         /\ at'[p] # "gone" /\ ~(Len(frames'[p]) > Len(frames[p])) =>
              /\ Len(frames'[p]) < Len(frames[p]) => own'[p] = Tail(own[p])
              /\ ~(Len(frames'[p]) < Len(frames[p])) =>
                   /\ (at[p] = "user" /\ at'[p] = "trap") \/ (saved[p] # NoMask /\ saved'[p] = NoMask) =>
                        own'[p] = <<blocked'[p]>> \o Tail(own[p])
                   /\ ~(at[p] = "user" /\ at'[p] = "trap") /\ ~(saved[p] # NoMask /\ saved'[p] = NoMask) =>
                        own'[p] = own[p]
BY DEF Remember

(* The masks of the thread p stay as they are.                             *)
LEMMA Keeps ==
  ASSUME IInv', Remember, NEW p \in Thread, Framed(p),
         frames[p] \in Seq(SUBSET Signals),
         frames'[p] = frames[p], saved'[p] = saved[p], blocked'[p] = blocked[p],
         \/ at'[p] = at[p]
         \/ /\ at'[p] # "gone"
            /\ at'[p] \in {"user", "trap", "call", "signal"} => saved[p] = NoMask
  PROVE  Framed(p)'
<1>1. ~(Len(frames'[p]) > Len(frames[p])) /\ ~(Len(frames'[p]) < Len(frames[p]))
  BY SMTT(30)
<1>2. CASE at'[p] = "gone"
  <2>1. own'[p] = own[p]
    BY <1>2, Remembers DEF Framed
  <2> QED BY <1>2, <2>1 DEF Framed, Old
<1>3. CASE at'[p] # "gone" /\ at[p] = "user" /\ at'[p] = "trap"
  <2>1. own'[p] = <<blocked'[p]>> \o Tail(own[p])
    BY <1>1, <1>3, Remembers
  <2>2. saved'[p] = NoMask
    BY <1>3 DEF Framed
  <2> QED BY <1>3, <2>1, <2>2, Replaces
<1>4. CASE at'[p] # "gone" /\ ~(at[p] = "user" /\ at'[p] = "trap")
  <2>1. own'[p] = own[p]
    BY <1>1, <1>4, Remembers
  <2> QED BY <1>4, <2>1 DEF Framed, Old
<1> QED BY <1>2, <1>3, <1>4

(* Only the thread p moves or gets another mask.                           *)
LEMMA OthersKeep ==
  ASSUME MaskInv, IInv', Remember, NEW p \in Thread, NEW w \in Places, Move(p, w),
         \A r \in Thread \ {p} : /\ frames'[r] = frames[r] /\ saved'[r] = saved[r]
                                 /\ blocked'[r] = blocked[r],
         Framed(p)'
  PROVE  MaskInv'
<1>1. at' \in [Thread -> Places]
  BY DEF MaskInv, Move
<1>2. ASSUME NEW r \in Thread \ {p} PROVE Framed(r)'
  <2>1. at'[r] = at[r] /\ frames[r] \in Seq(SUBSET Signals) /\ Framed(r)
    BY DEF MaskInv, Move, IInv, Typed
  <2> QED BY <2>1, Keeps
<1> QED BY <1>1, <1>2 DEF MaskInv

(* A step that changes no mask and no frame.                               *)
LEMMA Moves ==
  ASSUME MaskInv, IInv', Remember, UNCHANGED <<frames, saved, blocked>>,
         \/ UNCHANGED at
         \/ \E p \in Thread, w \in Places \ {"gone"} :
              /\ Move(p, w)
              /\ w \in {"user", "trap", "call", "signal"} => saved[p] = NoMask
  PROVE  MaskInv'
<1>0. \A p \in Thread : frames[p] \in Seq(SUBSET Signals) /\ Framed(p)
  BY DEF MaskInv, IInv, Typed
<1>1. CASE UNCHANGED at
  BY <1>0, <1>1, Keeps DEF MaskInv
<1>2. ASSUME NEW p \in Thread, NEW w \in Places \ {"gone"}, Move(p, w),
             w \in {"user", "trap", "call", "signal"} => saved[p] = NoMask
      PROVE  MaskInv'
  <2>1. at'[p] = w
    BY <1>2 DEF MaskInv, Move
  <2>2. Framed(p)'
    BY <1>0, <1>2, <2>1, Keeps
  <2> QED BY <1>2, <2>2, OthersKeep
<1> QED BY <1>1, <1>2

(* A thread that exits gives up its masks.                                 *)
LEMMA EndsMasks ==
  ASSUME MaskInv, IInv', Remember, NEW p \in Thread, NEW S, Gone(p, S)
  PROVE  MaskInv'
<1>1. /\ at'[p] = "gone" /\ frames'[p] = <<>> /\ saved'[p] = NoMask /\ blocked'[p] = {}
      /\ Move(p, "gone")
  <2>1. /\ at \in [Thread -> Places]
        /\ DOMAIN frames = Thread /\ DOMAIN saved = Thread /\ DOMAIN blocked = Thread
    BY DEF MaskInv, IInv, Typed
  <2> QED BY <2>1 DEF Gone, Move
<1>2. own'[p] = <<{}>>
  BY <1>1, Remembers
<1>3. Framed(p)'
  BY <1>1, <1>2, SMTT(30) DEF Framed, Old
<1>4. \A r \in Thread \ {p} : /\ frames'[r] = frames[r] /\ saved'[r] = saved[r]
                              /\ blocked'[r] = blocked[r]
  BY SMTT(30) DEF Gone, IInv, Typed
<1> QED BY <1>1, <1>3, <1>4, OthersKeep DEF Places

(* Where do_signal leaves the thread: it sleeps again in do_sigsuspend,    *)
(* returns to user mode, stops, or starts a handler.                       *)
LEMMA LoopMoves ==
  ASSUME SignalConstants, IInv, NEW p \in Thread, Loop(p)
  PROVE  \/ Gone(p, Alive \ {p})
         \/ /\ UNCHANGED <<blocked, frames, saved>>
            /\ \E w \in {"user", "suspend", "stop"} :
                 Move(p, w) /\ (w = "user" => saved[p] = NoMask)
         \/ /\ saved' = [saved EXCEPT ![p] = NoMask]
            /\ \E w \in {"user", "trap"} : Move(p, w)
            /\ \/ UNCHANGED <<blocked, frames>>
               \/ /\ frames' = [frames EXCEPT ![p] = <<Old(p)>> \o @]
                  /\ \E m : blocked' = [blocked EXCEPT ![p] = m]
  BY DEF Loop

(* A handler starts with a mask of its own, and its frame holds the one    *)
(* the program chose before, also during do_sigsuspend.                    *)
LEMMA LoopMasks ==
  ASSUME SignalConstants, MaskInv, IInv', Remember, NEW p \in Thread, Loop(p)
  PROVE  MaskInv'
<1>0. Framed(p) /\ frames[p] \in Seq(SUBSET Signals) /\ at[p] \in Places
  BY DEF MaskInv, IInv, Typed
<1>1. CASE Gone(p, Alive \ {p})
  BY <1>1, EndsMasks
<1>2. CASE /\ UNCHANGED <<blocked, frames, saved>>
           /\ \E w \in {"user", "suspend", "stop"} :
                Move(p, w) /\ (w = "user" => saved[p] = NoMask)
  BY <1>2, Moves DEF Places
<1>3. ASSUME saved' = [saved EXCEPT ![p] = NoMask],
             NEW w \in {"user", "trap"}, Move(p, w),
             \/ UNCHANGED <<blocked, frames>>
             \/ /\ frames' = [frames EXCEPT ![p] = <<Old(p)>> \o @]
                /\ \E m : blocked' = [blocked EXCEPT ![p] = m]
      PROVE  MaskInv'
  <2>1. at'[p] = w /\ saved'[p] = NoMask
    BY <1>3 DEF Move, MaskInv, IInv, Typed
  <2>2. \A r \in Thread \ {p} : /\ frames'[r] = frames[r] /\ saved'[r] = saved[r]
                                /\ blocked'[r] = blocked[r]
    BY <1>3 DEF MaskInv, IInv, Typed
  <2>3. CASE UNCHANGED <<blocked, frames>>
    <3>1. CASE saved[p] = NoMask
      BY <1>0, <2>1, <2>3, <3>1, Keeps, <1>3, <2>2, OthersKeep DEF Places
    <3>2. CASE saved[p] # NoMask
      <4>1. own'[p] = <<blocked'[p]>> \o Tail(own[p])
        BY <2>1, <2>3, <3>2, Remembers, SMTT(30)
      <4>2. Framed(p)'
        BY <1>0, <2>1, <2>3, <4>1, Replaces
      <4> QED BY <1>3, <2>2, <4>2, OthersKeep DEF Places
    <3> QED BY <3>1, <3>2
  <2>4. CASE frames' = [frames EXCEPT ![p] = <<Old(p)>> \o @]
    <3>1. frames'[p] = <<Old(p)>> \o frames[p]
      BY <2>4 DEF MaskInv, IInv, Typed
    <3>2. Old(p) \in SUBSET Signals
      BY DEF MaskInv, IInv, Typed, Old
    <3>3. /\ Len(frames'[p]) = Len(frames[p]) + 1 /\ Len(frames[p]) \in Nat
          /\ frames'[p][1] = Old(p)
          /\ \A i \in 1..Len(frames[p]) : frames'[p][i + 1] = frames[p][i]
      BY <1>0, <3>1, <3>2, PushParts, SMTT(30)
    <3>4. own'[p] = <<blocked'[p]>> \o own[p]
      <4>1. at'[p] # "gone" /\ Len(frames'[p]) > Len(frames[p])
        BY <2>1, <3>3, SMTT(30)
      <4> QED BY <4>1, Remembers
    <3>5. blocked'[p] \in SUBSET Signals /\ own[p] \in Seq(SUBSET Signals)
      BY <1>0 DEF IInv, Typed, Framed
    <3>6. /\ own'[p] \in Seq(SUBSET Signals) /\ Len(own'[p]) = Len(own[p]) + 1
          /\ own'[p][1] = blocked'[p]
          /\ \A i \in 1..Len(own[p]) : own'[p][i + 1] = own[p][i]
      BY <3>4, <3>5, PushParts, SMTT(30)
    <3>7. ASSUME NEW i \in 1..Len(frames'[p]) PROVE frames'[p][i] = own'[p][i + 1]
      <4>1. Len(own[p]) = Len(frames[p]) + 1
        BY <1>0 DEF Framed
      <4>2. own'[p][i + 1] = own[p][i]
        BY <3>3, <3>6, <4>1
      <4>3. CASE i = 1
        BY <1>0, <3>3, <4>2, <4>3 DEF Framed
      <4>4. CASE i # 1
        <5>1. PICK j \in 1..Len(frames[p]) : i = j + 1
          <6>1. i - 1 \in 1..Len(frames[p]) /\ i = (i - 1) + 1
            BY <3>3, <4>4, SMTT(30)
          <6> QED BY <6>1
        <5>2. frames'[p][i] = frames[p][j]
          BY <3>3, <5>1
        <5>3. own[p][i] = frames[p][j]
          BY <1>0, <5>1 DEF Framed
        <5> QED BY <4>2, <5>2, <5>3
      <4> QED BY <4>3, <4>4
    <3>8. Framed(p)'
      BY <1>0, <2>1, <3>3, <3>6, <3>7 DEF Framed, Old
    <3> QED BY <1>3, <2>2, <3>8, OthersKeep DEF Places
  <2> QED BY <1>3, <2>3, <2>4
<1> QED BY <1>1, <1>2, <1>3, LoopMoves DEF MaskInv

(* do_sigreturn takes the mask before from the frame.                      *)
LEMMA ReturnMasks ==
  ASSUME MaskInv, IInv', Remember, NEW p \in Thread, do_sigreturn(p)
  PROVE  MaskInv'
<1>0. Framed(p) /\ frames[p] \in Seq(SUBSET Signals) /\ frames[p] # <<>>
  BY DEF MaskInv, IInv, Typed, do_sigreturn
<1>1. /\ at[p] = "user" /\ Move(p, "trap") /\ at'[p] = "trap"
      /\ blocked'[p] = frames[p][1] /\ frames'[p] = Tail(frames[p]) /\ saved'[p] = saved[p]
  BY DEF do_sigreturn, SigCall, Move, MaskInv, IInv, Typed
<1>2. \A r \in Thread \ {p} : /\ frames'[r] = frames[r] /\ saved'[r] = saved[r]
                              /\ blocked'[r] = blocked[r]
  BY DEF do_sigreturn, MaskInv, IInv, Typed
<1>3. /\ Len(frames'[p]) = Len(frames[p]) - 1 /\ Len(frames[p]) \in Nat \ {0}
      /\ \A i \in 1..Len(frames[p]) - 1 : frames'[p][i] = frames[p][i + 1]
  BY <1>0, <1>1, TailParts
<1>4. own'[p] = Tail(own[p])
  <2>1. ~(Len(frames'[p]) > Len(frames[p])) /\ Len(frames'[p]) < Len(frames[p])
    BY <1>3, SMTT(30)
  <2> QED BY <1>1, <2>1, Remembers
<1>5. /\ own[p] \in Seq(SUBSET Signals) /\ own[p] # <<>> /\ Len(own[p]) = Len(frames[p]) + 1
  BY <1>0, <1>3, SMTT(30) DEF Framed
<1>6. /\ own'[p] \in Seq(SUBSET Signals) /\ Len(own'[p]) = Len(frames[p])
      /\ \A i \in 1..Len(frames[p]) : own'[p][i] = own[p][i + 1]
  <2>1. /\ Tail(own[p]) \in Seq(SUBSET Signals) /\ Len(Tail(own[p])) = Len(own[p]) - 1
        /\ \A i \in 1..Len(own[p]) - 1 : Tail(own[p])[i] = own[p][i + 1]
    BY <1>5, TailParts
  <2>2. Len(own[p]) - 1 = Len(frames[p])
    BY <1>3, <1>5, SMTT(30)
  <2> QED BY <1>4, <2>1, <2>2
<1>7. ASSUME NEW i \in 1..Len(frames[p]) - 1 PROVE frames'[p][i] = own'[p][i + 1]
  <2>1. PICK j \in 1..Len(frames[p]) : j = i + 1
    BY <1>3, SMTT(30)
  <2>2. frames'[p][i] = frames[p][j]
    BY <1>3, <2>1
  <2>3. own'[p][j] = own[p][j + 1] /\ frames[p][j] = own[p][j + 1]
    BY <1>0, <1>6, <2>1 DEF Framed
  <2> QED BY <2>1, <2>2, <2>3
<1>8. own'[p][1] = frames[p][1] /\ saved[p] = NoMask
  <2>1. 1 \in 1..Len(frames[p])
    BY <1>3, SMTT(30)
  <2>2. frames[p][1] = own[p][1 + 1] /\ saved[p] = NoMask
    BY <1>0, <1>1, <2>1 DEF Framed
  <2> QED BY <1>6, <2>1, <2>2
<1>9. Framed(p)'
  <2>1. Len(own'[p]) = Len(frames'[p]) + 1
    BY <1>3, <1>6, SMTT(30)
  <2>2. \A i \in 1..Len(frames'[p]) : frames'[p][i] = own'[p][i + 1]
    BY <1>3, <1>7
  <2>3. Old(p)' = own'[p][1]
    BY <1>1, <1>8 DEF Old
  <2> QED BY <1>1, <1>6, <1>8, <2>1, <2>2, <2>3 DEF Framed
<1> QED BY <1>1, <1>2, <1>9, OthersKeep DEF Places

(* do_sigsuspend sets the program's mask aside.                            *)
LEMMA SuspendMasks ==
  ASSUME SignalConstants, MaskInv, IInv', Remember, NEW p \in Thread, NEW m,
         do_sigsuspend(p, m)
  PROVE  MaskInv'
<1>0. Framed(p) /\ frames[p] \in Seq(SUBSET Signals) /\ blocked[p] \in SUBSET Signals
  BY DEF MaskInv, IInv, Typed
<1>1. /\ at[p] = "user" /\ Move(p, "suspend") /\ at'[p] = "suspend"
      /\ frames'[p] = frames[p] /\ saved'[p] = blocked[p]
  BY DEF do_sigsuspend, Move, MaskInv, IInv, Typed
<1>2. \A r \in Thread \ {p} : /\ frames'[r] = frames[r] /\ saved'[r] = saved[r]
                              /\ blocked'[r] = blocked[r]
  BY DEF do_sigsuspend, MaskInv, IInv, Typed
<1>3. saved'[p] # NoMask /\ saved[p] = NoMask /\ blocked[p] = own[p][1]
  <2>1. saved'[p] # NoMask
    BY <1>0, <1>1, SMTT(30) DEF NoMask, SignalConstants
  <2>2. saved[p] = NoMask /\ Old(p) = own[p][1]
    BY <1>0, <1>1 DEF Framed
  <2> QED BY <2>1, <2>2 DEF Old
<1>4. own'[p] = own[p]
  <2>1. ~(Len(frames'[p]) > Len(frames[p])) /\ ~(Len(frames'[p]) < Len(frames[p]))
    BY <1>0, <1>1, SMTT(30)
  <2>2. ~(at[p] = "user" /\ at'[p] = "trap") /\ ~(saved[p] # NoMask /\ saved'[p] = NoMask)
    BY <1>1, <1>3
  <2> QED BY <1>1, <2>1, <2>2, Remembers
<1>5. Framed(p)'
  BY <1>0, <1>1, <1>3, <1>4 DEF Framed, Old
<1> QED BY <1>1, <1>2, <1>5, OthersKeep DEF Places

(* do_sigprocmask: the program chooses a mask.                             *)
LEMMA ChosenMasks ==
  ASSUME MaskInv, IInv', Remember, NEW p \in Thread, NEW m, do_sigprocmask(p, m)
  PROVE  MaskInv'
<1>0. Framed(p) /\ frames[p] \in Seq(SUBSET Signals)
  BY DEF MaskInv, IInv, Typed
<1>1. /\ at[p] = "user" /\ Move(p, "trap") /\ at'[p] = "trap"
      /\ frames'[p] = frames[p] /\ saved'[p] = saved[p]
  BY DEF do_sigprocmask, SigCall, Move, MaskInv
<1>2. \A r \in Thread \ {p} : /\ frames'[r] = frames[r] /\ saved'[r] = saved[r]
                              /\ blocked'[r] = blocked[r]
  BY DEF do_sigprocmask, MaskInv, IInv, Typed
<1>3. own'[p] = <<blocked'[p]>> \o Tail(own[p])
  <2>1. ~(Len(frames'[p]) > Len(frames[p])) /\ ~(Len(frames'[p]) < Len(frames[p]))
    BY <1>0, <1>1, SMTT(30)
  <2> QED BY <1>1, <2>1, Remembers
<1>4. Framed(p)'
  BY <1>0, <1>1, <1>3, Replaces DEF Framed
<1> QED BY <1>1, <1>2, <1>4, OthersKeep DEF Places

(* Every step keeps the masks where they belong.                           *)
LEMMA MaskSteps == SignalConstants /\ MaskInv /\ [MaskNext]_mask_vars => MaskInv'
<1> SUFFICES ASSUME SignalConstants, MaskInv, [MaskNext]_mask_vars PROVE MaskInv'
  OBVIOUS
<1>0. CASE UNCHANGED mask_vars
  <2>1. UNCHANGED <<sigs, own, at>>
    BY <1>0 DEF mask_vars, sig_vars, sigs
  <2>2. IInv'
    BY <2>1, Resting DEF MaskInv
  <2>3. ASSUME NEW p \in Thread PROVE Framed(p)'
    BY <2>1 DEF sigs, MaskInv, Framed, Old
  <2> QED BY <2>1, <2>2, <2>3 DEF MaskInv
<1> SUFFICES ASSUME SigNext, Remember PROVE MaskInv'
  BY <1>0 DEF MaskNext
<1>1. IInv'
  BY Steps DEF MaskInv
<1>2. \A p \in Thread : at[p] \in {"user", "trap", "call", "signal"} => saved[p] = NoMask
  BY DEF MaskInv, Framed
<1>3. ASSUME NEW p \in Thread, SigKernel(p) PROVE MaskInv'
  <2>1. CASE trap_may_killed(p)
    BY <1>1, <1>2, <2>1, EndsMasks, Moves DEF trap_may_killed, sigs, Places
  <2>2. CASE do_signal(p)
    BY <1>1, <1>2, <2>2, LoopMasks, Moves DEF do_signal, sigs, Places
  <2>3. CASE continued(p)
    BY <1>1, <2>3, LoopMasks DEF continued
  <2>4. CASE return(p)
    BY <1>1, <1>2, <2>4, Moves DEF return, sigs, Places
  <2> QED BY <1>3, <2>1, <2>2, <2>3, <2>4 DEF SigKernel
<1>4. ASSUME NEW p \in Thread, Interrupt(p) \/ Schedule(p) \/ other_wakes(p) PROVE MaskInv'
  BY <1>1, <1>2, <1>4, Moves
  DEF Interrupt, interrupt, SigCall, Schedule, schedule, other_wakes, sigs, Places
<1>5. ASSUME NEW p \in Thread, do_sigreturn(p) PROVE MaskInv'
  BY <1>1, <1>5, ReturnMasks
<1>6. ASSUME NEW p \in Thread, Calls(p) PROVE MaskInv'
  <2>1. CASE sleep(p)
    BY <1>1, <1>2, <2>1, Moves DEF sleep, sigs, Places
  <2>2. CASE exit(p)
    BY <1>1, <2>2, EndsMasks DEF exit
  <2>3. ASSUME NEW m \in Masks, do_sigprocmask(p, m) \/ do_sigsuspend(p, m) PROVE MaskInv'
    BY <1>1, <2>3, ChosenMasks, SuspendMasks
  <2>4. ASSUME NEW s \in Signals, NEW q \in Thread, kill(p, q, s) PROVE MaskInv'
    BY <1>1, <1>2, <2>4, Moves DEF kill, SigCall, Send, Places
  <2>5. ASSUME NEW s \in Signals, other_kills(p, s) PROVE MaskInv'
    BY <1>1, <2>5, Moves DEF other_kills, Send
  <2>6. ASSUME NEW s \in Signals, NEW a \in Actions, do_sigaction(p, s, a) PROVE MaskInv'
    BY <1>1, <1>2, <2>6, Moves DEF do_sigaction, SigCall, Places
  <2> QED BY <1>6, <2>1, <2>2, <2>3, <2>4, <2>5, <2>6 DEF Calls
<1>7. CASE Yield \/ schedule_other
  BY <1>1, <1>7, Moves DEF Yield, other_yields, schedule_other, sigs
<1> QED
  BY <1>3, <1>4, <1>5, <1>6, <1>7 DEF SigNext

(* In user mode a thread has the mask that its program chose, however many *)
(* handlers have run, nested or during do_sigsuspend (signal.c:529, and    *)
(* do_sigreturn).                                                          *)
THEOREM MasksCorrect ==
  ASSUME SignalConstants
  PROVE  MaskSpec => []MasksRestored
<1>1. MaskInit => MaskInv
  BY MaskInitially
<1>2. MaskInv /\ [MaskNext]_mask_vars => MaskInv'
  BY MaskSteps
<1>3. MaskInv => MasksRestored
  <2> SUFFICES ASSUME MaskInv, NEW p \in Thread, at[p] = "user"
               PROVE  blocked[p] = Head(own[p])
    BY DEF MasksRestored
  <2>1. Framed(p) /\ saved[p] = NoMask
    BY DEF MaskInv, Framed
  <2>2. own[p] \in Seq(SUBSET Signals) /\ blocked[p] = own[p][1]
    BY <2>1 DEF Framed, Old
  <2> QED BY <2>2, SMTT(30)
<1> QED BY <1>1, <1>2, <1>3, PTL DEF MaskSpec
=============================================================================
