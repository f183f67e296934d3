---------------------------- MODULE SignalMasks -----------------------------
(***************************************************************************)
(* Signals, with the history of the masks that the program of each thread  *)
(* has chosen: the kernel itself only keeps the current mask, the one that *)
(* do_sigsuspend has set aside and those in the signal frames.             *)
(***************************************************************************)
EXTENDS Signal

VARIABLE own  \* the masks that the program of a thread has chosen, the latest first

mask_vars == <<sig_vars, own>>

\* What a step does to the masks that programs chose.  When the frame of a
\* handler cannot be written, the mask of do_sigsuspend stays.
Remember ==
  own' = [p \in Thread |->
    IF at'[p] = "gone" THEN <<{}>>
    ELSE IF Len(frames'[p]) > Len(frames[p]) THEN <<blocked'[p]>> \o own[p]
    ELSE IF Len(frames'[p]) < Len(frames[p]) THEN Tail(own[p])
    ELSE IF \/ at[p] = "user" /\ at'[p] = "trap"
            \/ saved[p] # NoMask /\ saved'[p] = NoMask
         THEN <<blocked'[p]>> \o Tail(own[p])
    ELSE own[p]]

MaskInit == SigInit /\ own = [p \in Thread |-> <<{}>>]

MaskNext == SigNext /\ Remember

MaskSpec == MaskInit /\ [][MaskNext]_mask_vars

(* In user mode a thread has the mask that its program chose: a handler    *)
(* starts with its own, and do_sigreturn brings back the one before it,    *)
(* also when the handler ran during do_sigsuspend.                         *)
MasksRestored == \A p \in Thread : at[p] = "user" => blocked[p] = Head(own[p])
=============================================================================
