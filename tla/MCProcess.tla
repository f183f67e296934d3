----------------------------- MODULE MCProcess ------------------------------
(***************************************************************************)
(* The models of process/ for TLC: the pids (PidAlloc), the life cycle of  *)
(* processes (ProcLife) and signals (Signal).  They share no state, so     *)
(* that a behaviour exercises one part, chosen at the start, and the       *)
(* others rest.                                                            *)
(***************************************************************************)
EXTENDS PidAlloc, ProcLife, SignalMasks, TLC

CONSTANT Parts  \* the parts that run

VARIABLE part  \* the part that runs

ASSUME LifeAssumption == LifeConstants
ASSUME SignalAssumption == SignalConstants

\* A program blocks one signal or none, and handles it or not; the second
\* handler runs once and blocks nothing.
Lowest == CHOOSE s \in Signals : \A t \in Signals : s <= t
MCMasks == {{}, {Lowest}}
Handler(mask, once) == [sa_handler |-> "user", sa_mask |-> mask,
                        nodefer |-> once, oneshot |-> once]
MCActions == {[Handler({}, FALSE) EXCEPT !.sa_handler = "SIG_IGN"],
              Handler(Signals, FALSE), Handler({}, TRUE)}

all_vars == <<part, pid_vars, vars, mask_vars>>

\* A is a step of one of the parts.
InPids(A) == part = "pids" /\ A /\ UNCHANGED <<part, vars, mask_vars>>
InLife(A) == part = "life" /\ A /\ UNCHANGED <<part, pid_vars, mask_vars>>
InSignal(A) == part = "signal" /\ A /\ UNCHANGED <<part, pid_vars, vars>>

MCInit == /\ part \in Parts /\ PidInit /\ Init /\ MaskInit
          \* One of the initial states of ProcLife is enough when it rests.
          /\ part # "life" => parent[CHOOSE p \in Proc \ {initproc} : TRUE] = initproc
MCNext == InPids(PidNext) \/ InLife(Next) \/ InSignal(MaskNext)
MCSpec == MCInit /\ [][MCNext]_all_vars

MCSymmetry == Permutations(Proc \ {initproc}) \cup Permutations(Thread)
=============================================================================
