------------------------------ MODULE MCFiles -------------------------------
(***************************************************************************)
(* The models of fs/ for TLC: a pipe (Pipe) and the tables of open files   *)
(* (FileTable).  The files that a table refers to are opaque to it and the *)
(* pipe does not see the tables, so that a behaviour exercises one of the  *)
(* two, chosen at the start, and the other rests.                          *)
(***************************************************************************)
EXTENDS Pipe, FileTable, TLC

ASSUME TableAssumption == TableConstants

VARIABLE part  \* the part that runs

all_vars == <<part, vars, table_vars>>

\* A is a step of the one part or of the other.
InPipe(A) == part = "pipe" /\ A /\ UNCHANGED <<part, table_vars>>
InTable(A) == part = "table" /\ A /\ UNCHANGED <<part, vars>>

MCInit == \/ part = "pipe" /\ Init /\ TableBoot([p \in Proc |-> None])
          \/ part = "table" /\ Boot([e \in {"r", "w"} |-> {}]) /\ TableInit
MCNext == InPipe(Next) \/ InTable(TableNext)
MCSpec == MCInit /\ [][MCNext]_all_vars

MCSymmetry == Permutations(Proc) \cup Permutations(Byte)
                \cup Permutations(Fs) \cup Permutations(Node)
=============================================================================
