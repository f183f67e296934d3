----------------------------- MODULE ProcLimit ------------------------------
(***************************************************************************)
(* The limit on the number of processes that do_fork (process/proc.c)      *)
(* looks at.                                                               *)
(***************************************************************************)
EXTENDS Integers

CONSTANTS
  MAX_PROCESS,
  lcpu_count    \* number of processors, each with an idle process

\* nr_process, which counts the n processes and the idle ones, is below the
\* limit.
MayFork(n) == n + lcpu_count < MAX_PROCESS
=============================================================================
