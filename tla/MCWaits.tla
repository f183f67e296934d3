------------------------------ MODULE MCWaits -------------------------------
(***************************************************************************)
(* The liveness of sync/ and fs/ for TLC: the facilities of MCSync, a pipe *)
(* (Pipe) and the tables of open files (FileTable), one of which runs in a *)
(* behaviour.                                                              *)
(***************************************************************************)
EXTENDS MCSync

CONSTANTS
  Byte, PIPE_BUFSIZE, Wrap, MaxLen, MaxPos,   \* of Pipe
  Fs, Node, FS_STRUCT_NENTRY, MaxRef          \* of FileTable

VARIABLES
  p_rpos, p_wpos, buf, isclosed, reader_queue, writer_queue, files, pipe_op,
  left, pipe_asleep, pipe_flags,
  fs_struct, fs_count, status, open_count, node, node_ref, node_open, file_pc

pipe_vars == <<p_rpos, p_wpos, buf, isclosed, reader_queue, writer_queue, files,
               pipe_op, left, pipe_asleep, pipe_flags>>
file_vars == <<fs_struct, fs_count, status, open_count, node, node_ref,
               node_open, file_pc>>

APipe == INSTANCE Pipe WITH
  op <- pipe_op, asleep <- pipe_asleep, wakeup_flags <- pipe_flags
Files == INSTANCE FileTable WITH pc <- file_pc

InSync(A) == A /\ UNCHANGED <<pipe_vars, file_vars>>
InPipe(A) == /\ facility = "pipe" /\ A /\ UNCHANGED <<all_vars, file_vars>>
InFiles(A) == /\ facility = "files" /\ A /\ UNCHANGED <<all_vars, pipe_vars>>

WaitsInit ==
  /\ facility \in {"lock", "sem", "mbox", "event", "pipe", "files"}
  /\ Start
  /\ IF facility = "pipe" THEN APipe!Init
     ELSE APipe!Boot([e \in {"r", "w"} |-> {}])
  /\ IF facility = "files" THEN Files!TableInit
     ELSE Files!TableBoot([p \in Proc |-> None])
WaitsNext == InSync(MCNext) \/ InPipe(APipe!Next) \/ InFiles(Files!TableNext)
waits_vars == <<all_vars, pipe_vars, file_vars>>

\* The fairness of the modules.
WaitsSpec ==
  /\ WaitsInit /\ [][WaitsNext]_waits_vars
  /\ \A p \in Thread : /\ WF_all_vars(InLock(~panic /\ Kernel(p)))
                       /\ SF_all_vars(InLock(~panic /\ unlock_mm(p)))
  /\ \A p \in Proc :
       /\ WF_all_vars(InSem(~sem_panic /\ sem_down_returns(p)))
       /\ WF_all_vars(InSem(~sem_panic /\ SemTimeout(p)))
       /\ WF_all_vars(InMbox(~mb_panic /\ MboxResume(p)))
       /\ WF_all_vars(InMbox(~mb_panic /\ MboxTimeout(p)))
       /\ WF_all_vars(InEvent(EventResume(p)))
       /\ WF_all_vars(InEvent(EventTimeout(p)))
       /\ WF_waits_vars(InPipe(APipe!Resume(p)))
       /\ WF_waits_vars(InFiles(Files!CallReturns(p)))

-----------------------------------------------------------------------------
\* ipc_sem_free and timeouts end ipc_sem_wait; ipc_mbox_free ends the calls on
\* the mailbox; a send to a process that exited, and a call of ipc_event_* with
\* a timeout, end.
CallsEnd == SemWaitsEnd /\ FreeEndsCalls /\ EventCallsEnd

\* The last close of an end of a pipe ends the calls on the other one; a closed
\* descriptor becomes free, and fs_destroy ends.
ClosesEnd == APipe!CloseEndsCalls /\ Files!ClosedIsFreed
=============================================================================
