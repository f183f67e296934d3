-------------------------------- MODULE Pipe --------------------------------
(***************************************************************************)
(* A pipe (fs/pipe/pipe_state.c, pipe_inode.c): a ring buffer, the readers *)
(* that wait for bytes, the writers that wait for room, and the open files *)
(* of both ends.  The semaphore of the pipe is never held across a call of *)
(* schedule(), so each round of the try_again loops is one step.  Positions *)
(* are of type off_t and wrap around at Wrap (2^32 on a 32-bit machine).   *)
(***************************************************************************)
EXTENDS Integers, Sequences, FiniteSets, Processes

CONSTANTS
  Byte,
  PIPE_BUFSIZE,
  Wrap,     \* the modulus of off_t
  MaxLen,   \* bound on the bytes of one read or write
  MaxPos    \* bound on the write position; no bound if it exceeds Wrap + MaxLen

ASSUME PipeAssumption ==
  /\ PIPE_BUFSIZE \in Nat \ {0} /\ Wrap \in Nat /\ PIPE_BUFSIZE < Wrap
  /\ MaxLen \in Nat /\ MaxPos \in Nat

VARIABLES
  p_rpos, p_wpos, buf, isclosed,
  reader_queue, writer_queue,  \* the processes in the wait queues
  files,         \* files[end]: the processes with an open file of that end
  op,            \* what a process does: "none", "read" or "write"
  left,          \* how many bytes of its request are left
  asleep,        \* the processes with wait_state WT_PIPE
  wakeup_flags

vars == <<p_rpos, p_wpos, buf, isclosed, reader_queue, writer_queue, files,
          op, left, asleep, wakeup_flags>>

procVars == <<op, left>>

\* An empty pipe; ends[e] are the processes that have the end e open.
Boot(ends) ==
  /\ p_rpos = 0 /\ p_wpos = 0
  /\ buf \in {[i \in 0..PIPE_BUFSIZE - 1 |-> b] : b \in Byte}
  /\ isclosed = FALSE
  /\ reader_queue = {} /\ writer_queue = {}
  /\ files = ends
  /\ op = [p \in Proc |-> "none"]
  /\ left = [p \in Proc |-> 0]
  /\ asleep = {}
  /\ wakeup_flags = [p \in Proc |-> "WT_INTERRUPTED"]

\* pipe_open gives its caller both ends; mkfifo gives it one.
Init == \E p \in Proc, ends \in SUBSET {"r", "w"} \ {{}} :
          Boot([e \in {"r", "w"} |-> IF e \in ends THEN {p} ELSE {}])

\* p_wpos - p_rpos
Size == (p_wpos - p_rpos) % Wrap

is_empty == p_rpos = p_wpos

Room == PIPE_BUFSIZE - Size

Smaller(a, b) == IF a < b THEN a ELSE b

\* Fault: nobody is woken.
pipe_state_wakeup_none(S) == UNCHANGED <<asleep, wakeup_flags>>

\* The processes S of a wait queue are woken (the caller empties the queue).
pipe_state_wakeup(S) ==
  /\ asleep' = asleep \ S
  /\ wakeup_flags' = [p \in Proc |-> IF p \in S THEN "WT_PIPE" ELSE wakeup_flags[p]]

\* pipe_state_wait up to schedule(); the queue is the caller's.
pipe_state_wait(p, what, n) ==
  /\ op' = [op EXCEPT ![p] = what]
  /\ left' = [left EXCEPT ![p] = n]
  /\ asleep' = asleep \cup {p}
  /\ wakeup_flags' = [wakeup_flags EXCEPT ![p] = "WT_INTERRUPTED"]

Return(p) == op' = [op EXCEPT ![p] = "none"] /\ left' = [left EXCEPT ![p] = 0]

-----------------------------------------------------------------------------
\* One round of pipe_state_read.
ReadRound(p, n) ==
  /\ \/ /\ is_empty /\ isclosed
        /\ Return(p)
        /\ reader_queue' = reader_queue \ {p}
        /\ UNCHANGED <<p_rpos, writer_queue, asleep, wakeup_flags>>
     \/ /\ is_empty /\ ~isclosed
        /\ pipe_state_wait(p, "read", n)
        /\ reader_queue' = reader_queue \cup {p}
        /\ UNCHANGED <<p_rpos, writer_queue>>
     \/ /\ ~is_empty
        /\ p_rpos' = (p_rpos + Smaller(n, Size)) % Wrap
        /\ pipe_state_wakeup(writer_queue)
        /\ writer_queue' = {}
        /\ reader_queue' = reader_queue \ {p}
        /\ Return(p)
  /\ UNCHANGED <<p_wpos, buf, isclosed, files>>

\* How many bytes a round of pipe_state_write puts into the buffer.
Stored(n) == Smaller(n, Room)

\* Fault: the bytes go to the ring from its start.
StoreUnderReader(s) ==
  /\ buf' = [i \in DOMAIN buf |-> IF i < Len(s) THEN s[i + 1] ELSE buf[i]]
  /\ p_wpos' = (p_wpos + Len(s)) % Wrap

\* The bytes s go to the ring, from p_wpos on.
Store(s) ==
  /\ buf' = [i \in DOMAIN buf |->
               LET at == {k \in 1..Len(s) : ((p_wpos + k - 1) % Wrap) % PIPE_BUFSIZE = i}
               IN  IF at = {} THEN buf[i]
                   ELSE s[CHOOSE k \in at : \A j \in at : j <= k]]
  /\ p_wpos' = (p_wpos + Len(s)) % Wrap

\* One round of pipe_state_write, with n bytes to go.
WriteRound(p, n) ==
  /\ \/ /\ isclosed
        /\ Return(p)
        /\ writer_queue' = writer_queue \ {p}
        /\ UNCHANGED <<p_wpos, buf, reader_queue, asleep, wakeup_flags>>
     \/ /\ ~isclosed
        /\ p_wpos + Stored(n) <= MaxPos
        /\ \E s \in [1..Stored(n) -> Byte] : Store(s)
        /\ reader_queue' = {}
        /\ \/ /\ Stored(n) = n
              /\ pipe_state_wakeup(reader_queue)
              /\ writer_queue' = writer_queue \ {p}
              /\ Return(p)
           \/ /\ Stored(n) < n
              /\ op' = [op EXCEPT ![p] = "write"]
              /\ left' = [left EXCEPT ![p] = n - Stored(n)]
              /\ asleep' = (asleep \ reader_queue) \cup {p}
              /\ wakeup_flags' = [q \in Proc |-> IF q = p THEN "WT_INTERRUPTED"
                                   ELSE IF q \in reader_queue THEN "WT_PIPE"
                                   ELSE wakeup_flags[q]]
              /\ writer_queue' = writer_queue \cup {p}
  /\ UNCHANGED <<p_rpos, isclosed, files>>

pipe_state_read(p, n) == op[p] = "none" /\ p \in files["r"] /\ ReadRound(p, n)

pipe_state_write(p, n) == op[p] = "none" /\ p \in files["w"] /\ WriteRound(p, n)

Awake(p) == op[p] # "none" /\ p \notin asleep

\* Back from schedule() with the flag WT_PIPE: try again ...
try_again(p) ==
  /\ Awake(p) /\ wakeup_flags[p] = "WT_PIPE"
  /\ \/ op[p] = "read" /\ ReadRound(p, left[p])
     \/ op[p] = "write" /\ WriteRound(p, left[p])

\* ... or without it: the call ends.
give_up(p) ==
  /\ Awake(p) /\ wakeup_flags[p] # "WT_PIPE"
  /\ Return(p)
  /\ reader_queue' = reader_queue \ {p}
  /\ writer_queue' = writer_queue \ {p}
  /\ UNCHANGED <<p_rpos, p_wpos, buf, isclosed, files, asleep, wakeup_flags>>

\* A kill or a signal wakes p, which stays in its queue until it runs.
Interrupt(p) ==
  /\ asleep' = asleep \ {p}
  /\ p \in asleep
  /\ UNCHANGED <<p_rpos, p_wpos, buf, isclosed, reader_queue, writer_queue,
                 files, procVars, wakeup_flags>>

-----------------------------------------------------------------------------
\* fork, dup or the opening of a named pipe: q opens an end of a pipe that exists.
OpenEnd(q, e) ==
  /\ op[q] = "none" /\ q \notin files[e]
  /\ files["r"] \cup files["w"] # {}
  /\ files' = [files EXCEPT ![e] = @ \cup {q}]
  /\ UNCHANGED <<p_rpos, p_wpos, buf, isclosed, reader_queue, writer_queue,
                 procVars, asleep, wakeup_flags>>

\* Fault: the last close of an end wakes the readers only.
CloseWakesReaders == reader_queue

\* Whom pipe_state_close wakes.
CloseWakes == reader_queue \cup writer_queue

\* The last close of an end closes the pipe (pipe_inode_close).
CloseEnd(p, e) ==
  /\ op[p] = "none" /\ p \in files[e]
  /\ files' = [files EXCEPT ![e] = @ \ {p}]
  /\ IF files[e] = {p}
     THEN /\ isclosed' = TRUE
          /\ pipe_state_wakeup(CloseWakes)
          /\ reader_queue' = {} /\ writer_queue' = {}
     ELSE UNCHANGED <<isclosed, asleep, wakeup_flags, reader_queue, writer_queue>>
  /\ UNCHANGED <<p_rpos, p_wpos, buf, procVars>>

Resume(p) == try_again(p) \/ give_up(p)

Next == \E p \in Proc :
          \/ \E n \in 1..MaxLen : pipe_state_read(p, n) \/ pipe_state_write(p, n)
          \/ Resume(p) \/ Interrupt(p)
          \/ \E e \in {"r", "w"} : OpenEnd(p, e) \/ CloseEnd(p, e)

Spec == Init /\ [][Next]_vars

\* A process that was woken runs.
FairSpec == Spec /\ \A p \in Proc : WF_vars(Resume(p))

-----------------------------------------------------------------------------
TypeOK ==
  /\ p_rpos \in 0..Wrap - 1 /\ p_wpos \in 0..Wrap - 1 /\ Size <= PIPE_BUFSIZE
  /\ buf \in [0..PIPE_BUFSIZE - 1 -> Byte]
  /\ isclosed \in BOOLEAN
  /\ reader_queue \subseteq Proc /\ writer_queue \subseteq Proc
  /\ files \in [{"r", "w"} -> SUBSET Proc]
  /\ op \in [Proc -> {"none", "read", "write"}]
  /\ left \in [Proc -> 0..MaxLen]
  /\ asleep \subseteq Proc
  /\ wakeup_flags \in [Proc -> {"WT_PIPE", "WT_INTERRUPTED"}]

(* No wakeup is lost: a reader sleeps only while the pipe is empty and     *)
(* open, a writer only while it is full and open, and a sleeper is in the  *)
(* queue that will wake it.                                                *)
SleepersMustSleep ==
  \A p \in asleep :
    /\ ~isclosed
    /\ op[p] = "read" => is_empty /\ p \in reader_queue
    /\ op[p] = "write" => Room = 0 /\ p \in writer_queue

\* The ring buffer as the sequence of the bytes in it.
Contents == [i \in 1..Size |-> buf[((p_rpos + i - 1) % Wrap) % PIPE_BUFSIZE]]

B == INSTANCE ByteStream WITH stream <- Contents, closed <- isclosed,
                              Capacity <- PIPE_BUFSIZE

(* The pipe is a byte stream: the ring buffer, the sleeping writers and    *)
(* readers and the closing of the ends neither lose nor repeat nor reorder *)
(* bytes.                                                                  *)
Stream == B!Spec

(* After the last close of one end, the calls on the other one come to an  *)
(* end.                                                                    *)
CloseEndsCalls == \A p \in Proc : isclosed ~> op[p] = "none"
=============================================================================
