------------------------------ MODULE ProcLife ------------------------------
(***************************************************************************)
(* The life of processes and threads (process/proc.c): do_fork, do_exit,   *)
(* do_exit_thread, do_wait, do_kill, and the loop of init_main that reaps  *)
(* orphans.  A process is its slot; the slot also stands for its pid.      *)
(* do_fork can sleep in lock_mm (copy_mm) before it links the child, so it *)
(* is two steps; every other call runs alone up to schedule().  The order  *)
(* of the children list and of the thread ring is left open.               *)
(***************************************************************************)
EXTENDS FiniteSets, Processes, ProcLimit

CONSTANTS
  initproc,  \* the first process
  AnyChild   \* the pid 0 of do_wait

\* The constants are what they should be.
LifeConstants == /\ initproc \in Proc /\ None # AnyChild
                 /\ None \notin Proc /\ AnyChild \notin Proc

VARIABLES
  state,         \* proc->state; PROC_UNINIT for a slot that is not in use
  parent,        \* proc->parent
  thread_group,  \* the threads of the group of a process, itself included
  waiting,       \* the pid argument of a process that is inside do_wait
  forking,       \* the kind of child of a process that is inside do_fork
  exiting,       \* the processes with the flag PF_EXITING
  dying,         \* those of them that return from a call, to exit in may_killed
  exit_code,     \* proc->exit_code
  system         \* "up", "panic" or, when init_main is done, "halted"

vars == <<state, parent, thread_group, waiting, forking, exiting, dying,
          exit_code, system>>

\* The processes in proc_list; nr_process also counts the idle ones.
Used == {p \in Proc : state[p] # "PROC_UNINIT"}

\* init_main has created user_main and waits for its children.
Init ==
  /\ \E user_main \in Proc \ {initproc} :
       /\ state = [p \in Proc |-> CASE p = initproc -> "PROC_SLEEPING"
                                    [] p = user_main -> "PROC_RUNNABLE"
                                    [] OTHER -> "PROC_UNINIT"]
       /\ parent = [p \in Proc |-> IF p = user_main THEN initproc ELSE None]
  /\ thread_group = [p \in Proc |-> {p}]
  /\ waiting = [p \in Proc |-> IF p = initproc THEN AnyChild ELSE None]
  /\ forking = [p \in Proc |-> "no"]
  /\ exiting = {}
  /\ dying = {}
  /\ exit_code = [p \in Proc |-> "none"]
  /\ system = "up"

\* p runs user code.  A process that is killed while it is preempted there
\* gets to its next call before it exits.
InUser(p) == /\ state[p] = "PROC_RUNNABLE" /\ waiting[p] = None
             /\ forking[p] = "no" /\ p \notin dying \cup {initproc}

\* The end of a call of p: may_killed is next if p was killed.
Return(p) == dying' = dying \cup ({p} \cap exiting)

-----------------------------------------------------------------------------
(* Exit.                                                                   *)

\* Fault: the exiting process keeps its children.
AdoptedNone(p) == {}

\* The children of p, which get a new parent when p exits.
Adopted(p) == {c \in Used : parent[c] = p}

\* The new parent: another thread of the group, else initproc.
Heirs(p) == IF thread_group[p] = {p} THEN {initproc} ELSE thread_group[p] \ {p}

\* Fault: an adopted zombie is not announced to its new parent.
WokenByExitNotHeir(p, heir) == {q \in thread_group[parent[p]] : waiting[q] # None}

\* Who is woken from do_wait: the threads of the parent, and the new parent
\* of a child that is dead already (p itself may be its own child).
WokenByExit(p, heir) ==
  {q \in thread_group[parent[p]] : waiting[q] # None}
    \cup {q \in {heir} : /\ waiting[q] # None
                         /\ \E c \in Adopted(p) : state[c] = "PROC_ZOMBIE" \/ c = p}

\* __do_exit of p; the processes in killed are woken before.
Exit(p, killed) ==
  /\ p # initproc
  /\ \E heir \in Heirs(p) :
       /\ state' = [q \in Proc |->
            IF q = p THEN "PROC_ZOMBIE"
            ELSE IF q \in killed \cup WokenByExit(p, heir) THEN "PROC_RUNNABLE"
            ELSE state[q]]
       /\ parent' = [c \in Proc |-> IF c \in Adopted(p) THEN heir ELSE parent[c]]
  /\ thread_group' = [q \in Proc |-> IF q = p THEN {p} ELSE thread_group[q] \ {p}]
  /\ waiting' = [waiting EXCEPT ![p] = None]
  /\ dying' = dying \ {p}
  /\ UNCHANGED <<forking, system>>

do_exit_thread(p) ==
  /\ InUser(p)
  /\ Exit(p, {})
  /\ exit_code' = [exit_code EXCEPT ![p] = "exit"]
  /\ UNCHANGED exiting

\* may_killed: a killed process exits at the end of a trap (a timer interrupt
\* comes at any time) and when it is woken in do_wait; initproc must not.
may_killed(p) ==
  /\ p \in exiting /\ state[p] = "PROC_RUNNABLE" /\ forking[p] = "no"
  /\ \/ Exit(p, {}) /\ UNCHANGED <<exiting, exit_code>>
     \/ /\ p = initproc /\ system' = "panic"
        /\ UNCHANGED <<state, parent, thread_group, waiting, forking, exiting, dying, exit_code>>

\* The processes of S that __do_kill wakes: WT_CHILD can be interrupted.
Interrupted(S) == {q \in S \ exiting : state[q] = "PROC_SLEEPING"}

do_kill(p, q) ==
  /\ InUser(p) /\ q \in Used
  /\ exiting' = exiting \cup {q}
  /\ dying' = dying \cup ({p} \cap exiting')
  /\ exit_code' = [exit_code EXCEPT ![q] = IF q \in exiting THEN @ ELSE "killed"]
  /\ state' = [r \in Proc |-> IF r \in Interrupted({q}) THEN "PROC_RUNNABLE"
                              ELSE state[r]]
  /\ UNCHANGED <<parent, thread_group, waiting, forking, system>>

\* do_exit: the other threads of the group are killed, then p exits.
do_exit(p) ==
  LET others == thread_group[p] \ {p} IN
  /\ InUser(p)
  /\ Exit(p, Interrupted(others))
  /\ exiting' = exiting \cup others
  /\ exit_code' = [q \in Proc |-> IF q = p \/ q \in others \ exiting THEN "exit"
                                  ELSE exit_code[q]]

-----------------------------------------------------------------------------
(* Wait.                                                                   *)

\* What do_wait finds for the pid t: children of any thread of the group.
Kids(p, t) ==
  {c \in Used : parent[c] \in thread_group[p] /\ (t = AnyChild \/ c = t)}

Dead(p, t) == {c \in Kids(p, t) : state[c] = "PROC_ZOMBIE"}

\* Fault: init_main reaps only once.
ReturnedOnce(p, left) == None

\* init_main goes on waiting until all the other processes are gone.
Returned(p, left) == IF p = initproc /\ left # {initproc} THEN AnyChild ELSE None

\* A dead child is reaped: its slot is free.
reap(p, t) ==
  \E c \in Dead(p, t) :
    /\ state' = [state EXCEPT ![c] = "PROC_UNINIT", ![p] = "PROC_RUNNABLE"]
    /\ parent' = [parent EXCEPT ![c] = None]
    /\ exiting' = exiting \ {c}
    /\ exit_code' = [exit_code EXCEPT ![c] = "none"]
    /\ waiting' = [waiting EXCEPT ![p] = Returned(p, Used \ {c})]
    /\ Return(p)
    /\ system' = IF p = initproc /\ Used \ {c} = {initproc} THEN "halted" ELSE system

\* Fault: do_wait sleeps without looking for dead children.
wait_blindly(p, t) ==
  /\ Kids(p, t) # {}
  /\ state' = [state EXCEPT ![p] = "PROC_SLEEPING"]
  /\ waiting' = [waiting EXCEPT ![p] = t]
  /\ UNCHANGED <<parent, exiting, dying, exit_code, system>>

\* The living children are waited for.
wait_sleep(p, t) ==
  /\ Kids(p, t) # {} /\ Dead(p, t) = {}
  /\ state' = [state EXCEPT ![p] = "PROC_SLEEPING"]
  /\ waiting' = [waiting EXCEPT ![p] = t]
  /\ UNCHANGED <<parent, exiting, dying, exit_code, system>>

\* No child: -E_BAD_PROC.  init_main then expects to be the only process.
wait_nobody(p, t) ==
  /\ Kids(p, t) = {}
  /\ waiting' = [waiting EXCEPT ![p] = None]
  /\ system' = IF p # initproc THEN system
               ELSE IF Used = {initproc} THEN "halted" ELSE "panic"
  /\ Return(p)
  /\ UNCHANGED <<state, parent, exiting, exit_code>>

WaitStep(p, t) ==
  /\ reap(p, t) \/ wait_sleep(p, t) \/ wait_nobody(p, t)
  /\ UNCHANGED <<thread_group, forking>>

do_wait(p, t) == InUser(p) /\ WaitStep(p, t)

\* do_wait, back from schedule().
do_wait_again(p) ==
  /\ state[p] = "PROC_RUNNABLE" /\ waiting[p] # None /\ p \notin exiting
  /\ WaitStep(p, waiting[p])

-----------------------------------------------------------------------------
(* Fork.                                                                   *)

\* do_fork up to a sleep in copy_mm.
do_fork(p, kind) ==
  /\ InUser(p)
  /\ MayFork(Cardinality(Used))
  /\ forking' = [forking EXCEPT ![p] = kind]
  /\ UNCHANGED <<state, parent, thread_group, waiting, exiting, dying, exit_code,
                 system>>

\* The rest of do_fork: the child is linked and woken ...
do_fork_links(p, q) ==
  /\ forking[p] # "no" /\ q \notin Used
  /\ state' = [state EXCEPT ![q] = "PROC_RUNNABLE"]
  /\ parent' = [parent EXCEPT ![q] = p]
  /\ LET group == thread_group[p] \cup {q} IN
     thread_group' = [r \in Proc |-> IF forking[p] = "thread" /\ r \in group
                                     THEN group ELSE thread_group[r]]
  /\ forking' = [forking EXCEPT ![p] = "no"]
  /\ Return(p)
  /\ UNCHANGED <<waiting, exiting, exit_code, system>>

\* ... or there is no memory for it.
do_fork_fails(p) ==
  /\ forking[p] # "no"
  /\ forking' = [forking EXCEPT ![p] = "no"]
  /\ Return(p)
  /\ UNCHANGED <<state, parent, thread_group, waiting, exiting, exit_code, system>>

Continue(p) == \/ do_wait_again(p) \/ may_killed(p) \/ do_fork_fails(p)
               \/ \E q \in Proc : do_fork_links(p, q)

Call(p) == \/ do_exit(p) \/ do_exit_thread(p)
           \/ \E q \in Proc : do_kill(p, q)
           \/ \E t \in Proc \cup {AnyChild} : do_wait(p, t)
           \/ \E kind \in {"process", "thread"} : do_fork(p, kind)

\* The kernel code of p, and what its program may ask for.
Kernel(p) == system = "up" /\ Continue(p)
Next == \E p \in Proc : Kernel(p) \/ (system = "up" /\ Call(p))

Spec == Init /\ [][Next]_vars

\* The scheduler runs every process and the waits inside do_fork end; which
\* calls a program makes is its own affair.
FairSpec == Spec /\ \A p \in Proc : WF_vars(Kernel(p))

-----------------------------------------------------------------------------
TypeOK ==
  /\ state \in [Proc -> {"PROC_UNINIT", "PROC_RUNNABLE", "PROC_SLEEPING", "PROC_ZOMBIE"}]
  /\ parent \in [Proc -> Proc \cup {None}]
  /\ thread_group \in [Proc -> SUBSET Proc]
  /\ waiting \in [Proc -> Proc \cup {None, AnyChild}]
  /\ forking \in [Proc -> {"no", "process", "thread"}]
  /\ dying \subseteq exiting /\ exiting \subseteq Used
  /\ exit_code \in [Proc -> {"none", "exit", "killed"}]
  /\ system \in {"up", "halted", "panic"}

(* Nobody becomes an orphan: the parent of every process is a process that *)
(* has not exited, whatever exits and adoptions came before, so that every *)
(* zombie has somebody to reap it.  Dead processes are in no thread group. *)
ParentsLive ==
  /\ \A p \in Used \ {initproc} : state[parent[p]] \in {"PROC_RUNNABLE", "PROC_SLEEPING"}
  /\ \A p \in Used : \A q \in thread_group[p] :
       /\ thread_group[q] = thread_group[p]
       /\ q # p => state[q] # "PROC_ZOMBIE"

(* No exit is missed: a process that sleeps in do_wait has a child to wait *)
(* for and none that is dead, even when threads of its group exit, reap or *)
(* pass on their children.                                                 *)
NoExitMissed ==
  system = "up" => \A p \in Proc : state[p] = "PROC_SLEEPING" =>
    Kids(p, waiting[p]) # {} /\ Dead(p, waiting[p]) = {}

(* init_main never stops reaping: while there are dead orphans it takes    *)
(* one after the other away.  (do_wait looks at the youngest child first,  *)
(* so that one of them may be passed over as long as others keep dying.)   *)
OrphansReaped ==
  \/ []<>(system # "up" \/ Dead(initproc, AnyChild) = {})
  \/ []<><<\E c \in Dead(initproc, AnyChild) : c \notin Used'>>_vars

(* Waiting for a process that is dead comes to an end, even when another   *)
(* thread of the group takes the child or the child gets a new parent.     *)
WaitEnds ==
  \A p \in Proc : \A c \in Proc \ {p, initproc} :
    (waiting[p] = c /\ c \in Dead(p, c))
      ~> (waiting[p] = None \/ c \notin Used \/ system # "up")

(* do_exit kills the thread group: once a thread was killed that way, so   *)
(* are all the threads that are still in the group.                        *)
GroupKilled ==
  \A p \in exiting : state[p] # "PROC_ZOMBIE" /\ exit_code[p] = "exit"
                        => thread_group[p] \subseteq exiting

(* The exit code that the parent will get is the one of the exit.          *)
ExitCodeKept ==
  [][\A p \in Proc : state[p] = "PROC_ZOMBIE" /\ state'[p] = "PROC_ZOMBIE"
                       => exit_code'[p] = exit_code[p]]_vars

(* When init_main has no more children, all the other processes have quit; *)
(* it asserts that the number of processes says so.  (initproc is not      *)
(* killed.)                                                                *)
AllQuit == initproc \notin exiting => system # "panic"
=============================================================================
