--------------------------- MODULE ProcessProofs ----------------------------
(***************************************************************************)
(* Proofs about the life of processes (ProcLife) and their pids            *)
(* (PidAlloc), for any number of processes, threads, pids and processors.  *)
(***************************************************************************)
EXTENDS ProcLife, PidAlloc, QueueLemmas

USE ZenonT(30)

-----------------------------------------------------------------------------
(* Life: no process loses its parent and nobody sleeps in do_wait beside a *)
(* dead child.  Both need one invariant.  A thread group is a symmetric    *)
(* ring of living processes, because the heir of an exiting process is     *)
(* taken from its ring; a process inside do_fork runs and waits for        *)
(* nobody, because the child that it will link must find it alive; and     *)
(* initproc, the last resort of orphans, is alone in its group and never   *)
(* exits.                                                                  *)

\* p has been created and has not exited.
Live(p) == state[p] \in {"PROC_RUNNABLE", "PROC_SLEEPING"}

\* initproc can always be an heir.
Initproc ==
  /\ Live(initproc) /\ parent[initproc] = None
  /\ thread_group[initproc] = {initproc} /\ forking[initproc] = "no"

\* The parent of every process but initproc has not exited.
Parents == \A p \in Used \ {initproc} : parent[p] \in Proc /\ Live(parent[p])

\* The thread rings: a partition, whose larger classes hold living processes.
Groups ==
  \A p \in Proc :
    /\ p \in thread_group[p]
    /\ \A q \in thread_group[p] : thread_group[q] = thread_group[p]
    /\ ~Live(p) => thread_group[p] = {p}

\* Who is inside a call has not exited, and is in one call at a time.
Calling ==
  /\ \A p \in Proc : waiting[p] # None => Live(p)
  /\ \A p \in Proc : forking[p] # "no" => state[p] = "PROC_RUNNABLE" /\ waiting[p] = None
  /\ \A p \in dying : Live(p)

\* NoExitMissed, whether or not the system is up.
Sleepers ==
  \A p \in Proc : state[p] = "PROC_SLEEPING" =>
    Kids(p, waiting[p]) # {} /\ Dead(p, waiting[p]) = {}

\* The inductive invariant.
LifeInv == TypeOK /\ Initproc /\ Parents /\ Groups /\ Calling /\ Sleepers

(* The state that init_main leaves behind satisfies the invariant.         *)
LEMMA LifeInitially == LifeConstants => (Init => LifeInv)
<1> SUFFICES ASSUME LifeConstants, Init PROVE LifeInv
  OBVIOUS
<1>1. PICK user_main \in Proc \ {initproc} :
        /\ state = [p \in Proc |-> CASE p = initproc -> "PROC_SLEEPING"
                                     [] p = user_main -> "PROC_RUNNABLE"
                                     [] OTHER -> "PROC_UNINIT"]
        /\ parent = [p \in Proc |-> IF p = user_main THEN initproc ELSE None]
  BY DEF Init
<1>2. /\ thread_group = [p \in Proc |-> {p}]
      /\ waiting = [p \in Proc |-> IF p = initproc THEN AnyChild ELSE None]
      /\ forking = [p \in Proc |-> "no"] /\ exiting = {} /\ dying = {}
      /\ exit_code = [p \in Proc |-> "none"] /\ system = "up"
  BY DEF Init
<1>3. Used = {initproc, user_main}
  BY <1>1 DEF Used, LifeConstants
<1>4. TypeOK
  BY <1>1, <1>2, <1>3 DEF TypeOK, LifeConstants
<1>5. Initproc /\ Parents
  BY <1>1, <1>2, <1>3 DEF Initproc, Parents, Live, LifeConstants
<1>6. Groups /\ Calling
  BY <1>1, <1>2 DEF Groups, Calling, Live, LifeConstants
<1>7. Sleepers
  BY <1>1, <1>2, <1>3 DEF Sleepers, Kids, Dead, LifeConstants
<1> QED BY <1>4, <1>5, <1>6, <1>7 DEF LifeInv

(* __do_exit keeps the invariant, whoever do_exit killed before: the heir  *)
(* is alive, and whoever sleeps beside a child that is dead now has been   *)
(* woken.                                                                  *)
LEMMA Exits ==
  ASSUME LifeConstants, LifeInv, NEW p \in Proc, NEW killed \in SUBSET Proc,
         state[p] = "PROC_RUNNABLE", forking[p] = "no",
         \A q \in killed : state[q] = "PROC_SLEEPING",
         Exit(p, killed),
         exiting \subseteq exiting', exiting' \subseteq Used,
         exit_code' \in [Proc -> {"none", "exit", "killed"}]
  PROVE  LifeInv'
<1>0. PICK heir \in Heirs(p) :
        /\ state' = [q \in Proc |->
             IF q = p THEN "PROC_ZOMBIE"
             ELSE IF q \in killed \cup WokenByExit(p, heir) THEN "PROC_RUNNABLE"
             ELSE state[q]]
        /\ parent' = [c \in Proc |-> IF c \in Adopted(p) THEN heir ELSE parent[c]]
  BY DEF Exit
<1>1. /\ p # initproc
      /\ thread_group' = [q \in Proc |-> IF q = p THEN {p} ELSE thread_group[q] \ {p}]
      /\ waiting' = [waiting EXCEPT ![p] = None]
      /\ dying' = dying \ {p}
      /\ UNCHANGED <<forking, system>>
  BY DEF Exit
<1>2. p \in Used /\ Live(p)
  BY DEF Used, Live
<1>3. /\ heir \in Proc /\ heir # p /\ Live(heir)
      /\ (heir = initproc /\ thread_group[p] = {p}) \/ heir \in thread_group[p]
  <2>1. CASE thread_group[p] = {p}
    BY <1>1, <2>1 DEF Heirs, LifeInv, Initproc, LifeConstants
  <2>2. CASE thread_group[p] # {p}
    <3>1. heir \in thread_group[p] /\ heir # p
      BY <2>2 DEF Heirs
    <3>2. heir \in Proc /\ thread_group[heir] = thread_group[p]
      BY <3>1 DEF LifeInv, TypeOK, Groups
    <3> QED BY <2>2, <3>1, <3>2, SMTT(30) DEF LifeInv, Groups
  <2> QED BY <2>1, <2>2
<1>4. \A q \in WokenByExit(p, heir) : waiting[q] # None /\ q \in Proc /\ Live(q)
  <2>1. parent[p] \in Proc
    BY <1>1, <1>2 DEF LifeInv, Parents
  <2>2. thread_group[parent[p]] \subseteq Proc
    BY <2>1 DEF LifeInv, TypeOK
  <2> QED BY <1>3, <2>2 DEF WokenByExit, LifeInv, Calling
<1>5. ASSUME NEW q \in Proc, q # p
      PROVE  /\ state'[q] = state[q] \/ (state'[q] = "PROC_RUNNABLE" /\ Live(q))
             /\ Live(q)' <=> Live(q)
             /\ state'[q] = "PROC_SLEEPING" => /\ state[q] = "PROC_SLEEPING"
                                               /\ q \notin WokenByExit(p, heir)
             /\ state'[q] = "PROC_ZOMBIE" <=> state[q] = "PROC_ZOMBIE"
  BY <1>0, <1>4, <1>5 DEF Live
<1>6. state'[p] = "PROC_ZOMBIE" /\ Used' = Used
  BY <1>0, <1>2, <1>5 DEF Used, Live
<1>7. TypeOK'
  <2>1. state' \in [Proc -> {"PROC_UNINIT", "PROC_RUNNABLE", "PROC_SLEEPING", "PROC_ZOMBIE"}]
    BY <1>0 DEF LifeInv, TypeOK
  <2>2. parent' \in [Proc -> Proc \cup {None}]
    BY <1>0, <1>3 DEF LifeInv, TypeOK
  <2>3. thread_group' \in [Proc -> SUBSET Proc]
    BY <1>1 DEF LifeInv, TypeOK
  <2>4. waiting' \in [Proc -> Proc \cup {None, AnyChild}]
    BY <1>1 DEF LifeInv, TypeOK
  <2> QED BY <1>1, <1>6, <2>1, <2>2, <2>3, <2>4 DEF LifeInv, TypeOK
<1>8. Initproc'
  BY <1>0, <1>1, <1>5 DEF LifeInv, Initproc, Adopted, LifeConstants
<1>9. Parents'
  <2> SUFFICES ASSUME NEW c \in Used \ {initproc} 
               PROVE  /\ parent'[c] \in Proc
                      /\ state'[parent'[c]] \in {"PROC_RUNNABLE", "PROC_SLEEPING"}
    BY <1>6 DEF Parents, Live
  <2>1. c \in Proc /\ parent[c] \in Proc /\ Live(parent[c])
    BY DEF LifeInv, Parents, Used
  <2>2. CASE parent[c] = p
    <3>1. parent'[c] = heir
      BY <1>0, <2>1, <2>2 DEF Adopted
    <3> QED BY <1>3, <1>5, <3>1 DEF Live
  <2>3. CASE parent[c] # p
    <3>1. parent'[c] = parent[c]
      BY <1>0, <2>1, <2>3 DEF Adopted
    <3> QED BY <1>5, <2>1, <2>3, <3>1 DEF Live
  <2> QED BY <2>2, <2>3
<1>10. Groups'
  <2> SUFFICES ASSUME NEW r \in Proc
               PROVE  /\ r \in thread_group'[r]
                      /\ \A q \in thread_group'[r] : thread_group'[q] = thread_group'[r]
                      /\ ~Live(r)' => thread_group'[r] = {r}
    BY DEF Groups
  <2>1. CASE r = p
    BY <1>1, <2>1
  <2>2. CASE r # p
    <3>1. /\ r \in thread_group[r] /\ thread_group[r] \subseteq Proc
          /\ \A q \in thread_group[r] : thread_group[q] = thread_group[r]
          /\ ~Live(r) => thread_group[r] = {r}
      BY DEF LifeInv, Groups, TypeOK
    <3>2. thread_group'[r] = thread_group[r] \ {p}
      BY <1>1, <2>2
    <3>3. \A q \in thread_group'[r] : thread_group'[q] = thread_group'[r]
      BY <1>1, <3>1, <3>2
    <3> QED BY <1>5, <2>2, <3>1, <3>2, <3>3
  <2> QED BY <2>1, <2>2
<1>11. Calling'
  <2>1. \A q \in Proc : waiting'[q] # None => Live(q)'
    BY <1>1, <1>5 DEF LifeInv, Calling, TypeOK
  <2>2. \A q \in Proc : forking'[q] # "no" => state'[q] = "PROC_RUNNABLE" /\ waiting'[q] = None
    BY <1>1, <1>5 DEF LifeInv, Calling, TypeOK, Live
  <2>3. \A q \in dying' : Live(q)'
    BY <1>1, <1>5 DEF LifeInv, Calling, TypeOK, Used
  <2> QED BY <2>1, <2>2, <2>3 DEF Calling
<1>12. Sleepers'
  <2> SUFFICES ASSUME NEW r \in Proc, state'[r] = "PROC_SLEEPING"
               PROVE  (Kids(r, waiting[r]) # {} /\ Dead(r, waiting[r]) = {})'
    BY DEF Sleepers
  <2>0. PICK t : t = waiting[r]
    OBVIOUS
  <2>1. /\ r # p /\ state[r] = "PROC_SLEEPING" /\ r \notin WokenByExit(p, heir)
        /\ waiting[r] = t /\ waiting'[r] = t /\ thread_group'[r] = thread_group[r] \ {p}
    BY <1>1, <1>5, <1>6, <2>0 DEF LifeInv, TypeOK
  <2>2. Kids(r, t) # {} /\ Dead(r, t) = {}
    BY <2>0, <2>1 DEF LifeInv, Sleepers
  <2>3. t # None
    BY <2>2 DEF Kids, Used, LifeConstants
  <2>4. parent[p] \in Proc /\ parent[p] \notin thread_group[r]
    <3>1. parent[p] \in Proc
      BY <1>1, <1>2 DEF LifeInv, Parents
    <3>2. parent[p] \in thread_group[r] => r \in thread_group[parent[p]]
      BY DEF LifeInv, Groups
    <3> QED BY <2>1, <2>3, <3>1, <3>2 DEF WokenByExit
  <2>5. Kids(r, t) \subseteq Kids(r, t)'
    <3> SUFFICES ASSUME NEW c \in Kids(r, t) PROVE c \in Used /\ parent'[c] \in thread_group'[r]
      BY <1>6 DEF Kids
    <3>1. c \in Used /\ c \in Proc /\ parent[c] \in thread_group[r]
      BY DEF Kids, Used
    <3>2. CASE parent[c] = p
      <4>1. thread_group[p] = thread_group[r] /\ r \in thread_group[r]
        BY <3>1, <3>2 DEF LifeInv, Groups
      <4>2. heir \in thread_group[r]
        BY <1>3, <2>1, <4>1
      <4>3. parent'[c] = heir
        BY <1>0, <3>1, <3>2 DEF Adopted
      <4> QED BY <1>3, <2>1, <3>1, <4>2, <4>3
    <3>3. CASE parent[c] # p
      <4>1. parent'[c] = parent[c]
        BY <1>0, <3>1, <3>3 DEF Adopted
      <4> QED BY <2>1, <3>1, <3>3, <4>1
    <3> QED BY <3>2, <3>3
  <2>6. ASSUME NEW c \in Kids(r, t)', state'[c] = "PROC_ZOMBIE"
        PROVE  FALSE
    <3>1. /\ c \in Used /\ c \in Proc /\ parent'[c] \in thread_group[r] \ {p}
          /\ t = AnyChild \/ c = t
      BY <1>6, <2>1 DEF Kids, Used
    <3>2. CASE parent[c] # p
      <4>1. parent[c] \in thread_group[r]
        BY <1>0, <3>1, <3>2 DEF Adopted
      <4>2. c # p
        BY <2>4, <4>1
      <4>3. c \in Dead(r, t)
        BY <1>5, <2>6, <3>1, <4>1, <4>2 DEF Dead, Kids
      <4> QED BY <2>2, <4>3
    <3>3. CASE parent[c] = p
      <4>1. c \in Adopted(p) /\ heir \in thread_group[r]
        BY <1>0, <3>1, <3>3 DEF Adopted
      <4>2. CASE heir \in thread_group[p]
        <5>1. p \in thread_group[r]
          BY <1>3, <4>1, <4>2 DEF LifeInv, Groups
        <5>2. c # p
          BY <2>4, <3>3, <5>1
        <5>3. c \in Dead(r, t)
          BY <1>5, <2>6, <3>1, <3>3, <5>1, <5>2 DEF Dead, Kids
        <5> QED BY <2>2, <5>3
      <4>3. CASE heir = initproc
        <5>1. r = initproc
          BY <4>1, <4>3 DEF LifeInv, Groups, Initproc
        <5>2. state[c] = "PROC_ZOMBIE" \/ c = p
          BY <1>5, <2>6, <3>1
        <5>3. r \in WokenByExit(p, heir)
          BY <2>1, <2>3, <4>1, <4>3, <5>1, <5>2 DEF WokenByExit
        <5> QED BY <2>1, <5>3
      <4> QED BY <1>3, <4>2, <4>3
    <3> QED BY <3>2, <3>3
  <2> QED BY <2>1, <2>2, <2>5, <2>6 DEF Dead
<1> QED BY <1>7, <1>8, <1>9, <1>10, <1>11, <1>12 DEF LifeInv

(* do_kill keeps the invariant: it only makes sleepers runnable.           *)
LEMMA Kills ==
  ASSUME LifeConstants, LifeInv, NEW p \in Proc, NEW q \in Proc, do_kill(p, q)
  PROVE  LifeInv'
<1>0. /\ q \in Used /\ state[p] = "PROC_RUNNABLE"
      /\ exiting' = exiting \cup {q}
      /\ dying' = dying \cup ({p} \cap exiting')
      /\ exit_code' = [exit_code EXCEPT ![q] = IF q \in exiting THEN @ ELSE "killed"]
      /\ state' = [r \in Proc |-> IF r \in Interrupted({q}) THEN "PROC_RUNNABLE" ELSE state[r]]
      /\ UNCHANGED <<parent, thread_group, waiting, forking, system>>
  BY DEF do_kill, InUser
<1>1. ASSUME NEW r \in Proc
      PROVE  /\ state'[r] = state[r]
                \/ (state[r] = "PROC_SLEEPING" /\ state'[r] = "PROC_RUNNABLE")
             /\ Live(r)' <=> Live(r)
  BY <1>0 DEF Interrupted, Live
<1>2. Used' = Used
  BY <1>1 DEF Used
<1>3. TypeOK'
  <2>1. state' \in [Proc -> {"PROC_UNINIT", "PROC_RUNNABLE", "PROC_SLEEPING", "PROC_ZOMBIE"}]
    BY <1>0 DEF LifeInv, TypeOK
  <2>2. exit_code' \in [Proc -> {"none", "exit", "killed"}]
    BY <1>0 DEF LifeInv, TypeOK
  <2> QED BY <1>0, <1>2, <2>1, <2>2 DEF LifeInv, TypeOK
<1>4. Initproc' /\ Parents'
  <2>1. Initproc'
    BY <1>0, <1>1 DEF LifeInv, Initproc, LifeConstants
  <2>2. Parents'
    BY <1>0, <1>1, <1>2 DEF LifeInv, Parents, Live
  <2> QED BY <2>1, <2>2
<1>5. Groups'
  BY <1>0, <1>1 DEF LifeInv, Groups
<1>6. Calling'
  <2>1. \A r \in Proc : waiting'[r] # None => Live(r)'
    BY <1>0, <1>1 DEF LifeInv, Calling
  <2>2. \A r \in Proc : forking'[r] # "no" => state'[r] = "PROC_RUNNABLE" /\ waiting'[r] = None
    BY <1>0, <1>1 DEF LifeInv, Calling
  <2>3. \A r \in dying' : Live(r)'
    BY <1>0, <1>1 DEF LifeInv, Calling, TypeOK, Used, Live
  <2> QED BY <2>1, <2>2, <2>3 DEF Calling
<1>7. Sleepers'
  BY <1>0, <1>1, <1>2, SMTT(30) DEF LifeInv, Sleepers, Kids, Dead, Used
<1> QED BY <1>3, <1>4, <1>5, <1>6, <1>7 DEF LifeInv

(* Reaping a zombie keeps the invariant: a zombie is nobody's parent and   *)
(* belongs to no ring, and no sleeper counted on it, because a sleeper has *)
(* no dead child.                                                          *)
LEMMA Reaps ==
  ASSUME LifeConstants, LifeInv, NEW p \in Proc, NEW t, state[p] = "PROC_RUNNABLE",
         forking[p] = "no", reap(p, t), UNCHANGED <<thread_group, forking>>
  PROVE  LifeInv'
<1>0. PICK c \in Dead(p, t) :
        /\ state' = [state EXCEPT ![c] = "PROC_UNINIT", ![p] = "PROC_RUNNABLE"]
        /\ parent' = [parent EXCEPT ![c] = None]
        /\ exiting' = exiting \ {c}
        /\ exit_code' = [exit_code EXCEPT ![c] = "none"]
        /\ waiting' = [waiting EXCEPT ![p] = Returned(p, Used \ {c})]
        /\ dying' = dying \cup ({p} \cap exiting)
        /\ system' = IF p = initproc /\ Used \ {c} = {initproc} THEN "halted" ELSE system
  BY DEF reap, Return
<1>1. /\ c \in Proc /\ c \in Used /\ state[c] = "PROC_ZOMBIE" /\ c # p /\ c # initproc
      /\ ~Live(c) /\ waiting[c] = None /\ forking[c] = "no" /\ c \notin dying
  <2>1. c \in Proc /\ c \in Used /\ state[c] = "PROC_ZOMBIE"
    BY DEF Dead, Kids, Used
  <2> QED BY <2>1 DEF LifeInv, Initproc, Calling, Live
<1>2. /\ state' \in [Proc -> {"PROC_UNINIT", "PROC_RUNNABLE", "PROC_SLEEPING", "PROC_ZOMBIE"}]
      /\ state'[c] = "PROC_UNINIT" /\ \A r \in Proc \ {c} : state'[r] = state[r]
  BY <1>0, <1>1 DEF LifeInv, TypeOK
<1>3. Used' = Used \ {c}
  BY <1>1, <1>2 DEF Used
<1>4. /\ parent' \in [Proc -> Proc \cup {None}]
      /\ \A r \in Proc \ {c} : parent'[r] = parent[r]
      /\ waiting' \in [Proc -> Proc \cup {None, AnyChild}]
      /\ \A r \in Proc \ {p} : waiting'[r] = waiting[r]
      /\ exit_code' \in [Proc -> {"none", "exit", "killed"}]
  BY <1>0 DEF LifeInv, TypeOK, Returned
<1>5. TypeOK'
  BY <1>0, <1>1, <1>2, <1>3, <1>4, SMTT(30) DEF LifeInv, TypeOK
<1>6. Initproc'
  BY <1>1, <1>2, <1>4 DEF LifeInv, Initproc, Live, LifeConstants
<1>7. Parents'
  BY <1>1, <1>2, <1>3, <1>4, SMTT(30) DEF LifeInv, Parents, Live, Used
<1>8. Groups'
  BY <1>1, <1>2 DEF LifeInv, Groups, Live
<1>9. Calling'
  <2>1. \A r \in Proc : waiting'[r] # None => Live(r)'
    BY <1>1, <1>2, <1>4 DEF LifeInv, Calling, Live
  <2>2. \A r \in Proc : forking'[r] # "no" => state'[r] = "PROC_RUNNABLE" /\ waiting'[r] = None
    BY <1>1, <1>2, <1>4 DEF LifeInv, Calling
  <2>3. \A r \in dying' : Live(r)'
    BY <1>0, <1>1, <1>2 DEF LifeInv, Calling, TypeOK, Used, Live
  <2> QED BY <2>1, <2>2, <2>3 DEF Calling
<1>10. Sleepers'
  <2> SUFFICES ASSUME NEW r \in Proc, state'[r] = "PROC_SLEEPING"
               PROVE  (Kids(r, waiting[r]) # {} /\ Dead(r, waiting[r]) = {})'
    BY DEF Sleepers
  <2>1. PICK u : u = waiting[r]
    OBVIOUS
  <2>2. r # p /\ r # c /\ state[r] = "PROC_SLEEPING" /\ waiting'[r] = u
    BY <1>1, <1>2, <1>4, <2>1
  <2>3. Kids(r, u) # {} /\ Dead(r, u) = {}
    BY <2>1, <2>2 DEF LifeInv, Sleepers
  <2>4. c \notin Kids(r, u)
    BY <1>1, <2>3 DEF Dead
  <2>5. Kids(r, u)' = Kids(r, u)
    BY <1>1, <1>3, <1>4, <2>4 DEF Kids, Used
  <2>6. Dead(r, u)' = {}
    BY <1>2, <2>3, <2>4, <2>5 DEF Dead, Kids, Used
  <2> QED BY <2>2, <2>3, <2>5, <2>6
<1> QED BY <1>5, <1>6, <1>7, <1>8, <1>9, <1>10 DEF LifeInv

(* Going to sleep in do_wait keeps the invariant, since do_wait has just   *)
(* looked for a dead child.                                                *)
LEMMA Sleeps ==
  ASSUME LifeConstants, LifeInv, NEW p \in Proc, NEW t \in Proc \cup {AnyChild},
         state[p] = "PROC_RUNNABLE", forking[p] = "no", wait_sleep(p, t),
         UNCHANGED <<thread_group, forking>>
  PROVE  LifeInv'
<1>0. /\ Kids(p, t) # {} /\ Dead(p, t) = {}
      /\ state' = [state EXCEPT ![p] = "PROC_SLEEPING"]
      /\ waiting' = [waiting EXCEPT ![p] = t]
      /\ UNCHANGED <<parent, exiting, dying, exit_code, system>>
  BY DEF wait_sleep
<1>1. /\ state' \in [Proc -> {"PROC_UNINIT", "PROC_RUNNABLE", "PROC_SLEEPING", "PROC_ZOMBIE"}]
      /\ state'[p] = "PROC_SLEEPING" /\ \A r \in Proc \ {p} : state'[r] = state[r]
      /\ waiting' \in [Proc -> Proc \cup {None, AnyChild}]
      /\ waiting'[p] = t /\ \A r \in Proc \ {p} : waiting'[r] = waiting[r]
  BY <1>0 DEF LifeInv, TypeOK
<1>2. \A r \in Proc : Live(r)' <=> Live(r)
  BY <1>1 DEF Live
<1>3. Used' = Used
  BY <1>1 DEF Used
<1>4. TypeOK'
  BY <1>0, <1>1, <1>3 DEF LifeInv, TypeOK
<1>5. Initproc' /\ Parents' /\ Groups'
  <2>1. Initproc'
    BY <1>0, <1>2 DEF LifeInv, Initproc, LifeConstants
  <2>2. Parents'
    BY <1>0, <1>2, <1>3 DEF LifeInv, Parents, Live
  <2>3. Groups'
    BY <1>2 DEF LifeInv, Groups
  <2> QED BY <2>1, <2>2, <2>3
<1>6. Calling'
  BY <1>0, <1>1, <1>2, SMTT(30) DEF LifeInv, Calling, Live, TypeOK, Used
<1>7. \A r \in Proc : state'[r] = "PROC_ZOMBIE" <=> state[r] = "PROC_ZOMBIE"
  BY <1>1
<1>8. \A r, u : Kids(r, u)' = Kids(r, u) /\ Dead(r, u)' = Dead(r, u)
  BY <1>0, <1>3, <1>7 DEF Kids, Dead, Used
<1>9. Sleepers'
  <2> SUFFICES ASSUME NEW r \in Proc, state'[r] = "PROC_SLEEPING"
               PROVE  (Kids(r, waiting[r]) # {} /\ Dead(r, waiting[r]) = {})'
    BY DEF Sleepers
  <2>1. PICK u : u = waiting'[r]
    OBVIOUS
  <2>2. Kids(r, u) # {} /\ Dead(r, u) = {}
    BY <1>0, <1>1, <2>1 DEF LifeInv, Sleepers
  <2> QED BY <1>8, <2>1, <2>2
<1> QED BY <1>4, <1>5, <1>6, <1>9 DEF LifeInv

(* do_wait without a child keeps the invariant.                            *)
LEMMA NothingToReap ==
  ASSUME LifeConstants, LifeInv, NEW p \in Proc, NEW t, state[p] = "PROC_RUNNABLE",
         wait_nobody(p, t), UNCHANGED <<thread_group, forking>>
  PROVE  LifeInv'
<1>1. /\ waiting' = [waiting EXCEPT ![p] = None]
      /\ dying' = dying \cup ({p} \cap exiting)
      /\ system' \in {system, "halted", "panic"}
      /\ UNCHANGED <<state, parent, exiting, exit_code>>
  BY DEF wait_nobody, Return
<1>2. /\ waiting' \in [Proc -> Proc \cup {None, AnyChild}]
      /\ waiting'[p] = None /\ \A r \in Proc \ {p} : waiting'[r] = waiting[r]
  BY <1>1 DEF LifeInv, TypeOK
<1>3. Used' = Used
  BY <1>1 DEF Used
<1>4. TypeOK'
  BY <1>1, <1>2, <1>3 DEF LifeInv, TypeOK
<1>5. Initproc' /\ Parents' /\ Groups'
  BY <1>1, <1>3 DEF LifeInv, Initproc, Parents, Groups, Live
<1>6. Calling'
  BY <1>1, <1>2 DEF LifeInv, Calling, Live
<1>7. Sleepers'
  BY <1>1, <1>2, <1>3, SMTT(30) DEF LifeInv, Sleepers, Kids, Dead
<1> QED BY <1>4, <1>5, <1>6, <1>7 DEF LifeInv

(* One pass of the loop of do_wait keeps the invariant.                    *)
LEMMA Waits ==
  ASSUME LifeConstants, LifeInv, NEW p \in Proc, NEW t \in Proc \cup {AnyChild},
         state[p] = "PROC_RUNNABLE", forking[p] = "no", WaitStep(p, t)
  PROVE  LifeInv'
<1>1. CASE reap(p, t)
  BY <1>1, Reaps DEF WaitStep
<1>2. CASE wait_sleep(p, t)
  BY <1>2, Sleeps DEF WaitStep
<1>3. CASE wait_nobody(p, t)
  BY <1>3, NothingToReap DEF WaitStep
<1> QED BY <1>1, <1>2, <1>3 DEF WaitStep

(* Entering do_fork, and leaving it without a child, keeps the invariant.  *)
LEMMA Forks ==
  ASSUME LifeConstants, LifeInv, NEW p \in Proc, NEW kind \in {"no", "process", "thread"},
         forking' = [forking EXCEPT ![p] = kind],
         kind # "no" => InUser(p),
         dying' \subseteq dying \cup ({p} \cap exiting), state[p] = "PROC_RUNNABLE",
         UNCHANGED <<state, parent, thread_group, waiting, exiting, exit_code, system>>
  PROVE  LifeInv'
<1>1. /\ forking' \in [Proc -> {"no", "process", "thread"}]
      /\ forking'[p] = kind /\ \A r \in Proc \ {p} : forking'[r] = forking[r]
  BY DEF LifeInv, TypeOK
<1>2. Used' = Used
  BY DEF Used
<1>3. TypeOK'
  BY <1>1, <1>2 DEF LifeInv, TypeOK
<1>4. Initproc'
  BY <1>1 DEF LifeInv, Initproc, Live, InUser, LifeConstants
<1>5. Parents' /\ Groups'
  BY <1>2 DEF LifeInv, Parents, Groups, Live
<1>6. Calling'
  BY <1>1 DEF LifeInv, Calling, Live, InUser
<1>7. Sleepers'
  BY <1>2 DEF LifeInv, Sleepers, Kids, Dead
<1> QED BY <1>3, <1>4, <1>5, <1>6, <1>7 DEF LifeInv

(* Linking the child keeps the invariant: its slot was unused, hence       *)
(* nobody's parent, and the forking process is still alive.                *)
LEMMA Links ==
  ASSUME LifeConstants, LifeInv, NEW p \in Proc, NEW q \in Proc, do_fork_links(p, q)
  PROVE  LifeInv'
<1> DEFINE group == thread_group[p] \cup {q}
<1>0. /\ forking[p] # "no" /\ q \notin Used
      /\ state' = [state EXCEPT ![q] = "PROC_RUNNABLE"]
      /\ parent' = [parent EXCEPT ![q] = p]
      /\ thread_group' = [r \in Proc |-> IF forking[p] = "thread" /\ r \in group
                                         THEN group ELSE thread_group[r]]
      /\ forking' = [forking EXCEPT ![p] = "no"]
      /\ dying' = dying \cup ({p} \cap exiting)
      /\ UNCHANGED <<waiting, exiting, exit_code, system>>
  BY DEF do_fork_links, Return
<1>1. /\ state[p] = "PROC_RUNNABLE" /\ waiting[p] = None /\ p # initproc
      /\ state[q] = "PROC_UNINIT" /\ q # p /\ q # initproc /\ ~Live(q)
      /\ waiting[q] = None /\ forking[q] = "no" /\ thread_group[q] = {q}
  <2>1. state[p] = "PROC_RUNNABLE" /\ waiting[p] = None /\ p # initproc
    BY <1>0 DEF LifeInv, Calling, Initproc
  <2>2. state[q] = "PROC_UNINIT" /\ ~Live(q)
    BY <1>0 DEF Used, Live
  <2> QED BY <2>1, <2>2 DEF LifeInv, Calling, Initproc, Groups, Live
<1>2. /\ state' \in [Proc -> {"PROC_UNINIT", "PROC_RUNNABLE", "PROC_SLEEPING", "PROC_ZOMBIE"}]
      /\ state'[q] = "PROC_RUNNABLE" /\ \A r \in Proc \ {q} : state'[r] = state[r]
      /\ parent' \in [Proc -> Proc \cup {None}]
      /\ parent'[q] = p /\ \A r \in Proc \ {q} : parent'[r] = parent[r]
      /\ forking' \in [Proc -> {"no", "process", "thread"}]
      /\ forking'[p] = "no" /\ \A r \in Proc \ {p} : forking'[r] = forking[r]
  BY <1>0 DEF LifeInv, TypeOK
<1>3. Used' = Used \cup {q}
  BY <1>2 DEF Used
<1>4. \A r \in Proc : Live(r) => Live(r)'
  BY <1>1, <1>2 DEF Live
<1>5. /\ thread_group' \in [Proc -> SUBSET Proc]
      /\ \A r \in Proc : thread_group[r] \subseteq thread_group'[r]
      /\ \A r \in Proc : r # q => thread_group'[r] \subseteq thread_group[r] \cup {q}
  <2>1. group \subseteq Proc
    BY DEF LifeInv, TypeOK
  <2>2. \A r \in thread_group[p] : thread_group[r] = thread_group[p]
    BY DEF LifeInv, Groups
  <2> QED BY <1>0, <1>1, <2>1, <2>2 DEF LifeInv, TypeOK
<1>6. TypeOK'
  BY <1>0, <1>2, <1>3, <1>5 DEF LifeInv, TypeOK
<1>7. Initproc'
  <2>1. initproc \notin group
    BY <1>1 DEF LifeInv, Initproc, Groups
  <2> HIDE DEF group
  <2>2. thread_group'[initproc] = {initproc}
    BY <1>0, <2>1 DEF LifeInv, Initproc, LifeConstants
  <2> QED BY <1>1, <1>2, <1>4, <2>2 DEF LifeInv, Initproc, LifeConstants
<1>8. Parents'
  <2> SUFFICES ASSUME NEW r \in Used', r # initproc
               PROVE  (parent[r] \in Proc /\ Live(parent[r]))'
    BY DEF Parents
  <2>1. CASE r = q
    BY <1>1, <1>2, <2>1 DEF Live
  <2>2. CASE r # q
    <3>1. r \in Proc /\ r \in Used /\ parent'[r] = parent[r]
      BY <1>2, <1>3, <2>2 DEF Used
    <3>2. PICK m \in Proc : m = parent[r] /\ Live(m)
      BY <3>1 DEF LifeInv, Parents
    <3>3. Live(m)'
      BY <1>4, <3>2
    <3> QED BY <3>1, <3>2, <3>3 DEF Live
  <2> QED BY <2>1, <2>2
<1>9. Groups'
  <2> SUFFICES ASSUME NEW r \in Proc
               PROVE  /\ r \in thread_group'[r]
                      /\ \A s \in thread_group'[r] : thread_group'[s] = thread_group'[r]
                      /\ ~Live(r)' => thread_group'[r] = {r}
    BY DEF Groups
  <2>1. /\ r \in thread_group[r] /\ thread_group[r] \subseteq Proc
        /\ \A s \in thread_group[r] : thread_group[s] = thread_group[r]
        /\ ~Live(r) => thread_group[r] = {r}
    BY DEF LifeInv, Groups, TypeOK
  <2>2. /\ p \in thread_group[p] /\ group \subseteq Proc
        /\ \A s \in thread_group[p] : thread_group[s] = thread_group[p]
    BY DEF LifeInv, Groups, TypeOK
  <2>3. CASE forking[p] = "thread" /\ r \in group
    <3>1. thread_group'[r] = group /\ \A s \in group : thread_group'[s] = group
      BY <1>0, <2>2, <2>3
    <3>2. Live(r)'
      <4>1. CASE r = q
        BY <1>2, <4>1 DEF Live
      <4>2. CASE r # q
        <5>1. p \in thread_group[r]
          BY <2>2, <2>3, <4>2
        <5>2. Live(r)
          BY <1>1, <2>1, <5>1 DEF Live
        <5> QED BY <1>4, <5>2
      <4> QED BY <4>1, <4>2
    <3> QED BY <2>3, <3>1, <3>2
  <2>4. CASE ~(forking[p] = "thread" /\ r \in group)
    <3>1. thread_group'[r] = thread_group[r]
      BY <1>0, <2>4
    <3>2. ASSUME NEW s \in thread_group[r], forking[p] = "thread"
          PROVE  s \notin group
      <4>1. thread_group[s] = thread_group[r]
        BY <2>1, <3>2
      <4>2. CASE s = q
        BY <1>1, <2>1, <2>4, <3>2, <4>1, <4>2
      <4>3. CASE s \in thread_group[p]
        BY <2>1, <2>2, <2>4, <3>2, <4>1, <4>3
      <4> QED BY <4>2, <4>3
    <3> HIDE DEF group
    <3>3. \A s \in thread_group[r] : thread_group'[s] = thread_group[r]
      BY <1>0, <2>1, <3>2
    <3> QED BY <1>4, <2>1, <3>1, <3>3
  <2> QED BY <2>3, <2>4
<1>10. Calling'
  <2>1. \A r \in Proc : waiting'[r] # None => Live(r)'
    BY <1>0, <1>4 DEF LifeInv, Calling
  <2>2. \A r \in Proc : forking'[r] # "no" => state'[r] = "PROC_RUNNABLE" /\ waiting'[r] = None
    BY <1>0, <1>1, <1>2 DEF LifeInv, Calling
  <2>3. \A r \in dying' : Live(r)'
    BY <1>0, <1>1, <1>4 DEF LifeInv, Calling, TypeOK, Used, Live
  <2> QED BY <2>1, <2>2, <2>3 DEF Calling
<1>11. Sleepers'
  <2> SUFFICES ASSUME NEW r \in Proc, state'[r] = "PROC_SLEEPING"
               PROVE  (Kids(r, waiting[r]) # {} /\ Dead(r, waiting[r]) = {})'
    BY DEF Sleepers
  <2>1. PICK u : u = waiting[r]
    OBVIOUS
  <2>2. r # q /\ state[r] = "PROC_SLEEPING" /\ waiting'[r] = u
    BY <1>0, <1>2, <2>1
  <2>3. Kids(r, u) # {} /\ Dead(r, u) = {}
    BY <2>1, <2>2 DEF LifeInv, Sleepers
  <2>4. Kids(r, u) \subseteq Kids(r, u)'
    BY <1>0, <1>2, <1>3, <1>5 DEF Kids, Used
  <2>5. ASSUME NEW c \in Dead(r, u)'
        PROVE  FALSE
    <3>1. /\ c \in Proc /\ c \in Used' /\ parent'[c] \in thread_group'[r]
          /\ (u = AnyChild \/ c = u) /\ state'[c] = "PROC_ZOMBIE"
      BY <2>5 DEF Dead, Kids, Used
    <3>2. c # q /\ c \in Used /\ state[c] = "PROC_ZOMBIE" /\ parent'[c] = parent[c]
      BY <1>2, <1>3, <3>1
    <3>3. Live(parent[c])
      BY <3>2 DEF LifeInv, Parents, Initproc, Live
    <3>4. parent[c] # q
      BY <1>1, <3>3
    <3>5. parent[c] \in thread_group[r]
      BY <1>5, <2>2, <3>1, <3>2, <3>4
    <3> QED BY <2>3, <3>1, <3>2, <3>5 DEF Dead, Kids
  <2> QED BY <2>2, <2>3, <2>4, <2>5
<1> QED BY <1>6, <1>7, <1>8, <1>9, <1>10, <1>11 DEF LifeInv

(* A step that changes no process, such as a failing assertion.            *)
LEMMA LifeRests ==
  ASSUME LifeInv, system' \in {"up", "halted", "panic"},
         UNCHANGED <<state, parent, thread_group, waiting, forking, exiting, dying,
                     exit_code>>
  PROVE  LifeInv'
<1>1. TypeOK'
  BY DEF LifeInv, TypeOK, Used
<1>2. Initproc' /\ Groups' /\ Calling'
  BY DEF LifeInv, Initproc, Groups, Calling, Live
<1>3. Parents'
  BY DEF LifeInv, Parents, Live, Used
<1>4. Sleepers'
  BY DEF LifeInv, Sleepers, Kids, Dead, Used
<1> QED BY <1>1, <1>2, <1>3, <1>4 DEF LifeInv

(* Every step keeps the invariant.                                         *)
LEMMA LifeSteps == LifeConstants => (LifeInv /\ [Next]_vars => LifeInv')
<1> SUFFICES ASSUME LifeConstants, LifeInv, [Next]_vars PROVE LifeInv'
  OBVIOUS
<1>1. CASE UNCHANGED vars
  <2>1. system \in {"up", "halted", "panic"}
    BY DEF LifeInv, TypeOK
  <2> QED BY <1>1, <2>1, LifeRests DEF vars
<1>2. ASSUME NEW p \in Proc, Continue(p)
      PROVE  LifeInv'
  <2>1. CASE do_wait_again(p)
    <3>1. /\ state[p] = "PROC_RUNNABLE" /\ waiting[p] \in Proc \cup {AnyChild}
          /\ WaitStep(p, waiting[p])
      BY <2>1 DEF do_wait_again, LifeInv, TypeOK
    <3>2. forking[p] = "no"
      BY <2>1 DEF do_wait_again, LifeInv, Calling
    <3> QED BY <3>1, <3>2, Waits
  <2>2. CASE may_killed(p)
    <3>1. CASE Exit(p, {}) /\ UNCHANGED <<exiting, exit_code>>
      BY <2>2, <3>1, Exits DEF may_killed, LifeInv, TypeOK
    <3>2. CASE /\ system' = "panic"
               /\ UNCHANGED <<state, parent, thread_group, waiting, forking, exiting,
                              dying, exit_code>>
      BY <3>2, LifeRests
    <3> QED BY <2>2, <3>1, <3>2 DEF may_killed
  <2>3. CASE do_fork_fails(p)
    <3>1. state[p] = "PROC_RUNNABLE"
      BY <2>3 DEF do_fork_fails, LifeInv, Calling
    <3> QED BY <2>3, <3>1, Forks DEF do_fork_fails, Return
  <2>4. CASE \E q \in Proc : do_fork_links(p, q)
    BY <2>4, Links
  <2> QED BY <1>2, <2>1, <2>2, <2>3, <2>4 DEF Continue
<1>3. ASSUME NEW p \in Proc, Call(p)
      PROVE  LifeInv'
  <2>1. CASE do_exit(p)
    <3>1. PICK others : others = thread_group[p] \ {p}
      OBVIOUS
    <3>2. /\ InUser(p) /\ Exit(p, Interrupted(others)) /\ exiting' = exiting \cup others
          /\ exit_code' = [q \in Proc |-> IF q = p \/ q \in others \ exiting THEN "exit"
                                          ELSE exit_code[q]]
      BY <2>1, <3>1 DEF do_exit
    <3>3. others \subseteq Used
      BY <3>1, SMTT(30) DEF LifeInv, Groups, Live, Used, TypeOK
    <3>4. Interrupted(others) \in SUBSET Proc
          /\ \A q \in Interrupted(others) : state[q] = "PROC_SLEEPING"
      BY <3>3 DEF Interrupted, Used
    <3>5. exit_code' \in [Proc -> {"none", "exit", "killed"}]
      BY <3>2 DEF LifeInv, TypeOK
    <3>6. exiting' \subseteq Used /\ exiting \subseteq exiting'
      BY <3>2, <3>3 DEF LifeInv, TypeOK
    <3> QED BY <3>2, <3>4, <3>5, <3>6, Exits DEF InUser
  <2>2. CASE do_exit_thread(p)
    <3>1. exit_code' \in [Proc -> {"none", "exit", "killed"}]
      BY <2>2 DEF do_exit_thread, LifeInv, TypeOK
    <3> QED BY <2>2, <3>1, Exits DEF do_exit_thread, InUser, LifeInv, TypeOK
  <2>3. CASE \E q \in Proc : do_kill(p, q)
    BY <2>3, Kills
  <2>4. CASE \E t \in Proc \cup {AnyChild} : do_wait(p, t)
    BY <2>4, Waits DEF do_wait, InUser
  <2>5. CASE \E kind \in {"process", "thread"} : do_fork(p, kind)
    BY <2>5, Forks DEF do_fork, InUser
  <2> QED BY <1>3, <2>1, <2>2, <2>3, <2>4, <2>5 DEF Call
<1> QED BY <1>1, <1>2, <1>3 DEF Next, Kernel

(* The invariant holds in every reachable state.                           *)
LEMMA LifeHolds == ASSUME LifeConstants PROVE Spec => []LifeInv
<1>1. Init => LifeInv
  BY LifeInitially
<1>2. LifeInv /\ [Next]_vars => LifeInv'
  BY LifeSteps
<1> QED BY <1>1, <1>2, PTL DEF Spec

(* NothingToReap is ever orphaned (__do_exit, do_fork, do_wait): the parent of    *)
(* every process has not exited, and the dead are in no thread group.  The *)
(* fields of the process structures keep their ranges.                     *)
THEOREM ParentsCorrect == ASSUME LifeConstants PROVE Spec => [](TypeOK /\ ParentsLive)
<1>0. LifeInv => TypeOK
  BY DEF LifeInv
<1>1. LifeInv => ParentsLive
  <2> SUFFICES ASSUME LifeInv PROVE ParentsLive
    OBVIOUS
  <2>1. \A p \in Used \ {initproc} : state[parent[p]] \in {"PROC_RUNNABLE", "PROC_SLEEPING"}
    BY DEF LifeInv, Parents, Live
  <2>2. ASSUME NEW p \in Used, NEW q \in thread_group[p]
        PROVE  thread_group[q] = thread_group[p] /\ (q # p => state[q] # "PROC_ZOMBIE")
    <3>1. p \in Proc /\ q \in Proc
      BY DEF LifeInv, TypeOK, Used
    <3>2. thread_group[q] = thread_group[p] /\ p \in thread_group[q]
      BY <3>1 DEF LifeInv, Groups
    <3>3. ~Live(q) => thread_group[q] = {q}
      BY <3>1 DEF LifeInv, Groups
    <3> QED BY <3>2, <3>3 DEF Live
  <2> QED BY <2>1, <2>2 DEF ParentsLive
<1> QED BY <1>0, <1>1, LifeHolds, PTL

(* No exit is missed (do_wait, __do_exit): a process that sleeps in        *)
(* do_wait has a child to wait for and none that is dead.                  *)
THEOREM ExitsNoticed == ASSUME LifeConstants PROVE Spec => []NoExitMissed
<1>1. LifeInv => NoExitMissed
  BY DEF LifeInv, Sleepers, NoExitMissed
<1> QED BY <1>1, LifeHolds, PTL

-----------------------------------------------------------------------------
(* Pids: get_pid gives every process a pid of its own.                     *)

(* The inductive invariant.  Behind the walk no process has a pid from     *)
(* last_pid up to next_safe: so the next pid is free behind the walk as    *)
(* long as it stays below next_safe, and at the end it is free.            *)
WalkInv ==
  /\ PidTypeOK
  /\ IsQueueOf(proc_list, Range(proc_list))
  /\ pc \in {"walk", "found"} => /\ last_pid < MAX_PID /\ last_pid < next_safe
                                 /\ forks > 0
  /\ pc = "walk" => /\ le <= Len(proc_list) + 1
                    /\ \A i \in 1..(le - 1) : proc_list[i] \notin last_pid..(next_safe - 1)
  /\ pc = "user" => \A i \in 1..Len(proc_list) :
                      proc_list[i] \notin (last_pid + 1)..(next_safe - 1)
  /\ pc = "found" => \A i \in 1..Len(proc_list) :
                      proc_list[i] \notin last_pid..(next_safe - 1)

\* The invariant holds at the start.
LEMMA WalkInit == PidInit => WalkInv
<1> SUFFICES ASSUME PidInit PROVE WalkInv
  OBVIOUS
<1>1. Range(proc_list) = {} /\ Len(proc_list) = 0 /\ proc_list \in Seq(1..(MAX_PID - 1))
  BY EmptySeq, SMTT(30) DEF PidInit, Range
<1>2. IsQueueOf(proc_list, Range(proc_list))
  BY <1>1, EmptyQueue DEF PidInit
<1> QED
  BY <1>1, <1>2, PidAssumption, SMTT(30) DEF PidInit, WalkInv, PidTypeOK

\* get_pid starts.
LEMMA StartKeeps == WalkInv /\ get_pid => WalkInv'
<1> SUFFICES ASSUME WalkInv, get_pid PROVE WalkInv'
  OBVIOUS
<1> USE PidAssumption
<1>1. /\ last_pid \in Nat /\ next_safe \in Nat /\ next_safe <= MAX_PID
      /\ Len(proc_list) \in Nat /\ proc_list \in Seq(1..(MAX_PID - 1))
      /\ DOMAIN proc_list = 1..Len(proc_list)
      /\ \A i \in 1..Len(proc_list) : proc_list[i] \in Nat
  BY LenProperties, ElementOfSeq, SMTT(30) DEF WalkInv, PidTypeOK
<1>2. PidTypeOK'
  BY <1>1, SMTT(30) DEF WalkInv, PidTypeOK, get_pid
<1>3. IsQueueOf(proc_list', Range(proc_list'))
  BY DEF WalkInv, get_pid
<1>4. CASE last_pid + 1 >= MAX_PID \/ last_pid + 1 >= next_safe
  BY <1>1, <1>2, <1>3, <1>4, SMTT(30) DEF WalkInv, get_pid
<1>5. CASE ~(last_pid + 1 >= MAX_PID \/ last_pid + 1 >= next_safe)
  <2>1. /\ pc' = "found" /\ last_pid' = last_pid + 1 /\ next_safe' = next_safe
        /\ proc_list' = proc_list /\ forks' > 0
    BY <1>5 DEF get_pid
  <2>2. \A i \in 1..Len(proc_list) : proc_list[i] \notin (last_pid + 1)..(next_safe - 1)
    BY DEF WalkInv, get_pid
  <2> QED
    BY <1>1, <1>2, <1>3, <1>5, <2>1, <2>2, SMTT(30) DEF WalkInv
<1> QED
  BY <1>4, <1>5

\* The walk keeps what it knows of the processes behind it.
LEMMA WalkKeeps == WalkInv /\ Walk => WalkInv'
<1> SUFFICES ASSUME WalkInv, Walk PROVE WalkInv'
  OBVIOUS
<1> USE PidAssumption
<1>1. /\ last_pid \in Nat \ {0} /\ next_safe \in Nat /\ next_safe <= MAX_PID
      /\ le \in Nat \ {0}
      /\ Len(proc_list) \in Nat /\ proc_list \in Seq(1..(MAX_PID - 1))
      /\ DOMAIN proc_list = 1..Len(proc_list)
      /\ \A i \in 1..Len(proc_list) : proc_list[i] \in 1..(MAX_PID - 1)
  BY LenProperties, ElementOfSeq, SMTT(30) DEF WalkInv, PidTypeOK
<1>2. /\ pc = "walk" /\ last_pid < MAX_PID /\ last_pid < next_safe
      /\ le <= Len(proc_list) + 1
      /\ \A i \in 1..(le - 1) : proc_list[i] \notin last_pid..(next_safe - 1)
  BY DEF WalkInv, Walk, try_next, pass, walk_ends
<1>3. /\ proc_list' = proc_list /\ IsQueueOf(proc_list', Range(proc_list'))
      /\ forks' = forks /\ forks \in Nat /\ forks > 0
  BY DEF PidTypeOK, WalkInv, Walk, try_next, pass, walk_ends
<1>4. CASE try_next
  <2>1. PidTypeOK' /\ pc' = "walk"
    <3>1. /\ pc' = "walk" /\ le' \in Nat \ {0} /\ proc_list' = proc_list /\ forks' = forks
          /\ next_safe' \in 1..MAX_PID /\ last_pid' \in 1..MAX_PID
      <4>1. /\ pc' = pc /\ proc_list' = proc_list /\ forks' = forks
            /\ \/ /\ last_pid' = (IF last_pid + 1 >= MAX_PID THEN 1 ELSE last_pid + 1)
                  /\ next_safe' = MAX_PID /\ le' = 1
               \/ /\ ~(last_pid + 1 >= next_safe)
                  /\ last_pid' = last_pid + 1 /\ le' = le + 1 /\ next_safe' = next_safe
        BY <1>4 DEF try_next, MustRepeat, Wrapped
      <4> QED BY <1>1, <1>2, <4>1, SMTT(30)
    <3> QED BY <1>1, <3>1 DEF PidTypeOK, WalkInv
  <2>2. CASE last_pid + 1 >= next_safe
    BY <1>1, <1>2, <1>3, <1>4, <2>1, <2>2, SMTT(30) DEF WalkInv, try_next, MustRepeat, Wrapped
  <2>3. CASE last_pid + 1 < next_safe
    <3>1. last_pid' = last_pid + 1 /\ next_safe' = next_safe /\ le' = le + 1
      BY <1>1, <1>4, <2>3, SMTT(30) DEF try_next, MustRepeat, Wrapped
    <3>2. le <= Len(proc_list) /\ proc_list[le] = last_pid
      BY <1>4 DEF try_next
    <3>3. ASSUME NEW i \in 1..(le' - 1)
          PROVE  proc_list[i] \notin last_pid'..(next_safe' - 1)
      <4>1. i \in 1..le /\ proc_list[i] \in Nat
        BY <1>1, <3>1, <3>2, SMTT(30)
      <4>2. CASE i = le
        BY <1>1, <3>1, <3>2, <4>2, SMTT(30)
      <4>3. CASE i # le
        <5>1. i \in 1..(le - 1)
          BY <1>1, <4>1, <4>3, SMTT(30)
        <5>2. proc_list[i] \notin last_pid..(next_safe - 1)
          BY <1>2, <5>1
        <5> QED
          BY <1>1, <3>1, <4>1, <5>2, SMTT(30)
      <4> QED
        BY <4>2, <4>3
    <3> QED
      BY <1>1, <1>2, <1>3, <2>1, <2>3, <3>1, <3>2, <3>3, SMTT(30) DEF WalkInv
  <2> QED
    BY <1>1, <2>2, <2>3, SMTT(30)
<1>5. CASE pass
  <2>1. /\ le <= Len(proc_list) /\ proc_list[le] # last_pid /\ pc' = "walk"
        /\ last_pid' = last_pid /\ le' = le + 1 /\ next_safe' = Lowered(proc_list[le])
    BY <1>2, <1>5 DEF pass
  <2>2. proc_list[le] \in 1..(MAX_PID - 1)
    BY <1>1, <2>1, SMTT(30)
  <2>3. /\ next_safe' \in Nat /\ next_safe' <= next_safe /\ last_pid < next_safe'
        /\ proc_list[le] \notin last_pid..(next_safe' - 1)
    BY <1>1, <1>2, <2>1, <2>2, SMTT(30) DEF Lowered
  <2>4. ASSUME NEW i \in 1..(le' - 1)
        PROVE  proc_list[i] \notin last_pid'..(next_safe' - 1)
    <3>1. i \in 1..le /\ proc_list[i] \in Nat
      BY <1>1, <2>1, SMTT(30)
    <3>2. CASE i = le
      BY <2>1, <2>3, <3>2
    <3>3. CASE i # le
      <4>1. i \in 1..(le - 1)
        BY <1>1, <3>1, <3>3, SMTT(30)
      <4>2. proc_list[i] \notin last_pid..(next_safe - 1)
        BY <1>2, <4>1
      <4> QED
        BY <1>1, <2>1, <2>3, <3>1, <4>2, SMTT(30)
    <3> QED
      BY <3>2, <3>3
  <2>5. PidTypeOK'
    BY <1>1, <1>3, <2>1, <2>3, SMTT(30) DEF PidTypeOK, WalkInv
  <2> QED
    BY <1>1, <1>2, <1>3, <2>1, <2>3, <2>4, <2>5, SMTT(30) DEF WalkInv
<1>6. CASE walk_ends
  <2>1. /\ pc' = "found" /\ le > Len(proc_list)
        /\ last_pid' = last_pid /\ next_safe' = next_safe /\ le' = le
    BY <1>6 DEF walk_ends
  <2>2. PidTypeOK'
    BY <1>1, <1>3, <2>1 DEF PidTypeOK, WalkInv
  <2> QED
    BY <1>1, <1>2, <1>3, <2>1, <2>2, SMTT(30) DEF WalkInv
<1> QED
  BY <1>4, <1>5, <1>6 DEF Walk

\* The new process takes a pid that nobody has.
LEMMA LinkKeeps == WalkInv /\ set_links => WalkInv'
<1> SUFFICES ASSUME WalkInv, set_links PROVE WalkInv'
  OBVIOUS
<1> USE PidAssumption
<1> DEFINE T == 1..(MAX_PID - 1)
           one == <<last_pid>>
<1>1. /\ last_pid \in T /\ next_safe \in Nat /\ last_pid < next_safe
      /\ Len(proc_list) \in Nat /\ proc_list \in Seq(T)
      /\ DOMAIN proc_list = 1..Len(proc_list)
      /\ \A i \in 1..Len(proc_list) : proc_list[i] \in T
  BY LenProperties, ElementOfSeq, SMTT(30) DEF WalkInv, PidTypeOK, set_links
<1>2. \A i \in 1..Len(proc_list) : proc_list[i] \notin last_pid..(next_safe - 1)
  BY DEF WalkInv, set_links
<1>3. /\ proc_list' = one \o proc_list /\ pc' = "user"
      /\ last_pid' = last_pid /\ next_safe' = next_safe /\ le' = le
      /\ forks' \in Nat
  BY SMTT(30) DEF set_links, WalkInv, PidTypeOK
<1>4. /\ one \in Seq(T) /\ Len(one) = 1 /\ one[1] = last_pid
  BY <1>1, SMTT(30)
<1>5. /\ proc_list' \in Seq(T) /\ Len(proc_list') = Len(proc_list) + 1
      /\ proc_list'[1] = last_pid
      /\ \A i \in 2..(Len(proc_list) + 1) : proc_list'[i] = proc_list[i - 1]
  <2>1. /\ one \o proc_list \in Seq(T)
        /\ Len(one \o proc_list) = Len(one) + Len(proc_list)
        /\ \A i \in 1..(Len(one) + Len(proc_list)) : (one \o proc_list)[i] =
              IF i <= Len(one) THEN one[i] ELSE proc_list[i - Len(one)]
    BY <1>1, <1>4, ConcatProperties
  <2> QED
    BY <1>1, <1>3, <1>4, <2>1, SMTT(30)
<1>6. IsQueueOf(proc_list', Range(proc_list'))
  <2>1. \A i \in 1..Len(proc_list) : proc_list[i] # last_pid
    BY <1>1, <1>2, SMTT(30)
  <2>2. \A i, j \in 1..Len(proc_list) : i # j => proc_list[i] # proc_list[j]
    BY DEF WalkInv, IsQueueOf
  <2>3. ASSUME NEW i \in 1..Len(proc_list'), NEW j \in 1..Len(proc_list'), i < j
        PROVE  proc_list'[i] # proc_list'[j]
    <3>1. j \in 2..(Len(proc_list) + 1) /\ j - 1 \in 1..Len(proc_list)
      BY <1>1, <1>5, <2>3, SMTT(30)
    <3>2. proc_list'[j] = proc_list[j - 1]
      BY <1>5, <3>1
    <3>3. CASE i = 1
      BY <1>5, <2>1, <3>1, <3>2, <3>3
    <3>4. CASE i # 1
      <4>1. i \in 2..(Len(proc_list) + 1) /\ i - 1 \in 1..Len(proc_list)
            /\ i - 1 # j - 1
        BY <1>1, <1>5, <2>3, <3>4, SMTT(30)
      <4>2. proc_list'[i] = proc_list[i - 1]
        BY <1>5, <4>1
      <4> QED
        BY <2>2, <3>1, <3>2, <4>1, <4>2
    <3> QED
      BY <3>3, <3>4
  <2>4. ASSUME NEW i \in 1..Len(proc_list'), NEW j \in 1..Len(proc_list'), i # j
        PROVE  proc_list'[i] # proc_list'[j]
    <3>1. i < j \/ j < i
      BY <1>1, <1>5, <2>4, SMTT(30)
    <3> QED
      BY <2>3, <3>1
  <2>5. DOMAIN proc_list' = 1..Len(proc_list')
    BY <1>5, LenProperties
  <2> QED
    BY <1>5, <2>4, <2>5, QueueOf
<1>7. ASSUME NEW i \in 1..Len(proc_list')
      PROVE  proc_list'[i] \notin (last_pid' + 1)..(next_safe' - 1)
  <2>1. CASE i = 1
    BY <1>1, <1>3, <1>5, <2>1, SMTT(30)
  <2>2. CASE i # 1
    <3>1. i \in 2..(Len(proc_list) + 1) /\ i - 1 \in 1..Len(proc_list)
      BY <1>1, <1>5, <2>2, SMTT(30)
    <3>2. /\ proc_list'[i] = proc_list[i - 1] /\ proc_list[i - 1] \in T
          /\ proc_list[i - 1] \notin last_pid..(next_safe - 1)
      BY <1>1, <1>2, <1>5, <3>1
    <3> QED
      BY <1>1, <1>3, <3>2, SMTT(30)
  <2> QED
    BY <2>1, <2>2
<1>8. PidTypeOK'
  BY <1>1, <1>3, <1>5 DEF PidTypeOK, WalkInv
<1> QED
  BY <1>1, <1>3, <1>6, <1>7, <1>8 DEF WalkInv

\* A process that goes away leaves its pid free.
LEMMA UnlinkKeeps == WalkInv /\ remove_links => WalkInv'
<1> SUFFICES ASSUME WalkInv, remove_links PROVE WalkInv'
  OBVIOUS
<1> USE PidAssumption
<1> DEFINE T == 1..(MAX_PID - 1)
<1>1. /\ pc = "user" /\ pc' = "user"
      /\ last_pid' = last_pid /\ next_safe' = next_safe /\ le' = le
      /\ forks' = forks
  BY DEF remove_links
<1>2. PICK k \in DOMAIN proc_list : proc_list' = list_del(proc_list, k)
  BY DEF remove_links
<1> DEFINE S == Range(proc_list) \ {proc_list[k]}
<1>3. IsQueueOf(proc_list', S)
  BY <1>2, RemoveQueue DEF WalkInv
<1>4. /\ Range(proc_list') = S /\ Len(proc_list') \in Nat
      /\ \A i \in 1..Len(proc_list') : proc_list'[i] \in S
  BY <1>3, QueueElements
<1>5. /\ Len(proc_list) \in Nat /\ DOMAIN proc_list = 1..Len(proc_list)
      /\ \A i \in 1..Len(proc_list) : proc_list[i] \in T
  BY LenProperties, ElementOfSeq DEF WalkInv, PidTypeOK
<1>6. ASSUME NEW i \in 1..Len(proc_list')
      PROVE  \E j \in 1..Len(proc_list) : proc_list'[i] = proc_list[j]
  <2>1. proc_list'[i] \in Range(proc_list)
    BY <1>4
  <2> QED
    BY <1>5, <2>1 DEF Range
<1>7. ASSUME NEW i \in 1..Len(proc_list')
      PROVE  proc_list'[i] \notin (last_pid' + 1)..(next_safe' - 1)
  <2>1. PICK j \in 1..Len(proc_list) : proc_list'[i] = proc_list[j]
    BY <1>6
  <2>2. proc_list[j] \notin (last_pid + 1)..(next_safe - 1)
    BY <1>1 DEF WalkInv
  <2> QED
    BY <1>1, <2>1, <2>2
<1>8. proc_list' \in Seq(T)
  <2>1. proc_list' \in Seq(S)
    BY <1>3 DEF IsQueueOf
  <2>2. \A i \in 1..Len(proc_list') : proc_list'[i] \in T
    BY <1>5, <1>6
  <2>3. proc_list' \in [1..Len(proc_list') -> S]
    BY <2>1, LenProperties
  <2>4. proc_list' \in [1..Len(proc_list') -> T]
    BY <2>2, <2>3
  <2> QED
    BY <1>4, <2>4, SeqDef, SMTT(30)
<1>9. PidTypeOK'
  BY <1>1, <1>8 DEF PidTypeOK, WalkInv
<1> QED
  BY <1>1, <1>3, <1>4, <1>7, <1>9 DEF WalkInv

\* The invariant is inductive.
LEMMA WalkNext == WalkInv /\ [PidNext]_pid_vars => WalkInv'
<1> SUFFICES ASSUME WalkInv, [PidNext]_pid_vars PROVE WalkInv'
  OBVIOUS
<1>1. CASE UNCHANGED pid_vars
  BY <1>1 DEF pid_vars, WalkInv, PidTypeOK
<1>2. CASE do_fork_checks \/ do_fork_gives_up
  <2>1. UNCHANGED <<last_pid, next_safe, proc_list, le, pc>> /\ pc = "user"
    BY <1>2 DEF do_fork_checks, do_fork_gives_up
  <2>2. forks \in Nat
    BY DEF WalkInv, PidTypeOK
  <2>3. forks' \in Nat
    BY <1>2, <2>2, SMTT(30) DEF do_fork_checks, do_fork_gives_up
  <2>4. PidTypeOK'
    BY <2>1, <2>3 DEF WalkInv, PidTypeOK
  <2>5. IsQueueOf(proc_list, Range(proc_list))'
    BY <2>1 DEF WalkInv
  <2> QED
    BY <2>1, <2>4, <2>5 DEF WalkInv
<1> QED
  BY <1>1, <1>2, StartKeeps, WalkKeeps, LinkKeeps, UnlinkKeeps DEF PidNext

(* No two processes ever have the same pid, and the pids between last_pid  *)
(* and next_safe are free, for every MAX_PID, MAX_PROCESS and lcpu_count.  *)
THEOREM UniquePids == PidSpec => [](PidTypeOK /\ PidsUnique /\ GapIsFree)
<1>1. WalkInv => PidTypeOK /\ PidsUnique /\ GapIsFree
  <2> SUFFICES ASSUME WalkInv PROVE PidTypeOK /\ PidsUnique /\ GapIsFree
    OBVIOUS
  <2>1. PidTypeOK /\ DOMAIN proc_list = 1..Len(proc_list)
    BY LenProperties DEF WalkInv, PidTypeOK
  <2>2. PidsUnique
    BY <2>1 DEF WalkInv, IsQueueOf, PidsUnique
  <2>3. GapIsFree
    <3> SUFFICES ASSUME pc \in {"user", "found"}, NEW i \in DOMAIN proc_list
                 PROVE  proc_list[i] \notin (last_pid + 1)..(next_safe - 1)
      BY DEF GapIsFree
    <3>1. CASE pc = "user"
      BY <2>1, <3>1 DEF WalkInv
    <3>2. CASE pc = "found"
      <4>1. proc_list[i] \notin last_pid..(next_safe - 1)
        BY <2>1, <3>2 DEF WalkInv
      <4> QED
        BY <2>1, <4>1, SMTT(30) DEF PidTypeOK
    <3> QED
      BY <3>1, <3>2
  <2> QED
    BY <2>1, <2>2, <2>3
<1> QED
  BY <1>1, WalkInit, WalkNext, PTL DEF PidSpec
=============================================================================
