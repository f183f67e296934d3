-------------------------------- MODULE Mutex --------------------------------
(***************************************************************************)
(* What a kernel semaphore with initial value 1 promises to its users: at  *)
(* most one of them is between down() and up().  up() may pass the lock on *)
(* to a waiter without setting it free in between.                         *)
(***************************************************************************)
CONSTANT Proc

VARIABLE holder  \* the processes that have the lock

Init == holder = {}

Acquire(p) == holder = {} /\ holder' = {p}

Release(p) == holder = {p} /\ holder' = {}

HandOver(p, q) == holder = {p} /\ p # q /\ holder' = {q}

Next == \E p \in Proc : \/ Acquire(p) \/ Release(p)
                        \/ \E q \in Proc : HandOver(p, q)

Spec == Init /\ [][Next]_holder
=============================================================================
