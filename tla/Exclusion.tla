----------------------------- MODULE Exclusion -----------------------------
(***************************************************************************)
(* What every lock of the demos promises: a resource has at most one       *)
(* holder, and changes hands only through being free.  The POSIX-thread    *)
(* semaphore, the System V semaphore and the counter programs are shown to *)
(* implement this specification.                                           *)
(***************************************************************************)
CONSTANTS Client,    \* the threads or processes that compete
          Resource   \* the objects they compete for

VARIABLE holder      \* holder[r] is the set of clients that hold r

Init == holder = [r \in Resource |-> {}]

Acquire(c, r) == /\ holder[r] = {}
                 /\ holder' = [holder EXCEPT ![r] = {c}]

Release(c, r) == /\ holder[r] = {c}
                 /\ holder' = [holder EXCEPT ![r] = {}]

Next == \E c \in Client, r \in Resource : Acquire(c, r) \/ Release(c, r)

Spec == Init /\ [][Next]_holder
=============================================================================
