---------------------------- MODULE WorkBatches ----------------------------
(***************************************************************************)
(* What eagine::workshop promises to the code that hands it batches of    *)
(* work units: a unit is submitted once, delivered at most once and only  *)
(* after it was submitted, and the memory of a batch's units is released   *)
(* only when every one of them was delivered.  Workers, queue, mutex and   *)
(* condition variable are not visible here.  Module Workshop implements   *)
(* this specification.                                                     *)
(***************************************************************************)

CONSTANTS
    Units,      \* work_unit objects
    Clients,    \* threads that own one inplace_work_batch each
    Batch       \* the client in whose batch a unit lives

VARIABLE
    status      \* per unit: "raw", "pending", "delivered" or "freed"

Stages == {"raw", "pending", "delivered", "freed"}

Mine(c) == {u \in Units : Batch[u] = c}

Init == status = [u \in Units |-> "raw"]

Submit(u) ==
    /\ status[u] = "raw"
    /\ status' = [status EXCEPT ![u] = "pending"]

Deliver(u) ==
    /\ status[u] = "pending"
    /\ status' = [status EXCEPT ![u] = "delivered"]

Release(c) ==
    /\ \A u \in Mine(c) : status[u] = "delivered"
    /\ status' = [u \in Units |-> IF Batch[u] = c THEN "freed" ELSE status[u]]

Next ==
    \/ \E u \in Units : Submit(u) \/ Deliver(u)
    \/ \E c \in Clients : Release(c)

Spec == Init /\ [][Next]_status
=============================================================================
