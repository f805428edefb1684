------------------------------ MODULE MCMutex ------------------------------
(* Small instances of Mutex: three tasks beside the idle task.             *)
EXTENDS Mutex

CONSTANTS high, mid, low

MCTask == {high, mid, low, Idle}
Distinct == [t \in MCTask |-> IF t = high THEN 3 ELSE IF t = mid THEN 2 ELSE IF t = low THEN 1 ELSE 0]
OneAbove == [t \in MCTask |-> IF t = high THEN 3 ELSE IF t = Idle THEN 0 ELSE 1]
=============================================================================
