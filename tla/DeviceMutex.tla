----------------------------- MODULE DeviceMutex -----------------------------
(***************************************************************************)
(* What the lock manager of the still image service promises: a device is  *)
(* given to one user at a time, and only to use it while nobody else does. *)
(***************************************************************************)
CONSTANTS Devices, Users

VARIABLE holders    \* who has each device

Init == holders = [d \in Devices |-> {}]

Take(u, d) == holders[d] = {} /\ holders' = [holders EXCEPT ![d] = {u}]

Release(u, d) == holders[d] = {u} /\ holders' = [holders EXCEPT ![d] = {}]

Next == \E u \in Users, d \in Devices : Take(u, d) \/ Release(u, d)

Spec == Init /\ [][Next]_holders

=============================================================================
