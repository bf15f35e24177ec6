------------------------ MODULE DeviceLockProperties ------------------------
(***************************************************************************)
(* What DeviceLock must do.                                                *)
(***************************************************************************)
EXTENDS DeviceLock

CallPcs == {"run", "wait", "lock", "late", "sched", "mark"}

LockRecords ==
  [hDeviceIsFree : BOOLEAN, bDeviceIsLocked : BOOLEAN, lInUse : Nat,
   dwThreadId : Threads \cup {NoThread}, lHoldingTime : Nat, lTimeLeft : Nat]

LockTypes == lock \in [Devices -> LockRecords]

ThreadTypes ==
  thread \in [Threads -> [pc : CallPcs, device : Devices \cup {NoDevice}, depth : Nat]]

ServiceTypes ==
  /\ loaded \in [Devices -> BOOLEAN] /\ port \in [Devices -> BOOLEAN]
  /\ m_bSched \in BOOLEAN /\ m_lSchedWaitTime \in Nat /\ items \in Nat
  /\ timer \in [pc : {"idle", "scan", "update"}, todo : SUBSET Devices,
                device : Devices \cup {NoDevice}, must : SUBSET Nat]
  /\ unload \in [pc : {"none", "lock", "items", "item", "unload", "clear"},
                 device : Devices \cup {NoDevice}, locked : BOOLEAN]
  /\ unloads \in Nat

\* Every variable holds a value of its C type.
TypeOK == LockTypes /\ ThreadTypes /\ ServiceTypes

----------------------------------------------------------------------------
\* Thread t has device d: from the wait that took it until ClearLockInfo.
Holds(t, d) == thread[t].device = d /\ (thread[t].depth > 0 \/ thread[t].pc = "lock")

Holders(d) == {t \in Threads : Holds(t, d)} \cup (IF timer.device = d THEN {Timer} ELSE {})

\* The devices no STI client opens.
ServiceOnly == {d \in Devices : \A c \in Clients : d \notin Uses[c]}

DeviceMutex == INSTANCE DeviceMutex
  WITH Users <- Threads \cup {Timer}, holders <- [d \in Devices |-> Holders(d)]

\* Every device is given to one user at a time, be it a thread of the service, a
\* client, UnLoadDriver or the idle unlock: every step of the lock manager takes
\* or releases one free device, or none (stidev.cpp 817, "the device is always
\* locked for mutally exclusive acess").
OneHolder == DeviceMutex!Spec

\* LockInfo says who has the device and how often: only the thread that has it
\* may lock it again without waiting, and its last unlock is the one that frees
\* it (lockmgr.cpp 411, "the same thread re-acquiring an active lock").
OwnerExact ==
  \A d \in Devices :
    /\ \A t \in Threads : lock[d].dwThreadId = t <=> Holds(t, d)
    /\ \A t \in Threads : Holds(t, d) =>
         lock[d].lInUse = thread[t].depth + (IF thread[t].pc = "lock" THEN 1 ELSE 0)
    /\ Holders(d) = {} => lock[d].hDeviceIsFree /\ lock[d].lInUse = 0

\* A server thread that has device d uses it through an open port.
ServedByPort(d) ==
  \A t \in Servers : thread[t].device = d /\ thread[t].depth > 0 => port[d]

\* A server thread that was given a device never finds its port closed under it,
\* by the idle unlock, by UnLoadDriver, or because the flag bDeviceIsLocked that
\* saved it the call of the USD was wrong (lockmgr.cpp 819, "it is safe to simply
\* keep the lock open").
HolderHasPort == \A d \in ServiceOnly : ServedByPort(d)

\* The same for every device.
HolderHasPortAnywhere == \A d \in Devices : ServedByPort(d)

\* The driver of a device is unloaded only while nobody else has the device
\* (stidev.cpp 814 to 821).
UnloadsAlone ==
  [][\A d \in Devices : loaded[d] /\ ~ loaded'[d] => Holders(d) \subseteq {Manager}]_vars

----------------------------------------------------------------------------
\* A call that can return does, the control thread finishes what it began (its
\* list of items has an end), and a work item is run once its time has come.  A
\* thread need not use a device, nor ever give it back.
Fairness ==
  /\ \A t \in Threads : WF_vars(CallStep(t))
  /\ WF_vars(TimerStep)
  /\ WF_vars(UnloadStep) /\ SF_vars(UnloadUnlocks)

FairSpec == Spec /\ Fairness

\* Whenever the port of d is open and idle, it is closed or used again.
ClosesInTheEnd(d) == [](port[d] /\ (\A t \in Threads : ~ Holds(t, d)) =>
                          <>(~ port[d] \/ \E t \in Threads : Holds(t, d)))

\* A device the service has opened does not stay open when nobody uses it: the
\* work item that closes it is never lost (lockmgr.cpp 616, "we will hold onto
\* the lock for a maximum idle period").
IdlePortsClose == \A d \in ServiceOnly : ClosesInTheEnd(d)

\* The same for every device.
IdlePortsCloseAnywhere == \A d \in Devices : ClosesInTheEnd(d)

=============================================================================
