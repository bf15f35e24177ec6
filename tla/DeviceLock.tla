----------------------------- MODULE DeviceLock -----------------------------
(***************************************************************************)
(* The device lock manager of the still image service (StiLockMgr): who    *)
(* may use a device, and when a device that nobody uses is closed.         *)
(*                                                                         *)
(* A device is taken by its auto-reset event hDeviceIsFree; the rest of    *)
(* LockInfo is written by whoever has taken it, except where the code does *)
(* otherwise.  m_bSched and m_lSchedWaitTime are shared by all devices and *)
(* protected by nothing.  An action is one stretch of a thread between two *)
(* of its accesses to what other threads may change at the same time.      *)
(*                                                                         *)
(* An operator X_Fault placed before an operator X is not part of Spec: it *)
(* is X with a plausible bug.                                              *)
(***************************************************************************)
EXTENDS Integers, FiniteSets

CONSTANTS
  Devices,
  Servers,          \* threads of the service, which open the port through its USD
  Clients,          \* threads of STI clients, which have a USD of their own
  Manager,          \* the service's control thread, which unloads drivers
  Timer,            \* the work item scheduler's thread, which runs AutoUnlock
  NoDevice, NoThread,
  Uses,             \* the devices each server or client thread opens
  HoldingTimes,     \* what the devices' drivers may give as their lHoldingTime
  Failures,         \* the calls of the USD that may fail
  TimerBeatsCaller, \* a work item may run before the call that scheduled it returns
  MaxNest,          \* bound: how deep a thread nests its locks
  MaxItems,         \* bound: work items scheduled at once
  MaxUnloads        \* bound: how often drivers are unloaded

Threads == Servers \cup Clients \cup {Manager}
AllFailures == {"LockDevice", "UnlockDevice", "LockDeviceToUnload"}

ASSUME ConstantsAssumption ==
  /\ IsFiniteSet(Devices) /\ NoDevice \notin Devices /\ NoThread \notin Threads
  /\ Servers \cap Clients = {} /\ Manager \notin Servers \cup Clients
  /\ Timer \notin Threads \cup {NoThread}
  /\ Uses \in [Servers \cup Clients -> SUBSET Devices]
  /\ HoldingTimes \subseteq [Devices -> Nat]
  /\ Failures \subseteq AllFailures
  /\ TimerBeatsCaller \in BOOLEAN
  /\ MaxNest \in Nat \ {0} /\ MaxItems \in Nat \ {0} /\ MaxUnloads \in Nat

VARIABLES
  lock,              \* LockInfo of each device
  loaded,            \* IsDriverLoaded
  port,              \* the service's USD has opened the device
  m_bSched,          \* a run of AutoUnlock is believed to be scheduled
  m_lSchedWaitTime,  \* the time after which it was scheduled
  items,             \* runs of AutoUnlock that are scheduled
  thread,            \* where each thread is, on which device, its locks on it
  timer,             \* where AutoUnlock is
  unload,            \* where UnLoadDriver is
  unloads            \* drivers unloaded so far (bounded by MaxUnloads)

schedVars == <<m_bSched, m_lSchedWaitTime, items>>
vars == <<lock, loaded, port, schedVars, thread, timer, unload, unloads>>

Idle == [pc |-> "run", device |-> NoDevice, depth |-> 0]
NoScan == [pc |-> "idle", todo |-> {}, device |-> NoDevice, must |-> {}]
NoUnload == [pc |-> "none", device |-> NoDevice, locked |-> FALSE]

\* CreateLockInfo: the device is free and its port closed.
Init ==
  /\ \E holding \in HoldingTimes :
       lock = [d \in Devices |->
                 [hDeviceIsFree |-> TRUE, bDeviceIsLocked |-> FALSE, lInUse |-> 0,
                  dwThreadId |-> NoThread, lHoldingTime |-> holding[d],
                  lTimeLeft |-> holding[d]]]
  /\ loaded = [d \in Devices |-> TRUE] /\ port = [d \in Devices |-> FALSE]
  /\ m_bSched = FALSE /\ m_lSchedWaitTime = 0 /\ items = 0
  /\ thread = [t \in Threads |-> Idle]
  /\ timer = NoScan
  /\ unload = NoUnload /\ unloads = 0

----------------------------------------------------------------------------
(* LockInfo and the USD.                                                    *)

\* Nobody has the device any more.
ClearLockInfo_KeepsOwner(info) == [info EXCEPT !.lInUse = 0, !.hDeviceIsFree = TRUE]
ClearLockInfo(info) ==
  [info EXCEPT !.dwThreadId = NoThread, !.lInUse = 0, !.hDeviceIsFree = TRUE]

\* The thread that waited has it.  A client opens the port by itself.
TakenBy(info, t, server) ==
  [hDeviceIsFree |-> FALSE, dwThreadId |-> t, lInUse |-> info.lInUse + 1,
   lHoldingTime |-> info.lHoldingTime, lTimeLeft |-> info.lHoldingTime,
   bDeviceIsLocked |-> info.bDeviceIsLocked \/ ~ server]

\* The thread that has it locks it again.
LockedAgain(info) ==
  [info EXCEPT !.lInUse = info.lInUse + 1, !.lTimeLeft = info.lHoldingTime]

\* One lock less.
UnlockedOnce(info) == [info EXCEPT !.lInUse = IF info.lInUse > 0 THEN info.lInUse - 1 ELSE 0]

\* UnlockDevice: the USD closes the port, and the flag goes, or it fails.  One
\* that is not loaded is not called: the device is gone, and PrepForUse refuses.
Closing(d) == IF ~ loaded[d] THEN {FALSE}
              ELSE IF "UnlockDevice" \in Failures THEN BOOLEAN ELSE {TRUE}
UnlockDevice(d, closes) == port' = [port EXCEPT ![d] = @ /\ ~ closes]

----------------------------------------------------------------------------
(* RequestLock and RequestUnlock, called by thread t.                       *)

Calls(t, pc) == thread[t].pc = pc
GoTo(t, pc) == thread' = [thread EXCEPT ![t].pc = pc]

\* The thread's part of vars that these calls leave alone.
Frame == UNCHANGED <<loaded, timer, unload, unloads>>

\* The call returns, with or without one more lock.
Locked(t) == thread' = [thread EXCEPT ![t].pc = "run", ![t].depth = @ + 1]
Returns(t) == thread' = [thread EXCEPT ![t].pc = "run",
                           ![t].device = IF thread[t].depth > 0 THEN @ ELSE NoDevice]

\* A call by, or for, a thread of the service.  The items of a device are locked
\* without opening the port.
bInServerProcess(t) == t \in Servers \/ (t = Manager /\ unload.pc = "lock")

\* The thread that has the device locks it again; any other waits for it.
RequestLock(t, d) ==
  /\ Calls(t, "run") /\ thread[t].device \in {d, NoDevice}
  /\ IF lock[d].dwThreadId = t
     THEN /\ lock' = [lock EXCEPT ![d] = LockedAgain(@)]
          /\ thread' = [thread EXCEPT ![t].device = d, ![t].depth = @ + 1]
     ELSE /\ thread' = [thread EXCEPT ![t].pc = "wait", ![t].device = d]
          /\ UNCHANGED lock
  /\ UNCHANGED <<loaded, port, schedVars, timer>>

\* hDeviceIsFree was signalled and has been reset by the wait.
Granted(t) ==
  LET d == thread[t].device
      server == bInServerProcess(t)
  IN  /\ Calls(t, "wait") /\ lock[d].hDeviceIsFree /\ loaded[d]
      /\ lock' = [lock EXCEPT ![d] = TakenBy(@, t, server)]
      /\ IF server THEN GoTo(t, "lock") ELSE Locked(t)
      /\ UNCHANGED <<port, schedVars>> /\ Frame

\* The driver was unloaded while the thread waited.
Offline(t) ==
  LET d == thread[t].device
  IN  /\ Calls(t, "wait") /\ lock[d].hDeviceIsFree /\ ~ loaded[d]
      /\ lock' = [lock EXCEPT ![d] = ClearLockInfo(@)]
      /\ Returns(t)
      /\ UNCHANGED <<port, schedVars>> /\ Frame

\* UnLoadDriver waits without limit for the lock it needs.
Busy_NoLimitForgotten(t) ==
  /\ Calls(t, "wait") /\ ~ lock[thread[t].device].hDeviceIsFree
  /\ Returns(t)
  /\ UNCHANGED <<lock, port, schedVars>> /\ Frame
Busy(t) ==
  /\ Calls(t, "wait") /\ ~ lock[thread[t].device].hDeviceIsFree
  /\ ~ (t = Manager /\ bInServerProcess(t))
  /\ Returns(t)
  /\ UNCHANGED <<lock, port, schedVars>> /\ Frame

\* LockDevice: an idle device whose port is still open is used as it is.
LockDevice(t) ==
  LET d == thread[t].device
  IN  /\ Calls(t, "lock")
      /\ lock[d].bDeviceIsLocked \/ loaded[d]
      /\ lock' = [lock EXCEPT ![d].bDeviceIsLocked = TRUE]
      /\ port' = [port EXCEPT ![d] = @ \/ ~ lock[d].bDeviceIsLocked]
      /\ Locked(t)
      /\ UNCHANGED schedVars /\ Frame

LockDeviceFails(t) ==
  LET d == thread[t].device
      failure == IF t = Manager THEN "LockDeviceToUnload" ELSE "LockDevice"
  IN  /\ Calls(t, "lock")
      /\ ~ lock[d].bDeviceIsLocked /\ (failure \in Failures \/ ~ loaded[d])
      /\ lock' = [lock EXCEPT ![d] = ClearLockInfo(@)]
      /\ Returns(t)
      /\ UNCHANGED <<port, schedVars>> /\ Frame

\* The last unlock closes the port when there is no holding time, then signals
\* that the device is free; an earlier one only counts.
RequestUnlock(t) ==
  LET d    == thread[t].device
      last == lock[d].lInUse <= 1
      unlocks == last /\ lock[d].lHoldingTime = 0 /\ bInServerProcess(t)
      info == UnlockedOnce(lock[d])
  IN  /\ Calls(t, "run") /\ thread[t].depth > 0
      /\ \E closes \in IF unlocks THEN Closing(d) ELSE {FALSE} :
           /\ UnlockDevice(d, closes)
           /\ lock' = [lock EXCEPT ![d] =
                IF ~ last THEN info
                ELSE IF ~ unlocks THEN ClearLockInfo(info)
                ELSE ClearLockInfo([info EXCEPT !.bDeviceIsLocked = ~ closes])]
      /\ thread' = [thread EXCEPT ![t] =
           [pc     |-> IF last /\ ~ bInServerProcess(t) THEN "late"
                       ELSE IF unlocks THEN "run" ELSE "sched",
            device |-> IF unlocks /\ thread[t].depth = 1 THEN NoDevice ELSE d,
            depth  |-> thread[t].depth - 1]]
      /\ UNCHANGED <<loaded, schedVars, timer>>

\* For a client the flag is cleared after the device has been signalled free.
UnlockedForClient(t) ==
  /\ Calls(t, "late")
  /\ lock' = [lock EXCEPT ![thread[t].device].bDeviceIsLocked = FALSE]
  /\ Returns(t)
  /\ UNCHANGED <<port, schedVars>> /\ Frame

\* The port stays open for the holding time.
ScheduleUnlock(t) ==
  /\ Calls(t, "sched")
  /\ m_lSchedWaitTime' = lock[thread[t].device].lHoldingTime
  /\ IF m_bSched THEN Returns(t) /\ UNCHANGED items
     ELSE items < MaxItems /\ items' = items + 1 /\ GoTo(t, "mark")
  /\ UNCHANGED <<lock, port, m_bSched>> /\ Frame

\* ScheduleWorkItem has returned.
UnlockScheduled(t) ==
  /\ Calls(t, "mark") /\ m_bSched' = TRUE /\ Returns(t)
  /\ UNCHANGED <<lock, port, m_lSchedWaitTime, items>> /\ Frame

\* What a call does by itself once it was made.
CallStep(t) ==
  \/ Granted(t) \/ Offline(t) \/ Busy(t) \/ LockDevice(t) \/ LockDeviceFails(t)
  \/ UnlockedForClient(t) \/ ScheduleUnlock(t) \/ UnlockScheduled(t)

\* A server or client thread uses one of its devices.
UseDevice(t) ==
  /\ \/ \E d \in Uses[t] : thread[t].depth < MaxNest /\ RequestLock(t, d)
     \/ RequestUnlock(t)
  /\ UNCHANGED <<unload, unloads>>

----------------------------------------------------------------------------
(* AutoUnlock, run by the work item scheduler's thread.                     *)

TimerFrame == UNCHANGED <<loaded, thread, unload, unloads>>

\* The work items whose ScheduleWorkItem has returned.
Ripe == items - Cardinality({t \in Threads : thread[t].pc = "mark"})

AutoUnlock_StaysScheduled ==
  /\ timer.pc = "idle" /\ items > 0 /\ (TimerBeatsCaller \/ Ripe > 0)
  /\ items' = items - 1
  /\ timer' = [pc |-> "scan", todo |-> Devices, device |-> NoDevice, must |-> {}]
  /\ UNCHANGED <<lock, port, m_bSched, m_lSchedWaitTime>> /\ TimerFrame
AutoUnlock ==
  /\ timer.pc = "idle" /\ items > 0 /\ (TimerBeatsCaller \/ Ripe > 0)
  /\ items' = items - 1 /\ m_bSched' = FALSE
  /\ timer' = [pc |-> "scan", todo |-> Devices, device |-> NoDevice, must |-> {}]
  /\ UNCHANGED <<lock, port, m_lSchedWaitTime>> /\ TimerFrame

\* UpdateLockInfoStatus takes a device that is free and passes one that is not.
Free_NotWaited(d) == lock[d].hDeviceIsFree \/ lock[d].bDeviceIsLocked
Free(d) == lock[d].hDeviceIsFree
CheckDevice(d) ==
  LET free == Free(d)
  IN  /\ timer.pc = "scan" /\ d \in timer.todo
      /\ lock' = [lock EXCEPT ![d].hDeviceIsFree = FALSE]
      /\ timer' = [timer EXCEPT !.pc = IF free THEN "update" ELSE "scan",
                                !.device = IF free THEN d ELSE NoDevice,
                                !.todo = @ \ {d}]
      /\ UNCHANGED <<port, schedVars>> /\ TimerFrame

\* The idle time that is left, after what AutoUnlock believes has passed.
TimeLeft_BelowZero(d) == lock[d].lTimeLeft - m_lSchedWaitTime
TimeLeft(d) == IF lock[d].lTimeLeft <= m_lSchedWaitTime THEN 0
               ELSE lock[d].lTimeLeft - m_lSchedWaitTime

\* The idle time is over, and the port is closed, or goes on.
UpdateLockInfoStatus ==
  LET d    == timer.device
      left == TimeLeft(d)
      over == lock[d].bDeviceIsLocked /\ left = 0
      info == [lock[d] EXCEPT !.lTimeLeft = IF lock[d].bDeviceIsLocked THEN left ELSE @]
  IN  /\ timer.pc = "update"
      /\ \E closes \in IF over THEN Closing(d) ELSE {FALSE} :
           /\ UnlockDevice(d, closes)
           /\ lock' = [lock EXCEPT ![d] =
                IF closes THEN ClearLockInfo([info EXCEPT !.bDeviceIsLocked = FALSE])
                ELSE [info EXCEPT !.hDeviceIsFree = TRUE]]
      /\ timer' = [timer EXCEPT !.pc = "scan", !.device = NoDevice,
             !.must = IF info.bDeviceIsLocked /\ ~ over THEN @ \cup {left} ELSE @]
      /\ UNCHANGED schedVars /\ TimerFrame

\* AutoUnlock comes again after the shortest idle time that is left.
RescheduleUnlock ==
  /\ timer.pc = "scan" /\ timer.todo = {}
  /\ timer' = NoScan
  /\ IF timer.must # {} /\ ~ m_bSched
     THEN /\ m_bSched' = TRUE /\ items' = items + 1
          /\ \E left \in timer.must :
               m_lSchedWaitTime' = left /\ \A other \in timer.must : left <= other
     ELSE UNCHANGED schedVars
  /\ UNCHANGED <<lock, port>> /\ TimerFrame

TimerStep ==
  \/ AutoUnlock \/ UpdateLockInfoStatus \/ RescheduleUnlock
  \/ \E d \in Devices : CheckDevice(d)

----------------------------------------------------------------------------
(* The service's control thread: drivers come and go with their devices.    *)

UnloadAt(pc) == unload.pc = pc /\ Calls(Manager, "run")
UnloadGoesTo(pc) == unload' = [unload EXCEPT !.pc = pc]

UnLoadDriver(d) ==
  /\ UnloadAt("none") /\ loaded[d] /\ unloads < MaxUnloads
  /\ RequestLock(Manager, d)
  /\ unload' = [pc |-> "lock", device |-> d, locked |-> FALSE]
  /\ unloads' = unloads + 1

\* Whether or not it has the lock, it goes on.
UnloadLocked ==
  /\ UnloadAt("lock")
  /\ unload' = [unload EXCEPT !.pc = "items", !.locked = thread[Manager].depth > 0]
  /\ UNCHANGED <<lock, loaded, port, schedVars, thread, timer, unloads>>

\* drvUnInitializeWia of each item is called under a lock of its own.
UninitializeItem ==
  /\ UnloadAt("items")
  /\ RequestLock(Manager, unload.device)
  /\ UnloadGoesTo("item") /\ UNCHANGED unloads

ItemIsLocked == thread[Manager].depth = (IF unload.locked THEN 2 ELSE 1)

ItemUninitialized ==
  /\ UnloadAt("item")
  /\ IF ItemIsLocked THEN RequestUnlock(Manager)
     ELSE UNCHANGED <<lock, loaded, port, schedVars, thread, timer>>
  /\ UnloadGoesTo("items") /\ UNCHANGED unloads

\* The port is closed, if the device was locked; the lock stays.
UnloadUnlocks_LeavesPort ==
  /\ UnloadAt("items")
  /\ UnloadGoesTo("unload")
  /\ UNCHANGED <<lock, loaded, port, schedVars, thread, timer, unloads>>
UnloadUnlocks ==
  LET d == unload.device
  IN  /\ UnloadAt("items")
      /\ \E closes \in IF unload.locked THEN Closing(d) ELSE {FALSE} :
           /\ UnlockDevice(d, closes)
           /\ lock' = [lock EXCEPT ![d].bDeviceIsLocked =
                         IF unload.locked THEN ~ closes ELSE @]
      /\ UnloadGoesTo("unload")
      /\ UNCHANGED <<loaded, schedVars, thread, timer, unloads>>

DriverUnloaded ==
  /\ UnloadAt("unload")
  /\ loaded' = [loaded EXCEPT ![unload.device] = FALSE]
  /\ port' = [port EXCEPT ![unload.device] = FALSE]
  /\ UnloadGoesTo("clear")
  /\ UNCHANGED <<lock, schedVars, thread, timer, unloads>>

\* The lock is cleared, whoever has it.
UnloadClears ==
  /\ UnloadAt("clear")
  /\ lock' = [lock EXCEPT ![unload.device] = ClearLockInfo(@)]
  /\ thread' = [thread EXCEPT ![Manager] = Idle]
  /\ unload' = NoUnload
  /\ UNCHANGED <<loaded, port, schedVars, timer, unloads>>

LoadDriver(d) ==
  /\ UnloadAt("none") /\ ~ loaded[d]
  /\ loaded' = [loaded EXCEPT ![d] = TRUE]
  /\ UNCHANGED <<lock, port, schedVars, thread, timer, unload, unloads>>

UnloadStep ==
  \/ UnloadLocked \/ UninitializeItem \/ ItemUninitialized
  \/ UnloadUnlocks \/ DriverUnloaded \/ UnloadClears

ManagerStep == UnloadStep \/ \E d \in Devices : UnLoadDriver(d) \/ LoadDriver(d)

----------------------------------------------------------------------------
Next ==
  \/ \E t \in Threads : CallStep(t)
  \/ \E t \in Servers \cup Clients : UseDevice(t)
  \/ TimerStep
  \/ ManagerStep

Spec == Init /\ [][Next]_vars

=============================================================================
