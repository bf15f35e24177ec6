-------------------------- MODULE DeviceLockProofs --------------------------
(***************************************************************************)
(* Properties of DeviceLock for every number of devices and threads: its   *)
(* types always, and, where UnLoadDriver is given the lock it asks for,    *)
(* that every device has one user at a time.  Where drivers do not fail to *)
(* close a port, a thread of the service has an open one.                  *)
(***************************************************************************)
EXTENDS DeviceLockProperties, TLAPS

\* What is at a device: a thread that waits or has a lock, AutoUnlock, UnLoadDriver.
AtDevice ==
  /\ \A t \in Threads : thread[t].pc # "run" \/ thread[t].depth > 0 => thread[t].device \in Devices
  /\ timer.pc = "update" => timer.device \in Devices
  /\ unload.pc # "none" => unload.device \in Devices

TypeInv == TypeOK /\ AtDevice

LEMMA ManagerIsThread == Manager \in Threads
BY DEF Threads

\* What holds initially has the types.
LEMMA InitTypes == Init => TypeInv
<1> SUFFICES ASSUME Init PROVE TypeInv OBVIOUS
<1>1. PICK holding \in HoldingTimes :
        lock = [d \in Devices |->
                 [hDeviceIsFree |-> TRUE, bDeviceIsLocked |-> FALSE, lInUse |-> 0,
                  dwThreadId |-> NoThread, lHoldingTime |-> holding[d],
                  lTimeLeft |-> holding[d]]]
  BY DEF Init
<1>2. holding \in [Devices -> Nat] BY ConstantsAssumption
<1>3. LockTypes BY <1>1, <1>2 DEF LockTypes, LockRecords
<1>4. ThreadTypes BY DEF Init, ThreadTypes, Idle, CallPcs
<1>5. ServiceTypes BY DEF Init, ServiceTypes, NoScan, NoUnload
<1>6. AtDevice BY DEF Init, AtDevice, Idle, NoScan, NoUnload
<1> QED BY <1>3, <1>4, <1>5, <1>6 DEF TypeInv, TypeOK

----------------------------------------------------------------------------
(* The steps of the calls.                                                  *)

\* What the calls write into a LockInfo is a LockInfo.
LEMMA RecordTypes ==
  ASSUME NEW info \in LockRecords, NEW t \in Threads, NEW value \in BOOLEAN
  PROVE  /\ TakenBy(info, t, value) \in LockRecords
         /\ LockedAgain(info) \in LockRecords
         /\ UnlockedOnce(info) \in LockRecords
         /\ ClearLockInfo(info) \in LockRecords
         /\ [info EXCEPT !.bDeviceIsLocked = value] \in LockRecords
         /\ [info EXCEPT !.hDeviceIsFree = value] \in LockRecords
<1>0. info.lInUse + 1 \in Nat /\ info.lHoldingTime \in Nat BY DEF LockRecords
<1>1. TakenBy(info, t, value) \in LockRecords
  <2>1. (info.bDeviceIsLocked \/ ~ value) \in BOOLEAN OBVIOUS
  <2> QED BY <2>1, <1>0 DEF LockRecords, TakenBy
<1>2. LockedAgain(info) \in LockRecords
  <2> DEFINE used == info.lInUse + 1
             left == info.lHoldingTime
  <2>1. LockedAgain(info) = [info EXCEPT !.lInUse = used, !.lTimeLeft = left]
    BY DEF LockedAgain
  <2>2. used \in Nat /\ left \in Nat BY <1>0
  <2> HIDE DEF used, left
  <2> QED BY <2>1, <2>2 DEF LockRecords
<1>3. UnlockedOnce(info) \in LockRecords BY DEF LockRecords, UnlockedOnce
<1>4. ClearLockInfo(info) \in LockRecords BY DEF LockRecords, ClearLockInfo
<1>5. [info EXCEPT !.bDeviceIsLocked = value] \in LockRecords BY DEF LockRecords
<1>6. [info EXCEPT !.hDeviceIsFree = value] \in LockRecords BY DEF LockRecords
<1> QED BY <1>1, <1>2, <1>3, <1>4, <1>5, <1>6

LEMMA ServerIsBoolean == \A t : bInServerProcess(t) \in BOOLEAN
BY DEF bInServerProcess

\* So a step that writes one is well typed.
LEMMA OneLockTypes ==
  ASSUME LockTypes, NEW d \in Devices, NEW info \in LockRecords,
         lock' = [lock EXCEPT ![d] = info]
  PROVE  LockTypes'
BY DEF LockTypes

\* GoTo, Locked and Returns leave the thread with a record of its type.
LEMMA MoveTypes ==
  ASSUME ThreadTypes, NEW t \in Threads, NEW pc \in CallPcs,
         GoTo(t, pc) \/ Locked(t) \/ Returns(t)
  PROVE  ThreadTypes'
<1> DEFINE device == IF thread[t].depth > 0 THEN thread[t].device ELSE NoDevice
<1>0. /\ thread[t] \in [pc : CallPcs, device : Devices \cup {NoDevice}, depth : Nat]
      /\ thread[t].depth + 1 \in Nat
  BY DEF ThreadTypes
<1>1. CASE GoTo(t, pc) BY <1>1 DEF GoTo, ThreadTypes
<1>2. CASE Locked(t) BY <1>0, <1>2 DEF Locked, ThreadTypes, CallPcs
<1>3. CASE Returns(t)
  <2>1. [thread[t] EXCEPT !.pc = "run", !.device = device]
          \in [pc : CallPcs, device : Devices \cup {NoDevice}, depth : Nat]
    BY <1>0 DEF CallPcs
  <2>2. thread' = [thread EXCEPT ![t] = [thread[t] EXCEPT !.pc = "run", !.device = device]]
    BY <1>3 DEF Returns
  <2> HIDE DEF device
  <2> QED BY <2>1, <2>2 DEF ThreadTypes
<1> QED BY <1>1, <1>2, <1>3

\* What a call does once it was made keeps the types.
LEMMA CallTypes ==
  ASSUME TypeInv, NEW t \in Threads, CallStep(t)
  PROVE  TypeInv'
<1> DEFINE d == thread[t].device
<1> USE DEF TypeInv, TypeOK
<1>0. t \in Threads /\ thread[t].pc \in CallPcs /\ thread[t].depth \in Nat
  BY DEF ThreadTypes
<1>1. CASE Granted(t)
  <2>1. d \in Devices BY <1>1 DEF Granted, Calls, AtDevice
  <2>2. LockTypes'
    <3>1. lock[d] \in LockRecords BY <2>1 DEF LockTypes
    <3>2. TakenBy(lock[d], t, bInServerProcess(t)) \in LockRecords
      BY <3>1, RecordTypes, ServerIsBoolean
    <3> QED BY <1>1, <2>1, <3>2, OneLockTypes DEF Granted
  <2>3. ThreadTypes' BY <1>1, <1>0, MoveTypes DEF Granted, CallPcs
  <2>4. ServiceTypes' BY <1>1 DEF ServiceTypes, Granted, Frame, schedVars
  <2>5. AtDevice' BY <1>1, <1>0, <2>1 DEF AtDevice, ThreadTypes, Granted, Frame, GoTo, Locked
  <2> QED BY <2>2, <2>3, <2>4, <2>5
<1>2. CASE Offline(t)
  <2>1. d \in Devices BY <1>2 DEF Offline, Calls, AtDevice
  <2>2. LockTypes'
    <3>1. ClearLockInfo(lock[d]) \in LockRecords BY <1>0, <2>1, RecordTypes DEF LockTypes
    <3> QED BY <1>2, <2>1, <3>1, OneLockTypes DEF Offline
  <2>3. ThreadTypes' BY <1>2, <1>0, MoveTypes DEF Offline
  <2>4. ServiceTypes' BY <1>2 DEF ServiceTypes, Offline, Frame, schedVars
  <2>5. AtDevice' BY <1>2, <1>0, <2>1 DEF AtDevice, ThreadTypes, Offline, Frame, Returns
  <2> QED BY <2>2, <2>3, <2>4, <2>5
<1>3. CASE Busy(t)
  <2>1. d \in Devices BY <1>3 DEF Busy, Calls, AtDevice
  <2>2. LockTypes' BY <1>3 DEF LockTypes, Busy
  <2>3. ThreadTypes' BY <1>3, <1>0, MoveTypes DEF Busy
  <2>4. ServiceTypes' BY <1>3 DEF ServiceTypes, Busy, Frame, schedVars
  <2>5. AtDevice' BY <1>3, <1>0, <2>1 DEF AtDevice, ThreadTypes, Busy, Frame, Returns
  <2> QED BY <2>2, <2>3, <2>4, <2>5
<1>4. CASE LockDevice(t)
  <2>1. d \in Devices BY <1>4 DEF LockDevice, Calls, AtDevice
  <2>2. LockTypes' BY <1>4, <2>1 DEF LockTypes, LockRecords, LockDevice
  <2>3. ThreadTypes' BY <1>4, <1>0, MoveTypes DEF LockDevice
  <2>4. ServiceTypes' BY <1>4, <2>1 DEF ServiceTypes, LockDevice, Frame, schedVars
  <2>5. AtDevice' BY <1>4, <1>0, <2>1 DEF AtDevice, ThreadTypes, LockDevice, Frame, Locked
  <2> QED BY <2>2, <2>3, <2>4, <2>5
<1>5. CASE LockDeviceFails(t)
  <2>1. d \in Devices BY <1>5 DEF LockDeviceFails, Calls, AtDevice
  <2>2. LockTypes'
    <3>1. ClearLockInfo(lock[d]) \in LockRecords BY <1>0, <2>1, RecordTypes DEF LockTypes
    <3> QED BY <1>5, <2>1, <3>1, OneLockTypes DEF LockDeviceFails
  <2>3. ThreadTypes' BY <1>5, <1>0, MoveTypes DEF LockDeviceFails
  <2>4. ServiceTypes' BY <1>5 DEF ServiceTypes, LockDeviceFails, Frame, schedVars
  <2>5. AtDevice' BY <1>5, <1>0, <2>1 DEF AtDevice, ThreadTypes, LockDeviceFails, Frame, Returns
  <2> QED BY <2>2, <2>3, <2>4, <2>5
<1>6. CASE UnlockedForClient(t)
  <2>1. d \in Devices BY <1>6 DEF UnlockedForClient, Calls, AtDevice
  <2>2. LockTypes' BY <1>6, <2>1 DEF LockTypes, LockRecords, UnlockedForClient
  <2>3. ThreadTypes' BY <1>6, <1>0, MoveTypes DEF UnlockedForClient
  <2>4. ServiceTypes' BY <1>6 DEF ServiceTypes, UnlockedForClient, Frame, schedVars
  <2>5. AtDevice' BY <1>6, <1>0, <2>1 DEF AtDevice, ThreadTypes, UnlockedForClient, Frame, Returns
  <2> QED BY <2>2, <2>3, <2>4, <2>5
<1>7. CASE ScheduleUnlock(t)
  <2>1. d \in Devices BY <1>7 DEF ScheduleUnlock, Calls, AtDevice
  <2>2. LockTypes' BY <1>7 DEF LockTypes, ScheduleUnlock
  <2>3. ThreadTypes' BY <1>7, <1>0, MoveTypes DEF ScheduleUnlock, CallPcs
  <2>4. m_lSchedWaitTime' \in Nat BY <1>7, <2>1 DEF LockTypes, LockRecords, ScheduleUnlock
  <2>5. ServiceTypes' BY <1>7, <2>4 DEF ServiceTypes, ScheduleUnlock, Frame
  <2>6. AtDevice' BY <1>7, <1>0, <2>1 DEF AtDevice, ThreadTypes, ScheduleUnlock, Frame, GoTo, Returns
  <2> QED BY <2>2, <2>3, <2>5, <2>6
<1>8. CASE UnlockScheduled(t)
  <2>1. d \in Devices BY <1>8 DEF UnlockScheduled, Calls, AtDevice
  <2>2. LockTypes' BY <1>8 DEF LockTypes, UnlockScheduled
  <2>3. ThreadTypes' BY <1>8, <1>0, MoveTypes DEF UnlockScheduled
  <2>4. ServiceTypes' BY <1>8 DEF ServiceTypes, UnlockScheduled, Frame
  <2>5. AtDevice' BY <1>8, <1>0, <2>1 DEF AtDevice, ThreadTypes, UnlockScheduled, Frame, Returns
  <2> QED BY <2>2, <2>3, <2>4, <2>5
<1> QED BY <1>1, <1>2, <1>3, <1>4, <1>5, <1>6, <1>7, <1>8 DEF CallStep

----------------------------------------------------------------------------
(* RequestLock and RequestUnlock.                                           *)

LEMMA RequestLockTypes ==
  ASSUME TypeInv, NEW t \in Threads, NEW d \in Devices, RequestLock(t, d)
  PROVE  LockTypes' /\ ThreadTypes' /\ AtDevice!1'
<1> USE DEF TypeInv, TypeOK
<1>1. lock[d] \in LockRecords BY DEF LockTypes
<1>2. LockedAgain(lock[d]) \in LockRecords BY <1>1, RecordTypes
<1>3. LockTypes'
  <2>1. CASE lock[d].dwThreadId = t BY <2>1, <1>2, OneLockTypes DEF RequestLock
  <2>2. CASE lock[d].dwThreadId # t BY <2>2 DEF RequestLock, LockTypes
  <2> QED BY <2>1, <2>2
<1>4. ThreadTypes' BY DEF RequestLock, ThreadTypes, CallPcs
<1>5. AtDevice!1' BY DEF AtDevice, RequestLock, ThreadTypes
<1> QED BY <1>3, <1>4, <1>5

LEMMA RequestUnlockTypes ==
  ASSUME TypeInv, NEW t \in Threads, RequestUnlock(t)
  PROVE  LockTypes' /\ ThreadTypes' /\ AtDevice!1' /\ port' \in [Devices -> BOOLEAN]
<1> USE DEF TypeInv, TypeOK
<1> DEFINE d == thread[t].device
           last == lock[d].lInUse <= 1
           unlocks == last /\ lock[d].lHoldingTime = 0 /\ bInServerProcess(t)
           info == UnlockedOnce(lock[d])
<1>1. d \in Devices /\ thread[t].depth \in Nat /\ thread[t].depth > 0 /\ thread[t].pc = "run"
  BY DEF AtDevice, ThreadTypes, RequestUnlock, Calls
<1>2. PICK closes \in IF unlocks THEN Closing(d) ELSE {FALSE} :
           /\ UnlockDevice(d, closes)
           /\ lock' = [lock EXCEPT ![d] =
                IF ~ last THEN info
                ELSE IF ~ unlocks THEN ClearLockInfo(info)
                ELSE ClearLockInfo([info EXCEPT !.bDeviceIsLocked = ~ closes])]
  BY DEF RequestUnlock
<1>3. closes \in BOOLEAN BY <1>2 DEF Closing
<1>4. lock[d] \in LockRecords BY <1>1 DEF LockTypes
<1>5. info \in LockRecords BY <1>4, RecordTypes
<1>6. [info EXCEPT !.bDeviceIsLocked = ~ closes] \in LockRecords
  BY <1>3, <1>5, RecordTypes
<1>7. LockTypes'
  <2>1. CASE ~ last BY <2>1, <1>1, <1>2, <1>5, OneLockTypes
  <2>2. CASE last /\ ~ unlocks
    <3>1. ClearLockInfo(info) \in LockRecords BY <1>5, RecordTypes
    <3> QED BY <3>1, <2>2, <1>1, <1>2, OneLockTypes
  <2>3. CASE last /\ unlocks
    <3>1. ClearLockInfo([info EXCEPT !.bDeviceIsLocked = ~ closes]) \in LockRecords
      BY <1>6, RecordTypes
    <3> QED BY <3>1, <2>3, <1>1, <1>2, OneLockTypes
  <2> QED BY <2>1, <2>2, <2>3
<1>8. ThreadTypes' BY <1>1 DEF RequestUnlock, ThreadTypes, CallPcs
<1>9. AtDevice!1' BY <1>1 DEF AtDevice, RequestUnlock, ThreadTypes
<1>10. port' \in [Devices -> BOOLEAN] BY <1>2, <1>3 DEF UnlockDevice, ServiceTypes
<1> QED BY <1>7, <1>8, <1>9, <1>10

\* A server or client thread's call, and what it leaves alone.
LEMMA UseTypes ==
  ASSUME TypeInv, NEW t \in Servers \cup Clients, UseDevice(t)
  PROVE  TypeInv'
<1> USE DEF TypeInv, TypeOK
<1>0. t \in Threads BY DEF Threads
<1>1. ASSUME NEW d \in Uses[t], RequestLock(t, d) PROVE TypeInv'
  <2>1. d \in Devices BY ConstantsAssumption
  <2>2. LockTypes' /\ ThreadTypes' /\ AtDevice!1' BY <1>0, <1>1, <2>1, RequestLockTypes
  <2>3. ServiceTypes' BY <1>1 DEF ServiceTypes, RequestLock, UseDevice, schedVars
  <2>4. AtDevice' BY <2>2, <1>1 DEF AtDevice, RequestLock, UseDevice
  <2> QED BY <2>2, <2>3, <2>4
<1>2. CASE RequestUnlock(t)
  <2>1. LockTypes' /\ ThreadTypes' /\ AtDevice!1' /\ port' \in [Devices -> BOOLEAN]
    BY <1>0, <1>2, RequestUnlockTypes
  <2>2. ServiceTypes' BY <1>2, <2>1 DEF ServiceTypes, RequestUnlock, UseDevice, schedVars
  <2>3. AtDevice' BY <2>1, <1>2 DEF AtDevice, RequestUnlock, UseDevice
  <2> QED BY <2>1, <2>2, <2>3
<1> QED BY <1>1, <1>2 DEF UseDevice

----------------------------------------------------------------------------
(* AutoUnlock.                                                              *)

LEMMA TimerTypes ==
  ASSUME TypeInv, TimerStep
  PROVE  TypeInv'
<1> USE DEF TypeInv, TypeOK, TimerFrame
<1>1. CASE AutoUnlock
  <2>1. LockTypes' BY <1>1 DEF AutoUnlock, LockTypes
  <2>2. ThreadTypes' BY <1>1 DEF AutoUnlock, ThreadTypes
  <2>3. ServiceTypes'
    <3>1. items \in Nat /\ items > 0 /\ items' = items - 1 BY <1>1 DEF AutoUnlock, ServiceTypes
    <3>2. items' \in Nat BY <3>1
    <3>3. m_bSched' = FALSE BY <1>1 DEF AutoUnlock
    <3>4. timer' \in [pc : {"idle", "scan", "update"}, todo : SUBSET Devices,
                      device : Devices \cup {NoDevice}, must : SUBSET Nat]
      BY <1>1 DEF AutoUnlock
    <3>5. /\ loaded' = loaded /\ port' = port /\ m_lSchedWaitTime' = m_lSchedWaitTime
          /\ unload' = unload /\ unloads' = unloads
      BY <1>1 DEF AutoUnlock
    <3> QED BY <3>2, <3>3, <3>4, <3>5 DEF ServiceTypes
  <2>4. AtDevice' BY <1>1 DEF AutoUnlock, AtDevice, NoScan
  <2> QED BY <2>1, <2>2, <2>3, <2>4
<1>2. ASSUME NEW d \in Devices, CheckDevice(d) PROVE TypeInv'
  <2>1. LockTypes' BY <1>2 DEF CheckDevice, LockTypes, LockRecords
  <2>2. ThreadTypes' BY <1>2 DEF CheckDevice, ThreadTypes
  <2>3. ServiceTypes' BY <1>2 DEF CheckDevice, ServiceTypes, schedVars
  <2>4. AtDevice' BY <1>2 DEF CheckDevice, AtDevice, ServiceTypes
  <2> QED BY <2>1, <2>2, <2>3, <2>4
<1>3. CASE UpdateLockInfoStatus
  <2> DEFINE d == timer.device
             left == TimeLeft(d)
             over == lock[d].bDeviceIsLocked /\ left = 0
             info == [lock[d] EXCEPT !.lTimeLeft = IF lock[d].bDeviceIsLocked THEN left ELSE @]
  <2>1. d \in Devices BY <1>3 DEF UpdateLockInfoStatus, AtDevice
  <2>2. lock[d] \in LockRecords BY <2>1 DEF LockTypes
  <2>3. left \in Nat BY <2>2 DEF LockRecords, ServiceTypes, TimeLeft
  <2>4. info \in LockRecords
    <3> HIDE DEF left
    <3> QED BY <2>2, <2>3 DEF LockRecords
  <2>5. PICK closes \in IF over THEN Closing(d) ELSE {FALSE} :
           /\ UnlockDevice(d, closes)
           /\ lock' = [lock EXCEPT ![d] =
                IF closes THEN ClearLockInfo([info EXCEPT !.bDeviceIsLocked = FALSE])
                ELSE [info EXCEPT !.hDeviceIsFree = TRUE]]
    BY <1>3 DEF UpdateLockInfoStatus
  <2>6. closes \in BOOLEAN BY <2>5 DEF Closing
  <2>7. LockTypes'
    <3> HIDE DEF info
    <3>1. CASE closes
      <4>1. [info EXCEPT !.bDeviceIsLocked = FALSE] \in LockRecords
        BY <2>4, ManagerIsThread, RecordTypes
      <4>2. ClearLockInfo([info EXCEPT !.bDeviceIsLocked = FALSE]) \in LockRecords
        BY <4>1, ManagerIsThread, RecordTypes
      <4> QED BY <3>1, <4>2, <2>1, <2>5, OneLockTypes
    <3>2. CASE ~ closes
      <4>1. [info EXCEPT !.hDeviceIsFree = TRUE] \in LockRecords
        BY <2>4, ManagerIsThread, RecordTypes
      <4> QED BY <3>2, <4>1, <2>1, <2>5, OneLockTypes
    <3> QED BY <2>6, <3>1, <3>2
  <2>8. ThreadTypes' BY <1>3 DEF UpdateLockInfoStatus, ThreadTypes
  <2>9. port' \in [Devices -> BOOLEAN] BY <2>5, <2>6 DEF UnlockDevice, ServiceTypes
  <2>10. timer'.must \in SUBSET Nat /\ timer' = [timer EXCEPT !.pc = "scan", !.device = NoDevice,
                                                            !.must = timer'.must]
    BY <1>3, <2>3 DEF UpdateLockInfoStatus, ServiceTypes
  <2>11. ServiceTypes' BY <1>3, <2>9, <2>10 DEF UpdateLockInfoStatus, ServiceTypes, schedVars
  <2>12. AtDevice' BY <1>3 DEF UpdateLockInfoStatus, AtDevice, ServiceTypes
  <2> QED BY <2>7, <2>8, <2>11, <2>12
<1>4. CASE RescheduleUnlock
  <2>1. LockTypes' BY <1>4 DEF RescheduleUnlock, LockTypes
  <2>2. ThreadTypes' BY <1>4 DEF RescheduleUnlock, ThreadTypes
  <2>3. ServiceTypes'
    <3>0. items \in Nat /\ m_bSched \in BOOLEAN BY DEF ServiceTypes
    <3>1. items' \in Nat /\ m_bSched' \in BOOLEAN
      <4>1. CASE timer.must # {} /\ ~ m_bSched
        <5>1. m_bSched' = TRUE /\ items' = items + 1 BY <1>4, <4>1 DEF RescheduleUnlock
        <5> QED BY <3>0, <5>1
      <4>2. CASE ~ (timer.must # {} /\ ~ m_bSched)
        <5>1. UNCHANGED schedVars BY <1>4, <4>2 DEF RescheduleUnlock
        <5> QED BY <3>0, <5>1 DEF schedVars
      <4> QED BY <4>1, <4>2
    <3>2. \A left \in timer.must : left \in Nat BY DEF ServiceTypes
    <3>3. m_lSchedWaitTime' \in Nat
      BY <1>4, <3>2 DEF RescheduleUnlock, ServiceTypes, schedVars
    <3> QED BY <1>4, <3>1, <3>3 DEF RescheduleUnlock, ServiceTypes, NoScan
  <2>4. AtDevice' BY <1>4 DEF RescheduleUnlock, AtDevice, NoScan
  <2> QED BY <2>1, <2>2, <2>3, <2>4
<1> QED BY <1>1, <1>2, <1>3, <1>4 DEF TimerStep

----------------------------------------------------------------------------
(* The control thread.                                                      *)

LEMMA ManagerTypes ==
  ASSUME TypeInv, ManagerStep
  PROVE  TypeInv'
<1> USE ManagerIsThread DEF TypeInv, TypeOK, UnloadAt, UnloadGoesTo
<1>0. unload.pc # "none" => unload.device \in Devices BY DEF AtDevice
<1>1. ASSUME NEW d \in Devices, UnLoadDriver(d) PROVE TypeInv'
  <2>1. LockTypes' /\ ThreadTypes' /\ AtDevice!1' BY <1>1, RequestLockTypes DEF UnLoadDriver
  <2>2. ServiceTypes' BY <1>1 DEF ServiceTypes, UnLoadDriver, RequestLock, schedVars
  <2>3. AtDevice' BY <2>1, <1>1 DEF AtDevice, UnLoadDriver, RequestLock
  <2> QED BY <2>1, <2>2, <2>3
<1>2. CASE UnloadLocked
  <2>1. LockTypes' BY <1>2 DEF UnloadLocked, LockTypes
  <2>2. ThreadTypes' BY <1>2 DEF UnloadLocked, ThreadTypes
  <2>3. ServiceTypes'
    <3> DEFINE locked == thread[Manager].depth > 0
    <3>1. unload' = [unload EXCEPT !.pc = "items", !.locked = locked] BY <1>2 DEF UnloadLocked
    <3>2. locked \in BOOLEAN OBVIOUS
    <3> HIDE DEF locked
    <3> QED BY <1>2, <3>1, <3>2 DEF UnloadLocked, ServiceTypes, schedVars
  <2>4. AtDevice' BY <1>0, <1>2 DEF UnloadLocked, AtDevice, ServiceTypes
  <2> QED BY <2>1, <2>2, <2>3, <2>4
<1>3. CASE UninitializeItem
  <2>1. unload.device \in Devices BY <1>0, <1>3 DEF UninitializeItem
  <2>2. LockTypes' /\ ThreadTypes' /\ AtDevice!1'
    BY <1>3, <2>1, RequestLockTypes DEF UninitializeItem
  <2>3. ServiceTypes' BY <1>3 DEF ServiceTypes, UninitializeItem, RequestLock, schedVars
  <2>4. AtDevice' BY <2>1, <2>2, <1>3 DEF AtDevice, UninitializeItem, RequestLock, ServiceTypes
  <2> QED BY <2>2, <2>3, <2>4
<1>4. CASE ItemUninitialized
  <2>1. CASE ItemIsLocked
    <3>1. RequestUnlock(Manager) BY <1>4, <2>1 DEF ItemUninitialized
    <3>2. LockTypes' /\ ThreadTypes' /\ AtDevice!1' /\ port' \in [Devices -> BOOLEAN]
      BY <3>1, RequestUnlockTypes
    <3>3. ServiceTypes'
      BY <1>4, <3>1, <3>2 DEF ServiceTypes, ItemUninitialized, RequestUnlock, schedVars
    <3>4. AtDevice'
      BY <1>0, <1>4, <3>1, <3>2 DEF AtDevice, ItemUninitialized, RequestUnlock, ServiceTypes
    <3> QED BY <3>2, <3>3, <3>4
  <2>2. CASE ~ ItemIsLocked
    <3>1. LockTypes' BY <1>4, <2>2 DEF ItemUninitialized, LockTypes
    <3>2. ThreadTypes' BY <1>4, <2>2 DEF ItemUninitialized, ThreadTypes
    <3>3. ServiceTypes' BY <1>4, <2>2 DEF ItemUninitialized, ServiceTypes, schedVars
    <3>4. AtDevice' BY <1>0, <1>4, <2>2 DEF ItemUninitialized, AtDevice, ServiceTypes
    <3> QED BY <3>1, <3>2, <3>3, <3>4
  <2> QED BY <2>1, <2>2
<1>5. CASE UnloadUnlocks
  <2> DEFINE d == unload.device
  <2>1. PICK closes \in IF unload.locked THEN Closing(d) ELSE {FALSE} :
           /\ UnlockDevice(d, closes)
           /\ lock' = [lock EXCEPT ![d].bDeviceIsLocked =
                         IF unload.locked THEN ~ closes ELSE @]
    BY <1>5 DEF UnloadUnlocks
  <2>2. closes \in BOOLEAN /\ d \in Devices BY <1>0, <1>5, <2>1 DEF Closing, UnloadUnlocks
  <2>3. LockTypes'
    <3> DEFINE flag == IF unload.locked THEN ~ closes ELSE lock[d].bDeviceIsLocked
    <3>1. lock[d] \in LockRecords BY <2>2 DEF LockTypes
    <3>2. flag \in BOOLEAN BY <2>2, <3>1 DEF LockRecords
    <3>3. [lock[d] EXCEPT !.bDeviceIsLocked = flag] \in LockRecords
      BY <3>1, <3>2, ManagerIsThread, RecordTypes
    <3>4. lock' = [lock EXCEPT ![d] = [lock[d] EXCEPT !.bDeviceIsLocked = flag]] BY <2>1
    <3> HIDE DEF flag
    <3> QED BY <2>2, <3>3, <3>4, OneLockTypes
  <2>4. ThreadTypes' BY <1>5 DEF UnloadUnlocks, ThreadTypes
  <2>5. ServiceTypes' BY <1>5, <2>1, <2>2 DEF UnloadUnlocks, UnlockDevice, ServiceTypes, schedVars
  <2>6. AtDevice' BY <1>0, <1>5 DEF UnloadUnlocks, AtDevice, ServiceTypes
  <2> QED BY <2>3, <2>4, <2>5, <2>6
<1>6. CASE DriverUnloaded
  <2>1. LockTypes' BY <1>6 DEF DriverUnloaded, LockTypes
  <2>2. ThreadTypes' BY <1>6 DEF DriverUnloaded, ThreadTypes
  <2>3. ServiceTypes' BY <1>6 DEF DriverUnloaded, ServiceTypes, schedVars
  <2>4. AtDevice' BY <1>0, <1>6 DEF DriverUnloaded, AtDevice, ServiceTypes
  <2> QED BY <2>1, <2>2, <2>3, <2>4
<1>7. CASE UnloadClears
  <2>1. LockTypes' BY <1>0, <1>7 DEF UnloadClears, LockTypes, LockRecords, ClearLockInfo
  <2>2. ThreadTypes' BY <1>7 DEF UnloadClears, ThreadTypes, Idle, CallPcs
  <2>3. ServiceTypes' BY <1>7 DEF UnloadClears, ServiceTypes, schedVars, NoUnload
  <2>4. AtDevice' BY <1>7 DEF UnloadClears, AtDevice, Idle, NoUnload, ThreadTypes
  <2> QED BY <2>1, <2>2, <2>3, <2>4
<1>8. ASSUME NEW d \in Devices, LoadDriver(d) PROVE TypeInv'
  <2>1. LockTypes' BY <1>8 DEF LoadDriver, LockTypes
  <2>2. ThreadTypes' BY <1>8 DEF LoadDriver, ThreadTypes
  <2>3. ServiceTypes' BY <1>8 DEF LoadDriver, ServiceTypes, schedVars
  <2>4. AtDevice' BY <1>8 DEF LoadDriver, AtDevice
  <2> QED BY <2>1, <2>2, <2>3, <2>4
<1> QED
  BY <1>1, <1>2, <1>3, <1>4, <1>5, <1>6, <1>7, <1>8 DEF ManagerStep, UnloadStep

----------------------------------------------------------------------------
LEMMA TypeStep == TypeInv /\ [Next]_vars => TypeInv'
<1> SUFFICES ASSUME TypeInv, [Next]_vars PROVE TypeInv' OBVIOUS
<1>1. CASE UNCHANGED vars
  BY <1>1 DEF vars, schedVars, TypeInv, TypeOK, LockTypes, ThreadTypes, ServiceTypes, AtDevice
<1>2. CASE Next BY <1>2, CallTypes, UseTypes, TimerTypes, ManagerTypes DEF Next
<1> QED BY <1>1, <1>2

\* Every variable of the lock manager always holds a value of its type, whatever
\* the devices' drivers and the clients do; in particular no idle time falls
\* below zero (lockmgr.cpp 1173).
THEOREM DeviceTypeCorrect == Spec => []TypeOK
<1>1. TypeInv => TypeOK BY DEF TypeInv
<1> QED BY <1>1, InitTypes, TypeStep, PTL DEF Spec

----------------------------------------------------------------------------
(* One user at a time.  The event, the owner and the count of a LockInfo    *)
(* always agree with who has the device, and UnLoadDriver has the lock from *)
(* the moment it was given it; the one exception is a driver that refuses   *)
(* UnLoadDriver its lock.                                                   *)

UnloadNotRefused == "LockDeviceToUnload" \notin Failures

Count(t) == thread[t].depth + (IF thread[t].pc = "lock" THEN 1 ELSE 0)

\* The LockInfo of device d says who has it.
HolderKnown(d) ==
  /\ \A t \in Threads : Holds(t, d) =>
       ~ lock[d].hDeviceIsFree /\ lock[d].dwThreadId = t /\ lock[d].lInUse = Count(t)
  /\ timer.device = d =>
       ~ lock[d].hDeviceIsFree /\ lock[d].dwThreadId = NoThread /\ lock[d].lInUse = 0
  /\ lock[d].dwThreadId # NoThread => Holds(lock[d].dwThreadId, d)
  /\ lock[d].dwThreadId = NoThread /\ timer.device # d =>
       lock[d].hDeviceIsFree /\ lock[d].lInUse = 0

\* A thread that waits for a device has none.
Waiting ==
  /\ \A t \in Threads : thread[t].pc \in {"wait", "lock", "late"} => thread[t].depth = 0
  /\ timer.pc # "update" => timer.device = NoDevice

\* UnLoadDriver has what it locked.
UnloadHasLock ==
  LET m == thread[Manager]
      At(pcs, n) == m.pc \in pcs /\ m.depth = n
  IN  /\ unload.pc = "none" => At({"run"}, 0)
      /\ unload.pc # "none" => m.device = unload.device
      /\ unload.pc = "lock" => At({"wait", "lock"}, 0) \/ At({"run"}, 1)
      /\ unload.pc = "items" => At({"run", "sched", "mark"}, 1) /\ unload.locked
      /\ unload.pc \in {"unload", "clear"} => At({"run"}, 1) /\ unload.locked
      /\ unload.pc = "item" => At({"run"}, 2) /\ unload.locked
      /\ unload.pc \in {"lock", "items", "item", "unload"} => loaded[unload.device]

LockInv ==
  TypeInv /\ Waiting /\ UnloadHasLock /\ \A d \in Devices : HolderKnown(d)

LEMMA InitLocks == Init => LockInv
<1> SUFFICES ASSUME Init PROVE LockInv OBVIOUS
<1>1. TypeInv BY InitTypes
<1>2. Waiting BY DEF Init, Waiting, Idle, NoScan
<1>3. UnloadHasLock BY ManagerIsThread DEF Init, UnloadHasLock, Idle, NoUnload
<1>4. ASSUME NEW d \in Devices PROVE HolderKnown(d)
  <2>1. lock[d].hDeviceIsFree /\ lock[d].dwThreadId = NoThread /\ lock[d].lInUse = 0
    BY DEF Init
  <2>2. timer.device = NoDevice BY DEF Init, NoScan
  <2>3. \A t \in Threads : ~ Holds(t, d) BY DEF Init, Holds, Idle
  <2> QED BY <2>1, <2>2, <2>3, ConstantsAssumption DEF HolderKnown
<1> QED BY <1>1, <1>2, <1>3, <1>4 DEF LockInv

\* A device whose LockInfo and users a step leaves alone.
LEMMA SameHolder ==
  ASSUME NEW d \in Devices, HolderKnown(d),
         lock[d].dwThreadId \in Threads \cup {NoThread},
         lock'[d].hDeviceIsFree = lock[d].hDeviceIsFree,
         lock'[d].dwThreadId = lock[d].dwThreadId, lock'[d].lInUse = lock[d].lInUse,
         timer'.device = d <=> timer.device = d,
         \A u \in Threads : /\ Holds(u, d)' <=> Holds(u, d)
                            /\ Holds(u, d) => Count(u)' = Count(u)
  PROVE  HolderKnown(d)'
BY DEF HolderKnown

\* A step of thread t at device d leaves the other devices alone.
LEMMA OtherDevice ==
  ASSUME NEW t \in Threads, NEW d \in Devices, NEW e \in Devices, e # d,
         thread[t].device \in {d, NoDevice},
         thread'[t].device \in {d, NoDevice}, \A u \in Threads \ {t} : thread'[u] = thread[u],
         timer'.device = timer.device,
         lock[e].dwThreadId \in Threads \cup {NoThread},
         lock'[e] = lock[e], HolderKnown(e)
  PROVE  HolderKnown(e)'
<1>1. e # NoDevice BY ConstantsAssumption
<1>2. ASSUME NEW u \in Threads PROVE Holds(u, e)' <=> Holds(u, e)
  BY <1>1 DEF Holds
<1>3. ASSUME NEW u \in Threads, Holds(u, e) PROVE Count(u)' = Count(u)
  BY <1>1, <1>3 DEF Holds, Count
<1> QED BY <1>2, <1>3, SameHolder

\* What thread t may do to the LockInfo of device d.
LEMMA ThisDevice ==
  ASSUME NEW t \in Threads, NEW d \in Devices, HolderKnown(d),
         \A u \in Threads \ {t} : thread'[u] = thread[u], timer'.device = timer.device,
         \/ lock[d].hDeviceIsFree \/ lock[d].dwThreadId = t,
         \/ /\ Holds(t, d)' /\ lock'[d].dwThreadId = t /\ ~ lock'[d].hDeviceIsFree
            /\ lock'[d].lInUse = Count(t)'
         \/ /\ ~ Holds(t, d)' /\ lock'[d].dwThreadId = NoThread /\ lock'[d].hDeviceIsFree
            /\ lock'[d].lInUse = 0
  PROVE  HolderKnown(d)'
<1>1. t # NoThread BY ConstantsAssumption
<1>2. timer.device # d BY <1>1 DEF HolderKnown
<1>3. ASSUME NEW u \in Threads, u # t PROVE ~ Holds(u, d)'
  <2>1. ~ Holds(u, d) BY <1>3 DEF HolderKnown
  <2> QED BY <2>1, <1>3 DEF Holds
<1> QED BY <1>1, <1>2, <1>3 DEF HolderKnown

\* A device that is free has no user.
LEMMA FreeIsUnused ==
  ASSUME NEW d \in Devices, HolderKnown(d), lock[d].hDeviceIsFree,
         lock[d].dwThreadId \in Threads \cup {NoThread}
  PROVE  /\ lock[d].dwThreadId = NoThread /\ lock[d].lInUse = 0 /\ timer.device # d
         /\ \A t \in Threads : ~ Holds(t, d)
BY DEF HolderKnown

\* A step of a thread other than the control thread leaves UnLoadDriver alone.
LEMMA UnloadElsewhere ==
  ASSUME UnloadHasLock, thread'[Manager] = thread[Manager], unload' = unload, loaded' = loaded
  PROVE  UnloadHasLock'
BY DEF UnloadHasLock

----------------------------------------------------------------------------
(* The calls keep LockInv.                                                  *)

\* What all steps of a call have in common.
LEMMA CallCommon ==
  ASSUME LockInv, NEW t \in Threads, CallStep(t)
  PROVE  LET d == thread[t].device
         IN  /\ d \in Devices /\ thread[t].pc \in CallPcs \ {"run"} /\ thread[t].depth \in Nat
             /\ lock[d] \in LockRecords /\ HolderKnown(d)
             /\ \A u \in Threads \ {t} : thread'[u] = thread[u]
             /\ thread'[t].device \in {d, NoDevice}
             /\ UNCHANGED <<loaded, timer, unload>>
             /\ \A e \in Devices : lock[e].dwThreadId \in Threads \cup {NoThread}
             /\ \A e \in Devices \ {d} : lock'[e] = lock[e]
<1> DEFINE d == thread[t].device
<1> USE DEF LockInv, TypeInv, TypeOK
<1>1. thread \in [Threads -> [pc : CallPcs, device : Devices \cup {NoDevice}, depth : Nat]]
  BY DEF ThreadTypes
<1>2. thread[t].pc # "run"
  BY DEF CallStep, Granted, Offline, Busy, LockDevice, LockDeviceFails, UnlockedForClient,
         ScheduleUnlock, UnlockScheduled, Calls
<1>3. d \in Devices BY <1>2 DEF AtDevice
<1>4. lock \in [Devices -> LockRecords] BY DEF LockTypes
<1>5. \A e \in Devices : lock[e].dwThreadId \in Threads \cup {NoThread}
  BY <1>4 DEF LockRecords
<1>6. /\ \E r : thread' = [thread EXCEPT ![t] = r]
      /\ thread'[t].device \in {d, NoDevice}
  BY <1>1
  DEF CallStep, Granted, Offline, Busy, LockDevice, LockDeviceFails, UnlockedForClient,
      ScheduleUnlock, UnlockScheduled, Locked, Returns, GoTo
<1>7. \A u \in Threads \ {t} : thread'[u] = thread[u] BY <1>1, <1>6
<1>8. UNCHANGED <<loaded, timer, unload>>
  BY DEF CallStep, Granted, Offline, Busy, LockDevice, LockDeviceFails, UnlockedForClient,
         ScheduleUnlock, UnlockScheduled, Frame
<1>9. \A e \in Devices \ {d} : lock'[e] = lock[e]
  BY <1>3, <1>4
  DEF CallStep, Granted, Offline, Busy, LockDevice, LockDeviceFails, UnlockedForClient,
      ScheduleUnlock, UnlockScheduled
<1> QED BY <1>1, <1>2, <1>3, <1>4, <1>5, <1>6, <1>7, <1>8, <1>9

LEMMA CallLocks ==
  ASSUME LockInv, UnloadNotRefused, NEW t \in Threads, CallStep(t)
  PROVE  LockInv'
<1>0. PICK d \in Devices : d = thread[t].device BY CallCommon
<1> DEFINE after == thread'[t]
<1>1. TypeInv' BY CallTypes DEF LockInv
<1>c. /\ thread[t].pc \in CallPcs \ {"run"} /\ thread[t].depth \in Nat
      /\ lock[d] \in LockRecords /\ HolderKnown(d)
      /\ \A u \in Threads \ {t} : thread'[u] = thread[u]
      /\ after.device \in {d, NoDevice}
      /\ loaded' = loaded /\ timer' = timer /\ unload' = unload
      /\ \A e \in Devices : lock[e].dwThreadId \in Threads \cup {NoThread}
      /\ \A e \in Devices \ {d} : lock'[e] = lock[e]
  BY <1>0, CallCommon
<1>k. thread \in [Threads -> [pc : CallPcs, device : Devices \cup {NoDevice}, depth : Nat]]
  BY DEF LockInv, TypeInv, TypeOK, ThreadTypes
<1> USE <1>0, <1>c
<1>2. ASSUME NEW e \in Devices, e # d PROVE HolderKnown(e)'
  BY <1>2, OtherDevice DEF LockInv
<1>3. HolderKnown(d)' /\ (after.pc = "lock" => after.depth = 0) /\ after.pc \notin {"wait", "late"}
      /\ (t = Manager => UnloadHasLock')
  <2> DEFINE info == lock[d]
  <2>0. thread[t].pc \in {"wait", "lock", "late"} => thread[t].depth = 0 BY DEF LockInv, Waiting
  <2>m. ASSUME t = Manager
        PROVE  /\ unload.pc \in {"lock", "items"} /\ d = unload.device /\ loaded[d]
               /\ unload.pc = "lock" => thread[t].pc \in {"wait", "lock"} /\ thread[t].depth = 0
               /\ unload.pc = "items" => thread[t].pc \in {"sched", "mark"} /\ thread[t].depth = 1
                                         /\ unload.locked
               /\ after.device = d /\ after.pc \in {"wait", "lock"} /\ after.depth = 0
                    /\ unload.pc = "lock" => UnloadHasLock'
               /\ after.device = d /\ after.pc = "run" /\ after.depth = 1 /\ unload.pc = "lock"
                    => UnloadHasLock'
               /\ after.device = d /\ after.pc \in {"run", "sched", "mark"} /\ after.depth = 1
                    /\ unload.pc = "items" => UnloadHasLock'
    BY <2>m DEF LockInv, UnloadHasLock, TypeInv, TypeOK, ServiceTypes
  <2>1. CASE Granted(t)
    <3>1. thread[t].pc = "wait" /\ info.hDeviceIsFree BY <2>1 DEF Granted, Calls
    <3>2. info.lInUse = 0 BY <3>1, FreeIsUnused
    <3>3. lock'[d] = TakenBy(info, t, bInServerProcess(t))
      BY <2>1 DEF Granted, LockInv, TypeInv, TypeOK, LockTypes
    <3>4. lock'[d].dwThreadId = t /\ ~ lock'[d].hDeviceIsFree /\ lock'[d].lInUse = 1
      BY <3>2, <3>3 DEF TakenBy
    <3>5. /\ after.device = d
          /\ \/ bInServerProcess(t) /\ after.pc = "lock" /\ after.depth = 0
             \/ ~ bInServerProcess(t) /\ after.pc = "run" /\ after.depth = 1
      BY <1>k, <2>0, <2>1, <3>1 DEF Granted, GoTo, Locked
    <3>6. Holds(t, d)' /\ Count(t)' = 1 BY <3>5 DEF Holds, Count
    <3>7. HolderKnown(d)' BY <3>1, <3>4, <3>6, ThisDevice
    <3>8. t = Manager => UnloadHasLock' BY <2>m, <3>1, <3>5
    <3> QED BY <3>5, <3>7, <3>8
  <2>2. CASE Offline(t)
    <3>1. thread[t].pc = "wait" /\ info.hDeviceIsFree /\ ~ loaded[d] BY <2>2 DEF Offline, Calls
    <3>2. lock'[d] = ClearLockInfo(info)
      BY <2>2 DEF Offline, LockInv, TypeInv, TypeOK, LockTypes
    <3>3. lock'[d].dwThreadId = NoThread /\ lock'[d].hDeviceIsFree /\ lock'[d].lInUse = 0
      BY <3>2 DEF ClearLockInfo, LockRecords
    <3>4. after.pc = "run" /\ after.depth = 0 BY <1>k, <2>0, <2>2, <3>1 DEF Offline, Returns
    <3>5. ~ Holds(t, d)' BY <3>4 DEF Holds
    <3>6. HolderKnown(d)' BY <3>1, <3>3, <3>5, ThisDevice
    <3>7. t # Manager BY <2>m, <3>1
    <3> QED BY <3>4, <3>6, <3>7
  <2>3. CASE Busy(t)
    <3>1. thread[t].pc = "wait" /\ lock' = lock BY <2>3 DEF Busy, Calls
    <3>2. after.pc = "run" /\ after.depth = 0 BY <1>k, <2>0, <2>3, <3>1 DEF Busy, Returns
    <3>3. ~ Holds(t, d) /\ ~ Holds(t, d)' BY <2>0, <3>1, <3>2 DEF Holds
    <3>4. HolderKnown(d)'
      <4>1. ASSUME NEW u \in Threads, u # t PROVE (Holds(u, d)' <=> Holds(u, d)) /\ Count(u)' = Count(u)
        BY <4>1 DEF Holds, Count
      <4> QED BY <3>1, <3>3, <4>1, SameHolder
    <3>5. t # Manager BY <2>3, <2>m, <3>1 DEF Busy, bInServerProcess
    <3> QED BY <3>2, <3>4, <3>5
  <2>4. CASE LockDevice(t)
    <3>1. thread[t].pc = "lock" /\ thread[t].depth = 0 BY <2>0, <2>4 DEF LockDevice, Calls
    <3>2. Holds(t, d) /\ Count(t) = 1 BY <3>1 DEF Holds, Count
    <3>3. info.dwThreadId = t /\ ~ info.hDeviceIsFree /\ info.lInUse = 1 BY <3>2 DEF HolderKnown
    <3>4. lock'[d] = [info EXCEPT !.bDeviceIsLocked = TRUE]
      BY <2>4 DEF LockDevice, LockInv, TypeInv, TypeOK, LockTypes
    <3>5. lock'[d].dwThreadId = t /\ ~ lock'[d].hDeviceIsFree /\ lock'[d].lInUse = 1
      BY <3>3, <3>4 DEF LockRecords
    <3>6. after.device = d /\ after.pc = "run" /\ after.depth = 1
      BY <1>k, <2>4, <3>1 DEF LockDevice, Locked
    <3>7. Holds(t, d)' /\ Count(t)' = 1 BY <3>6 DEF Holds, Count
    <3>8. HolderKnown(d)' BY <3>3, <3>5, <3>7, ThisDevice
    <3>9. t = Manager => UnloadHasLock' BY <2>m, <3>1, <3>6
    <3> QED BY <3>6, <3>8, <3>9
  <2>5. CASE LockDeviceFails(t)
    <3>1. thread[t].pc = "lock" /\ thread[t].depth = 0 BY <2>0, <2>5 DEF LockDeviceFails, Calls
    <3>2. Holds(t, d) BY <3>1 DEF Holds
    <3>3. info.dwThreadId = t BY <3>2 DEF HolderKnown
    <3>4. lock'[d] = ClearLockInfo(info)
      BY <2>5 DEF LockDeviceFails, LockInv, TypeInv, TypeOK, LockTypes
    <3>5. lock'[d].dwThreadId = NoThread /\ lock'[d].hDeviceIsFree /\ lock'[d].lInUse = 0
      BY <3>4 DEF ClearLockInfo, LockRecords
    <3>6. after.pc = "run" /\ after.depth = 0 BY <1>k, <2>5, <3>1 DEF LockDeviceFails, Returns
    <3>7. ~ Holds(t, d)' BY <3>6 DEF Holds
    <3>8. HolderKnown(d)' BY <3>3, <3>5, <3>7, ThisDevice
    <3>9. t # Manager BY <2>5, <2>m DEF LockDeviceFails, UnloadNotRefused
    <3> QED BY <3>6, <3>8, <3>9
  <2>6. CASE UnlockedForClient(t)
    <3>1. thread[t].pc = "late" /\ thread[t].depth = 0 BY <2>0, <2>6 DEF UnlockedForClient, Calls
    <3>2. lock'[d] = [info EXCEPT !.bDeviceIsLocked = FALSE]
      BY <2>6 DEF UnlockedForClient, LockInv, TypeInv, TypeOK, LockTypes
    <3>3. after.pc = "run" /\ after.depth = 0 BY <1>k, <2>6, <3>1 DEF UnlockedForClient, Returns
    <3>4. ~ Holds(t, d) /\ ~ Holds(t, d)' BY <3>1, <3>3 DEF Holds
    <3>5. HolderKnown(d)'
      <4>1. ASSUME NEW u \in Threads, u # t PROVE (Holds(u, d)' <=> Holds(u, d)) /\ Count(u)' = Count(u)
        BY <4>1 DEF Holds, Count
      <4>2. lock'[d].dwThreadId = info.dwThreadId /\ lock'[d].lInUse = info.lInUse
            /\ lock'[d].hDeviceIsFree = info.hDeviceIsFree
        BY <3>2 DEF LockRecords
      <4> QED BY <3>4, <4>1, <4>2, SameHolder
    <3>6. t # Manager BY <2>m, <3>1
    <3> QED BY <3>3, <3>5, <3>6
  <2>7. CASE ScheduleUnlock(t) \/ UnlockScheduled(t)
    <3>1. thread[t].pc \in {"sched", "mark"} /\ lock' = lock
      BY <2>7 DEF ScheduleUnlock, UnlockScheduled, Calls
    <3>2. /\ after.pc \in {"run", "mark"} /\ after.depth = thread[t].depth
          /\ thread[t].depth > 0 => after.device = d
      BY <1>k, <2>7 DEF ScheduleUnlock, UnlockScheduled, Returns, GoTo
    <3>3. (Holds(t, d)' <=> Holds(t, d)) /\ Count(t)' = Count(t)
      BY <3>1, <3>2 DEF Holds, Count
    <3>4. HolderKnown(d)'
      <4>1. ASSUME NEW u \in Threads, u # t PROVE (Holds(u, d)' <=> Holds(u, d)) /\ Count(u)' = Count(u)
        BY <4>1 DEF Holds, Count
      <4> QED BY <3>1, <3>3, <4>1, SameHolder
    <3>5. t = Manager => UnloadHasLock' BY <2>m, <3>1, <3>2
    <3> QED BY <3>2, <3>4, <3>5
  <2> QED BY <2>1, <2>2, <2>3, <2>4, <2>5, <2>6, <2>7 DEF CallStep
<1>4. Waiting' BY <1>3 DEF LockInv, Waiting
<1>5. UnloadHasLock'
  <2>1. CASE t = Manager BY <1>3, <2>1
  <2>2. CASE t # Manager
    <3>1. thread'[Manager] = thread[Manager] BY <2>2, ManagerIsThread
    <3> QED BY <3>1, UnloadElsewhere DEF LockInv
  <2> QED BY <2>1, <2>2
<1>6. HolderKnown(d)' BY <1>3
<1> QED BY <1>1, <1>2, <1>4, <1>5, <1>6 DEF LockInv

----------------------------------------------------------------------------
(* RequestLock and RequestUnlock keep LockInv.                              *)

LEMMA RequestLockHolders ==
  ASSUME LockInv, NEW t \in Threads, NEW d \in Devices, RequestLock(t, d)
  PROVE  /\ \A e \in Devices : HolderKnown(e)'
         /\ Waiting' /\ thread'[t].device = d
         /\ \A u \in Threads \ {t} : thread'[u] = thread[u]
         /\ \/ thread'[t].pc = "run" /\ thread[t].depth > 0 /\ thread'[t].depth = thread[t].depth + 1
            \/ thread'[t].pc = "wait" /\ thread[t].depth = 0 /\ thread'[t].depth = 0
<1> DEFINE after == thread'[t]
           info == lock[d]
<1>k. thread \in [Threads -> [pc : CallPcs, device : Devices \cup {NoDevice}, depth : Nat]]
  BY DEF LockInv, TypeInv, TypeOK, ThreadTypes
<1>1. /\ lock \in [Devices -> LockRecords] /\ HolderKnown(d)
      /\ thread[t].pc = "run" /\ thread[t].depth \in Nat /\ thread[t].device \in {d, NoDevice}
      /\ thread[t].depth > 0 => thread[t].device = d
      /\ timer' = timer
  BY <1>k, ConstantsAssumption
  DEF LockInv, TypeInv, TypeOK, LockTypes, AtDevice, RequestLock, Calls
<1>2. \A e \in Devices : lock[e] \in LockRecords /\ lock[e].dwThreadId \in Threads \cup {NoThread}
  BY <1>1 DEF LockRecords
<1>3. \A u \in Threads \ {t} : thread'[u] = thread[u] BY <1>k DEF RequestLock
<1>4. after.device = d BY <1>k DEF RequestLock
<1>5. CASE info.dwThreadId = t
  <2>1. Holds(t, d) BY <1>1, <1>5, ConstantsAssumption DEF HolderKnown
  <2>2. thread[t].depth > 0 /\ info.lInUse = thread[t].depth /\ ~ info.hDeviceIsFree
    BY <1>1, <2>1 DEF Holds, HolderKnown, Count
  <2>3. after.pc = "run" /\ after.depth = thread[t].depth + 1
    BY <1>k, <1>1, <1>5 DEF RequestLock
  <2>4. lock' = [lock EXCEPT ![d] = LockedAgain(info)] BY <1>5 DEF RequestLock
  <2>5. lock'[d] = LockedAgain(info) /\ \A e \in Devices \ {d} : lock'[e] = lock[e]
    BY <1>1, <2>4
  <2>6. lock'[d].dwThreadId = t /\ ~ lock'[d].hDeviceIsFree /\ lock'[d].lInUse = after.depth
    BY <1>2, <1>5, <2>2, <2>3, <2>5 DEF LockedAgain, LockRecords
  <2>7. Holds(t, d)' /\ Count(t)' = after.depth BY <1>1, <1>4, <2>3 DEF Holds, Count
  <2>8. HolderKnown(d)' BY <1>1, <1>3, <1>5, <2>6, <2>7, ThisDevice
  <2>9. ASSUME NEW e \in Devices, e # d PROVE HolderKnown(e)'
    BY <1>1, <1>2, <1>3, <1>4, <2>5, <2>9, OtherDevice DEF LockInv
  <2>10. Waiting' BY <1>1, <1>3, <2>3 DEF LockInv, Waiting
  <2> QED BY <1>3, <1>4, <2>2, <2>3, <2>8, <2>9, <2>10
<1>6. CASE info.dwThreadId # t
  <2>1. ~ Holds(t, d) BY <1>1, <1>6 DEF HolderKnown
  <2>2. thread[t].depth = 0 BY <1>1, <2>1 DEF Holds
  <2>3. after.pc = "wait" /\ after.depth = 0 /\ lock' = lock
    BY <1>k, <1>6, <2>2 DEF RequestLock
  <2>4. ~ Holds(t, d)' BY <2>3 DEF Holds
  <2>5. ASSUME NEW u \in Threads, u # t PROVE (Holds(u, d)' <=> Holds(u, d)) /\ Count(u)' = Count(u)
    BY <1>3, <2>5 DEF Holds, Count
  <2>6. HolderKnown(d)' BY <1>1, <1>2, <2>1, <2>3, <2>4, <2>5, SameHolder
  <2>7. ASSUME NEW e \in Devices, e # d PROVE HolderKnown(e)'
    BY <1>1, <1>2, <1>3, <1>4, <2>3, <2>7, OtherDevice DEF LockInv
  <2>8. Waiting' BY <1>1, <1>3, <2>3 DEF LockInv, Waiting
  <2> QED BY <1>3, <1>4, <2>2, <2>3, <2>6, <2>7, <2>8
<1> QED BY <1>5, <1>6

LEMMA RequestUnlockHolders ==
  ASSUME LockInv, NEW t \in Threads, RequestUnlock(t)
  PROVE  /\ \A e \in Devices : HolderKnown(e)'
         /\ Waiting'
         /\ \A u \in Threads \ {t} : thread'[u] = thread[u]
         /\ thread'[t].depth = thread[t].depth - 1
         /\ thread[t].depth > 1 => thread'[t].pc = "sched" /\ thread'[t].device = thread[t].device
<1>0. PICK d \in Devices : d = thread[t].device
  BY DEF LockInv, TypeInv, AtDevice, RequestUnlock
<1> DEFINE after == thread'[t]
           info == lock[d]
           last == info.lInUse <= 1
           unlocks == last /\ info.lHoldingTime = 0 /\ bInServerProcess(t)
<1>k. thread \in [Threads -> [pc : CallPcs, device : Devices \cup {NoDevice}, depth : Nat]]
  BY DEF LockInv, TypeInv, TypeOK, ThreadTypes
<1>1. /\ lock \in [Devices -> LockRecords] /\ HolderKnown(d)
      /\ thread[t].pc = "run" /\ thread[t].depth \in Nat /\ thread[t].depth > 0
      /\ timer' = timer
  BY <1>k DEF LockInv, TypeInv, TypeOK, LockTypes, RequestUnlock, Calls
<1>2. \A e \in Devices : lock[e] \in LockRecords /\ lock[e].dwThreadId \in Threads \cup {NoThread}
  BY <1>1 DEF LockRecords
<1>3. \A u \in Threads \ {t} : thread'[u] = thread[u] BY <1>k DEF RequestUnlock
<1>4. Holds(t, d) /\ Count(t) = thread[t].depth BY <1>0, <1>1 DEF Holds, Count
<1>5. info.dwThreadId = t /\ ~ info.hDeviceIsFree /\ info.lInUse = thread[t].depth
  BY <1>1, <1>4 DEF HolderKnown
<1>6. after = [pc     |-> IF last /\ ~ bInServerProcess(t) THEN "late"
                          ELSE IF unlocks THEN "run" ELSE "sched",
               device |-> IF unlocks /\ thread[t].depth = 1 THEN NoDevice ELSE d,
               depth  |-> thread[t].depth - 1]
  BY <1>0, <1>k DEF RequestUnlock
<1>7. PICK closes :
        lock' = [lock EXCEPT ![d] =
                  IF ~ last THEN UnlockedOnce(info)
                  ELSE IF ~ unlocks THEN ClearLockInfo(UnlockedOnce(info))
                  ELSE ClearLockInfo([UnlockedOnce(info) EXCEPT !.bDeviceIsLocked = ~ closes])]
  BY <1>0 DEF RequestUnlock
<1>8. /\ after.depth = thread[t].depth - 1 /\ after.device \in {d, NoDevice}
      /\ after.pc \in {"run", "late", "sched"} /\ (after.pc = "late" => last)
  BY <1>6
<1>9. \A e \in Devices \ {d} : lock'[e] = lock[e] BY <1>1, <1>7
<1>10. HolderKnown(d)' /\ (last => after.depth = 0)
       /\ (~ last => after.pc = "sched" /\ after.device = d)
  <2>1. CASE ~ last
    <3>1. lock'[d] = UnlockedOnce(info) BY <1>1, <1>7, <2>1
    <3>2. lock'[d].dwThreadId = t /\ ~ lock'[d].hDeviceIsFree
          /\ lock'[d].lInUse = thread[t].depth - 1
      BY <1>1, <1>2, <1>5, <3>1 DEF UnlockedOnce, LockRecords
    <3>3. after.depth > 0 /\ after.device = d /\ after.pc = "sched" BY <1>1, <1>5, <1>6, <2>1
    <3>4. Holds(t, d)' /\ Count(t)' = thread[t].depth - 1 BY <1>1, <1>8, <3>3 DEF Holds, Count
    <3>5. HolderKnown(d)' BY <1>1, <1>3, <1>5, <3>2, <3>4, ThisDevice
    <3> QED BY <2>1, <3>3, <3>5
  <2>2. CASE last
    <3> DEFINE left == IF ~ unlocks THEN UnlockedOnce(info)
                       ELSE [UnlockedOnce(info) EXCEPT !.bDeviceIsLocked = ~ closes]
    <3>1. lock'[d] = ClearLockInfo(left) BY <1>1, <1>7, <2>2
    <3>2. UnlockedOnce(info) \in LockRecords BY <1>2, RecordTypes
    <3>3. DOMAIN left = DOMAIN UnlockedOnce(info) OBVIOUS
    <3>4. DOMAIN UnlockedOnce(info) = {"hDeviceIsFree", "bDeviceIsLocked", "lInUse",
                                       "dwThreadId", "lHoldingTime", "lTimeLeft"}
      BY <3>2 DEF LockRecords
    <3>5. lock'[d].dwThreadId = NoThread /\ lock'[d].hDeviceIsFree /\ lock'[d].lInUse = 0
      <4> HIDE DEF left
      <4> QED BY <3>1, <3>3, <3>4 DEF ClearLockInfo
    <3>6. after.depth = 0 BY <1>1, <1>5, <1>8, <2>2
    <3>7. ~ Holds(t, d)' BY <1>8, <3>6 DEF Holds
    <3>8. HolderKnown(d)' BY <1>1, <1>3, <1>5, <3>5, <3>7, ThisDevice
    <3> QED BY <2>2, <3>6, <3>8
  <2> QED BY <2>1, <2>2
<1>11. ASSUME NEW e \in Devices, e # d PROVE HolderKnown(e)'
  BY <1>0, <1>1, <1>2, <1>3, <1>8, <1>9, <1>11, OtherDevice DEF LockInv
<1>12. Waiting' BY <1>1, <1>3, <1>8, <1>10 DEF LockInv, Waiting
<1>13. thread[t].depth > 1 => ~ last BY <1>1, <1>5
<1> QED BY <1>0, <1>3, <1>8, <1>10, <1>11, <1>12, <1>13

\* A server or client thread's call.
LEMMA UseLocks ==
  ASSUME LockInv, NEW t \in Servers \cup Clients, UseDevice(t)
  PROVE  LockInv'
<1>0. t \in Threads /\ t # Manager BY ConstantsAssumption DEF Threads
<1>1. TypeInv' BY UseTypes DEF LockInv
<1>2. /\ \A e \in Devices : HolderKnown(e)'
      /\ Waiting' /\ \A u \in Threads \ {t} : thread'[u] = thread[u]
      /\ loaded' = loaded
  <2>1. ASSUME NEW d \in Uses[t], RequestLock(t, d)
        PROVE  /\ \A e \in Devices : HolderKnown(e)'
               /\ Waiting' /\ \A u \in Threads \ {t} : thread'[u] = thread[u]
               /\ loaded' = loaded
    <3>1. d \in Devices BY ConstantsAssumption
    <3> QED BY <1>0, <2>1, <3>1, RequestLockHolders DEF RequestLock
  <2>2. CASE RequestUnlock(t) BY <1>0, <2>2, RequestUnlockHolders DEF RequestUnlock
  <2> QED BY <2>1, <2>2 DEF UseDevice
<1>3. UnloadHasLock' BY <1>0, <1>2, ManagerIsThread, UnloadElsewhere DEF LockInv, UseDevice
<1> QED BY <1>1, <1>2, <1>3 DEF LockInv

----------------------------------------------------------------------------
(* AutoUnlock and the control thread keep LockInv.                          *)

\* No thread moves.
LEMMA ThreadsStay ==
  ASSUME thread' = thread
  PROVE  \A u \in Threads, e \in Devices : (Holds(u, e)' <=> Holds(u, e)) /\ Count(u)' = Count(u)
BY DEF Holds, Count

LEMMA TimerLocks ==
  ASSUME LockInv, TimerStep
  PROVE  LockInv'
<1> USE DEF TimerFrame
<1>1. TypeInv' BY TimerTypes DEF LockInv
<1>2. thread' = thread /\ unload' = unload /\ loaded' = loaded
  BY DEF TimerStep, AutoUnlock, CheckDevice, UpdateLockInfoStatus, RescheduleUnlock
<1>3. UnloadHasLock' BY <1>2, UnloadElsewhere DEF LockInv
<1>4. /\ lock \in [Devices -> LockRecords] /\ \A e \in Devices : HolderKnown(e)
      /\ timer \in [pc : {"idle", "scan", "update"}, todo : SUBSET Devices,
                    device : Devices \cup {NoDevice}, must : SUBSET Nat]
      /\ timer.pc # "update" => timer.device = NoDevice
      /\ timer.pc = "update" => timer.device \in Devices
      /\ NoDevice \notin Devices
  BY ConstantsAssumption
  DEF LockInv, TypeInv, TypeOK, LockTypes, ServiceTypes, AtDevice, Waiting
<1>5. \A e \in Devices : lock[e] \in LockRecords /\ lock[e].dwThreadId \in Threads \cup {NoThread}
  BY <1>4 DEF LockRecords
<1>6. (timer'.pc # "update" => timer'.device = NoDevice) => Waiting'
  BY <1>2 DEF LockInv, Waiting
<1>7. ASSUME lock' = lock, timer'.device = NoDevice, timer.pc # "update"
      PROVE  LockInv'
  <2>1. ASSUME NEW e \in Devices PROVE HolderKnown(e)'
    BY <1>2, <1>4, <1>5, <1>7, SameHolder, ThreadsStay
  <2> QED BY <1>1, <1>3, <1>6, <1>7, <2>1 DEF LockInv
<1>8. CASE AutoUnlock BY <1>7, <1>8 DEF AutoUnlock
<1>9. CASE RescheduleUnlock BY <1>7, <1>9 DEF RescheduleUnlock, NoScan
<1>10. ASSUME NEW d \in Devices, CheckDevice(d) PROVE LockInv'
  <2>1. timer.pc = "scan" /\ timer.device = NoDevice BY <1>4, <1>10 DEF CheckDevice
  <2>2. lock' = [lock EXCEPT ![d].hDeviceIsFree = FALSE] BY <1>10 DEF CheckDevice
  <2>3. /\ timer'.pc = IF lock[d].hDeviceIsFree THEN "update" ELSE "scan"
        /\ timer'.device = IF lock[d].hDeviceIsFree THEN d ELSE NoDevice
    BY <1>4, <1>10 DEF CheckDevice, Free
  <2>4. /\ lock'[d].dwThreadId = lock[d].dwThreadId /\ lock'[d].lInUse = lock[d].lInUse
        /\ lock'[d].hDeviceIsFree = FALSE
        /\ \A e \in Devices \ {d} : lock'[e] = lock[e]
    BY <1>4, <1>5, <2>2 DEF LockRecords
  <2>5. ASSUME NEW e \in Devices, e # d PROVE HolderKnown(e)'
    BY <1>2, <1>4, <1>5, <2>1, <2>3, <2>4, <2>5, SameHolder, ThreadsStay
  <2>6. HolderKnown(d)'
    <3>1. CASE lock[d].hDeviceIsFree
      <4>1. lock[d].dwThreadId = NoThread /\ lock[d].lInUse = 0 /\ \A u \in Threads : ~ Holds(u, d)
        BY <1>4, <1>5, <3>1, FreeIsUnused
      <4> QED BY <1>2, <2>3, <2>4, <3>1, <4>1, ThreadsStay DEF HolderKnown
    <3>2. CASE ~ lock[d].hDeviceIsFree
      <4>1. lock'[d].hDeviceIsFree = lock[d].hDeviceIsFree BY <1>5, <2>4, <3>2 DEF LockRecords
      <4> QED BY <1>2, <1>4, <1>5, <2>1, <2>3, <2>4, <3>2, <4>1, SameHolder, ThreadsStay
    <3> QED BY <3>1, <3>2
  <2>7. Waiting' BY <1>6, <2>3
  <2> QED BY <1>1, <1>3, <2>5, <2>6, <2>7 DEF LockInv
<1>11. CASE UpdateLockInfoStatus
  <2>1. PICK d \in Devices : d = timer.device BY <1>4, <1>11 DEF UpdateLockInfoStatus
  <2> DEFINE before == [lock[d] EXCEPT !.lTimeLeft = IF lock[d].bDeviceIsLocked THEN TimeLeft(d) ELSE @]
  <2>2. PICK closes :
           lock' = [lock EXCEPT ![d] =
             IF closes THEN ClearLockInfo([before EXCEPT !.bDeviceIsLocked = FALSE])
             ELSE [before EXCEPT !.hDeviceIsFree = TRUE]]
    BY <1>11, <2>1 DEF UpdateLockInfoStatus
  <2>3. lock[d].dwThreadId = NoThread /\ lock[d].lInUse = 0 BY <1>4, <2>1 DEF HolderKnown
  <2>4. before.dwThreadId = NoThread /\ before.lInUse = 0
        /\ DOMAIN before = {"hDeviceIsFree", "bDeviceIsLocked", "lInUse",
                            "dwThreadId", "lHoldingTime", "lTimeLeft"}
    BY <1>5, <2>3 DEF LockRecords
  <2>5. lock'[d].dwThreadId = NoThread /\ lock'[d].lInUse = 0 /\ lock'[d].hDeviceIsFree
    <3> HIDE DEF before
    <3>1. CASE closes
      <4>1. lock'[d] = ClearLockInfo([before EXCEPT !.bDeviceIsLocked = FALSE])
        BY <1>4, <2>2, <3>1
      <4> QED BY <2>4, <4>1 DEF ClearLockInfo
    <3>2. CASE ~ closes
      <4>1. lock'[d] = [before EXCEPT !.hDeviceIsFree = TRUE] BY <1>4, <2>2, <3>2
      <4> QED BY <2>4, <4>1
    <3> QED BY <3>1, <3>2
  <2>6. \A e \in Devices \ {d} : lock'[e] = lock[e] BY <1>4, <2>2
  <2>7. timer'.device = NoDevice BY <1>4, <1>11 DEF UpdateLockInfoStatus
  <2>8. ASSUME NEW e \in Devices, e # d PROVE HolderKnown(e)'
    BY <1>2, <1>4, <1>5, <2>1, <2>6, <2>7, <2>8, SameHolder, ThreadsStay
  <2>9. ASSUME NEW u \in Threads PROVE ~ Holds(u, d)
    BY <1>4, <2>3, ConstantsAssumption DEF HolderKnown
  <2>10. HolderKnown(d)' BY <1>2, <1>4, <2>5, <2>7, <2>9, ThreadsStay DEF HolderKnown
  <2>11. Waiting' BY <1>6, <2>7
  <2> QED BY <1>1, <1>3, <2>8, <2>10, <2>11 DEF LockInv
<1> QED BY <1>8, <1>9, <1>10, <1>11 DEF TimerStep

LEMMA ManagerLocks ==
  ASSUME LockInv, ManagerStep
  PROVE  LockInv'
<1> USE ManagerIsThread DEF UnloadAt, UnloadGoesTo
<1> DEFINE m == thread[Manager]
           after == thread'[Manager]
<1>1. TypeInv' BY ManagerTypes DEF LockInv
<1>2. /\ lock \in [Devices -> LockRecords] /\ \A e \in Devices : HolderKnown(e)
      /\ thread \in [Threads -> [pc : CallPcs, device : Devices \cup {NoDevice}, depth : Nat]]
      /\ unload \in [pc : {"none", "lock", "items", "item", "unload", "clear"},
                     device : Devices \cup {NoDevice}, locked : BOOLEAN]
      /\ loaded \in [Devices -> BOOLEAN]
      /\ unload.pc # "none" => unload.device \in Devices
      /\ NoDevice \notin Devices
  BY ConstantsAssumption
  DEF LockInv, TypeInv, TypeOK, LockTypes, ThreadTypes, ServiceTypes, AtDevice
<1>3. \A e \in Devices : lock[e] \in LockRecords /\ lock[e].dwThreadId \in Threads \cup {NoThread}
  BY <1>2 DEF LockRecords
<1>4. ASSUME thread' = thread, timer' = timer, UnloadHasLock',
             \A e \in Devices : /\ lock'[e].hDeviceIsFree = lock[e].hDeviceIsFree
                                /\ lock'[e].dwThreadId = lock[e].dwThreadId
                                /\ lock'[e].lInUse = lock[e].lInUse
      PROVE  LockInv'
  <2>1. ASSUME NEW e \in Devices PROVE HolderKnown(e)'
    BY <1>2, <1>3, <1>4, SameHolder, ThreadsStay
  <2>2. Waiting' BY <1>4 DEF LockInv, Waiting
  <2> QED BY <1>1, <1>4, <2>1, <2>2 DEF LockInv
<1>5. ASSUME NEW d \in Devices, UnLoadDriver(d) PROVE LockInv'
  <2>1. RequestLock(Manager, d) /\ loaded[d] /\ loaded' = loaded
    BY <1>5 DEF UnLoadDriver, RequestLock
  <2>2. m.depth = 0 BY <1>5 DEF LockInv, UnloadHasLock, UnLoadDriver
  <2>3. /\ \A e \in Devices : HolderKnown(e)'
        /\ Waiting' /\ after.device = d /\ after.pc = "wait" /\ after.depth = 0
    BY <2>1, <2>2, RequestLockHolders
  <2>4. unload'.pc = "lock" /\ unload'.device = d BY <1>5 DEF UnLoadDriver
  <2>5. UnloadHasLock' BY <2>1, <2>3, <2>4 DEF UnloadHasLock
  <2> QED BY <1>1, <2>3, <2>5 DEF LockInv
<1>6. CASE UnloadLocked
  <2>1. m.pc = "run" /\ m.depth = 1 /\ m.device = unload.device /\ loaded[unload.device]
    BY <1>6 DEF UnloadLocked, LockInv, UnloadHasLock, Calls
  <2>2. unload'.pc = "items" /\ unload'.device = unload.device /\ unload'.locked
    BY <1>2, <1>6, <2>1 DEF UnloadLocked
  <2>3. UnloadHasLock' BY <1>6, <2>1, <2>2 DEF UnloadLocked, UnloadHasLock
  <2> QED BY <1>4, <1>6, <2>3 DEF UnloadLocked
<1>7. CASE UninitializeItem
  <2>1. PICK d \in Devices : d = unload.device BY <1>2, <1>7 DEF UninitializeItem
  <2>2. RequestLock(Manager, d) /\ loaded' = loaded BY <1>7, <2>1 DEF UninitializeItem, RequestLock
  <2>3. m.depth = 1 /\ unload.locked /\ loaded[d]
    BY <1>7, <2>1 DEF LockInv, UnloadHasLock, UninitializeItem
  <2>4. /\ \A e \in Devices : HolderKnown(e)'
        /\ Waiting' /\ after.device = d /\ after.pc = "run" /\ after.depth = 2
    BY <2>2, <2>3, RequestLockHolders
  <2>5. unload'.pc = "item" /\ unload'.device = d /\ unload'.locked
    BY <1>2, <1>7, <2>1, <2>3 DEF UninitializeItem
  <2>6. UnloadHasLock' BY <2>2, <2>3, <2>4, <2>5 DEF UnloadHasLock
  <2> QED BY <1>1, <2>4, <2>6 DEF LockInv
<1>8. CASE ItemUninitialized
  <2>1. m.depth = 2 /\ unload.locked /\ m.device = unload.device /\ loaded[unload.device]
    BY <1>8 DEF LockInv, UnloadHasLock, ItemUninitialized
  <2>2. ItemIsLocked BY <2>1 DEF ItemIsLocked
  <2>3. RequestUnlock(Manager) /\ loaded' = loaded
    BY <1>8, <2>2 DEF ItemUninitialized, RequestUnlock
  <2>4. /\ \A e \in Devices : HolderKnown(e)'
        /\ Waiting' /\ after.device = unload.device /\ after.pc = "sched" /\ after.depth = 1
    BY <2>1, <2>3, RequestUnlockHolders
  <2>5. unload'.pc = "items" /\ unload'.device = unload.device /\ unload'.locked
    BY <1>2, <1>8, <2>1 DEF ItemUninitialized
  <2>6. UnloadHasLock' BY <2>1, <2>3, <2>4, <2>5 DEF UnloadHasLock
  <2> QED BY <1>1, <2>4, <2>6 DEF LockInv
<1>9. CASE UnloadUnlocks
  <2>1. m.pc = "run" /\ m.depth = 1 /\ m.device = unload.device /\ unload.locked /\ loaded[unload.device]
    BY <1>9 DEF LockInv, UnloadHasLock, UnloadUnlocks, Calls
  <2>2. PICK closes : lock' = [lock EXCEPT ![unload.device].bDeviceIsLocked = ~ closes]
    BY <1>9, <2>1 DEF UnloadUnlocks
  <2>3. unload'.pc = "unload" /\ unload'.device = unload.device /\ unload'.locked
        /\ thread' = thread /\ timer' = timer /\ loaded' = loaded
    BY <1>2, <1>9, <2>1 DEF UnloadUnlocks
  <2>4. \A e \in Devices : /\ lock'[e].hDeviceIsFree = lock[e].hDeviceIsFree
                           /\ lock'[e].dwThreadId = lock[e].dwThreadId
                           /\ lock'[e].lInUse = lock[e].lInUse
    BY <1>2, <1>3, <2>2 DEF LockRecords
  <2>5. UnloadHasLock' BY <2>1, <2>3 DEF UnloadHasLock
  <2> QED BY <1>4, <2>3, <2>4, <2>5
<1>10. CASE DriverUnloaded
  <2>1. m.pc = "run" /\ m.depth = 1 /\ m.device = unload.device /\ unload.locked
    BY <1>10 DEF LockInv, UnloadHasLock, DriverUnloaded, Calls
  <2>2. unload'.pc = "clear" /\ unload'.device = unload.device /\ unload'.locked
        /\ thread' = thread /\ timer' = timer /\ lock' = lock
    BY <1>2, <1>10, <2>1 DEF DriverUnloaded
  <2>3. UnloadHasLock' BY <2>1, <2>2 DEF UnloadHasLock
  <2> QED BY <1>4, <2>2, <2>3
<1>11. CASE UnloadClears
  <2>1. PICK d \in Devices : d = unload.device BY <1>2, <1>11 DEF UnloadClears
  <2>2. m.pc = "run" /\ m.depth = 1 /\ m.device = d
    BY <1>11, <2>1 DEF LockInv, UnloadHasLock, UnloadClears, Calls
  <2>3. Holds(Manager, d) BY <2>2 DEF Holds
  <2>4. lock[d].dwThreadId = Manager BY <1>2, <2>3 DEF HolderKnown
  <2>5. lock'[d] = ClearLockInfo(lock[d]) /\ \A e \in Devices \ {d} : lock'[e] = lock[e]
    BY <1>2, <1>11, <2>1 DEF UnloadClears
  <2>6. lock'[d].dwThreadId = NoThread /\ lock'[d].hDeviceIsFree /\ lock'[d].lInUse = 0
    BY <1>3, <2>5 DEF ClearLockInfo, LockRecords
  <2>7. /\ after.pc = "run" /\ after.depth = 0 /\ after.device = NoDevice
        /\ \A u \in Threads \ {Manager} : thread'[u] = thread[u]
        /\ timer' = timer /\ unload'.pc = "none"
    BY <1>2, <1>11 DEF UnloadClears, Idle, NoUnload
  <2>8. ~ Holds(Manager, d)' BY <2>7 DEF Holds
  <2>9. HolderKnown(d)' BY <1>2, <2>4, <2>6, <2>7, <2>8, ThisDevice
  <2>10. ASSUME NEW e \in Devices, e # d PROVE HolderKnown(e)'
    BY <1>2, <1>3, <2>2, <2>5, <2>7, <2>10, OtherDevice
  <2>11. Waiting' BY <2>7 DEF LockInv, Waiting
  <2>12. UnloadHasLock' BY <2>7 DEF UnloadHasLock
  <2> QED BY <1>1, <2>9, <2>10, <2>11, <2>12 DEF LockInv
<1>12. ASSUME NEW d \in Devices, LoadDriver(d) PROVE LockInv'
  <2>1. unload.pc = "none" /\ unload' = unload /\ thread' = thread /\ timer' = timer /\ lock' = lock
    BY <1>12 DEF LoadDriver
  <2>2. UnloadHasLock' BY <2>1 DEF LockInv, UnloadHasLock
  <2> QED BY <1>4, <2>1, <2>2
<1> QED
  BY <1>5, <1>6, <1>7, <1>8, <1>9, <1>10, <1>11, <1>12 DEF ManagerStep, UnloadStep

LEMMA LockStep == UnloadNotRefused /\ LockInv /\ [Next]_vars => LockInv'
<1> SUFFICES ASSUME UnloadNotRefused, LockInv, [Next]_vars PROVE LockInv' OBVIOUS
<1>1. CASE UNCHANGED vars
  <2>1. TypeInv' BY TypeStep DEF LockInv
  <2> QED BY <1>1, <2>1 DEF vars, schedVars, LockInv, Waiting, UnloadHasLock, HolderKnown, Holds, Count
<1>2. CASE Next BY <1>2, CallLocks, UseLocks, TimerLocks, ManagerLocks DEF Next
<1> QED BY <1>1, <1>2

LEMMA OwnersAreExact == LockInv => OwnerExact
<1> SUFFICES ASSUME LockInv, NEW d \in Devices
             PROVE  /\ \A t \in Threads : lock[d].dwThreadId = t <=> Holds(t, d)
                    /\ \A t \in Threads : Holds(t, d) =>
                         lock[d].lInUse = thread[t].depth + (IF thread[t].pc = "lock" THEN 1 ELSE 0)
                    /\ Holders(d) = {} => lock[d].hDeviceIsFree /\ lock[d].lInUse = 0
  BY DEF OwnerExact
<1>1. HolderKnown(d) /\ NoThread \notin Threads BY ConstantsAssumption DEF LockInv
<1>2. lock[d].dwThreadId \in Threads \cup {NoThread}
  BY DEF LockInv, TypeInv, TypeOK, LockTypes, LockRecords
<1>3. \A t \in Threads : lock[d].dwThreadId = t <=> Holds(t, d) BY <1>1 DEF HolderKnown
<1>4. \A t \in Threads : Holds(t, d) =>
        lock[d].lInUse = thread[t].depth + (IF thread[t].pc = "lock" THEN 1 ELSE 0)
  BY <1>1 DEF HolderKnown, Count
<1>5. Holders(d) = {} => lock[d].dwThreadId = NoThread /\ timer.device # d
  BY <1>2, <1>3 DEF Holders
<1> QED BY <1>1, <1>3, <1>4, <1>5 DEF HolderKnown

\* LockInfo always says who has the device and how often, unless a driver
\* refuses UnLoadDriver its lock (lockmgr.cpp 411).
THEOREM OwnersKnown ==
  ASSUME UnloadNotRefused
  PROVE  Spec => []OwnerExact
BY InitLocks, LockStep, OwnersAreExact, PTL DEF Spec

----------------------------------------------------------------------------
(* The refinement of DeviceMutex.                                           *)

\* Who has device d, read from its LockInfo; NoThread if nobody has.
User(d) == IF timer.device = d THEN Timer ELSE lock[d].dwThreadId

LEMMA HoldersAreUser ==
  ASSUME NEW d \in Devices, HolderKnown(d), lock[d].dwThreadId \in Threads \cup {NoThread}
  PROVE  Holders(d) = {User(d)} \ {NoThread}
<1>1. NoThread \notin Threads /\ Timer # NoThread BY ConstantsAssumption
<1>2. CASE timer.device = d
  <2>1. \A t \in Threads : ~ Holds(t, d) BY <1>1, <1>2 DEF HolderKnown
  <2> QED BY <1>1, <1>2, <2>1 DEF Holders, User
<1>3. CASE timer.device # d
  <2>1. \A t \in Threads : Holds(t, d) <=> lock[d].dwThreadId = t BY <1>1 DEF HolderKnown
  <2> QED BY <1>1, <1>3, <2>1 DEF Holders, User
<1> QED BY <1>2, <1>3

\* A step changes the user of at most one device, and only from or to nobody.
UserStep ==
  \E d \in Devices :
    /\ \A e \in Devices \ {d} : User(e)' = User(e)
    /\ User(d)' = User(d) \/ User(d) = NoThread \/ User(d)' = NoThread

LEMMA StepChangesUser ==
  ASSUME LockInv, UnloadNotRefused, Next, Devices # {}
  PROVE  UserStep
<1>1. /\ lock \in [Devices -> LockRecords] /\ \A e \in Devices : HolderKnown(e)
      /\ NoDevice \notin Devices
  BY ConstantsAssumption DEF LockInv, TypeInv, TypeOK, LockTypes
<1>2. \A e \in Devices : lock[e] \in LockRecords /\ lock[e].dwThreadId \in Threads \cup {NoThread}
  BY <1>1 DEF LockRecords
<1>3. ASSUME timer'.device = timer.device, NEW d \in Devices,
             \A e \in Devices \ {d} : lock'[e].dwThreadId = lock[e].dwThreadId,
             \/ lock'[d].dwThreadId = lock[d].dwThreadId
             \/ lock[d].dwThreadId = NoThread /\ timer.device # d
             \/ lock'[d].dwThreadId = NoThread
      PROVE  UserStep
  <2>1. \A e \in Devices \ {d} : User(e)' = User(e) BY <1>3 DEF User
  <2>2. User(d)' = User(d) \/ User(d) = NoThread \/ User(d)' = NoThread BY <1>3 DEF User
  <2> QED BY <2>1, <2>2 DEF UserStep
<1>4. ASSUME NEW d \in Devices, NEW t \in Threads, RequestLock(t, d) PROVE UserStep
  <2>1. lock' = lock \/ lock' = [lock EXCEPT ![d] = LockedAgain(lock[d])]
    BY <1>4 DEF RequestLock
  <2>2. LockedAgain(lock[d]).dwThreadId = lock[d].dwThreadId
    BY <1>2 DEF LockedAgain, LockRecords
  <2>3. \A e \in Devices : lock'[e].dwThreadId = lock[e].dwThreadId BY <1>1, <2>1, <2>2
  <2> QED BY <1>3, <1>4, <2>3 DEF RequestLock
<1>5. ASSUME NEW t \in Threads, RequestUnlock(t) PROVE UserStep
  <2>1. PICK d \in Devices : d = thread[t].device
    BY <1>5 DEF LockInv, TypeInv, AtDevice, RequestUnlock
  <2>2. PICK closes :
        lock' = [lock EXCEPT ![d] =
                  IF ~ (lock[d].lInUse <= 1) THEN UnlockedOnce(lock[d])
                  ELSE IF ~ (lock[d].lInUse <= 1 /\ lock[d].lHoldingTime = 0 /\ bInServerProcess(t))
                  THEN ClearLockInfo(UnlockedOnce(lock[d]))
                  ELSE ClearLockInfo([UnlockedOnce(lock[d]) EXCEPT !.bDeviceIsLocked = ~ closes])]
    BY <1>5, <2>1 DEF RequestUnlock
  <2>3. UnlockedOnce(lock[d]) \in LockRecords BY <1>2, ManagerIsThread, RecordTypes
  <2>4. \A e \in Devices \ {d} : lock'[e] = lock[e] BY <1>1, <2>2
  <2>5. \/ lock'[d] = UnlockedOnce(lock[d])
        \/ lock'[d] = ClearLockInfo(UnlockedOnce(lock[d]))
        \/ lock'[d] = ClearLockInfo([UnlockedOnce(lock[d]) EXCEPT !.bDeviceIsLocked = ~ closes])
    BY <1>1, <2>2
  <2>6. lock'[d].dwThreadId = lock[d].dwThreadId \/ lock'[d].dwThreadId = NoThread
    <3>1. UnlockedOnce(lock[d]).dwThreadId = lock[d].dwThreadId
      BY <1>2 DEF UnlockedOnce, LockRecords
    <3>2. ClearLockInfo(UnlockedOnce(lock[d])).dwThreadId = NoThread
      BY <2>3 DEF ClearLockInfo, LockRecords
    <3>3. ClearLockInfo([UnlockedOnce(lock[d]) EXCEPT !.bDeviceIsLocked = ~ closes]).dwThreadId = NoThread
      BY <2>3 DEF ClearLockInfo, LockRecords
    <3> QED BY <2>5, <3>1, <3>2, <3>3
  <2> QED BY <1>3, <1>5, <2>4, <2>6 DEF RequestUnlock
<1>6. ASSUME NEW t \in Threads, CallStep(t) PROVE UserStep
  <2>1. PICK d \in Devices : d = thread[t].device BY <1>6, CallCommon
  <2>2. timer' = timer /\ \A e \in Devices \ {d} : lock'[e] = lock[e] BY <1>6, <2>1, CallCommon
  <2>3. CASE Granted(t)
    <3>1. lock[d].hDeviceIsFree BY <2>1, <2>3 DEF Granted
    <3>2. lock[d].dwThreadId = NoThread /\ timer.device # d BY <1>1, <1>2, <3>1, FreeIsUnused
    <3> QED BY <1>3, <2>2, <3>2
  <2>4. CASE Offline(t) \/ LockDeviceFails(t)
    <3>1. lock'[d] = ClearLockInfo(lock[d]) BY <1>1, <2>1, <2>4 DEF Offline, LockDeviceFails
    <3>2. lock'[d].dwThreadId = NoThread BY <1>2, <3>1 DEF ClearLockInfo, LockRecords
    <3> QED BY <1>3, <2>2, <3>2
  <2>5. CASE LockDevice(t)
    <3>1. lock'[d] = [lock[d] EXCEPT !.bDeviceIsLocked = TRUE] BY <1>1, <2>1, <2>5 DEF LockDevice
    <3>2. lock'[d].dwThreadId = lock[d].dwThreadId BY <1>2, <3>1 DEF LockRecords
    <3> QED BY <1>3, <2>2, <3>2
  <2>6. CASE UnlockedForClient(t)
    <3>1. lock'[d] = [lock[d] EXCEPT !.bDeviceIsLocked = FALSE]
      BY <1>1, <2>1, <2>6 DEF UnlockedForClient
    <3>2. lock'[d].dwThreadId = lock[d].dwThreadId BY <1>2, <3>1 DEF LockRecords
    <3> QED BY <1>3, <2>2, <3>2
  <2>7. CASE lock' = lock BY <1>3, <2>2, <2>7
  <2> QED BY <1>6, <2>3, <2>4, <2>5, <2>6, <2>7 DEF CallStep, Busy, ScheduleUnlock, UnlockScheduled
<1>7. ASSUME NEW t \in Servers \cup Clients, UseDevice(t) PROVE UserStep
  <2>1. t \in Threads /\ Uses[t] \subseteq Devices BY ConstantsAssumption DEF Threads
  <2> QED BY <1>4, <1>5, <1>7, <2>1 DEF UseDevice
<1>8. CASE TimerStep
  <2>0. /\ timer.pc # "update" => timer.device = NoDevice
        /\ timer \in [pc : {"idle", "scan", "update"}, todo : SUBSET Devices,
                      device : Devices \cup {NoDevice}, must : SUBSET Nat]
    BY DEF LockInv, Waiting, TypeInv, TypeOK, ServiceTypes
  <2>1. CASE AutoUnlock \/ RescheduleUnlock
    <3>1. lock' = lock /\ timer'.device = timer.device
      BY <2>0, <2>1 DEF AutoUnlock, RescheduleUnlock, NoScan
    <3>2. PICK d \in Devices : TRUE OBVIOUS
    <3> QED BY <1>3, <3>1
  <2>2. ASSUME NEW d \in Devices, CheckDevice(d) PROVE UserStep
    <3>1. timer.device = NoDevice BY <2>0, <2>2 DEF CheckDevice
    <3>2. timer'.device = IF lock[d].hDeviceIsFree THEN d ELSE NoDevice
      BY <2>0, <2>2 DEF CheckDevice, Free
    <3>3. \A e \in Devices : lock'[e].dwThreadId = lock[e].dwThreadId
      BY <1>1, <1>2, <2>2 DEF CheckDevice, LockRecords
    <3>4. \A e \in Devices \ {d} : User(e)' = User(e) BY <1>1, <3>1, <3>2, <3>3 DEF User
    <3>5. User(d)' = User(d) \/ User(d) = NoThread
      <4>1. CASE lock[d].hDeviceIsFree
        <5>1. lock[d].dwThreadId = NoThread BY <1>1, <1>2, <4>1, FreeIsUnused
        <5> QED BY <1>1, <3>1, <5>1 DEF User
      <4>2. CASE ~ lock[d].hDeviceIsFree BY <1>1, <3>1, <3>2, <3>3, <4>2 DEF User
      <4> QED BY <4>1, <4>2
    <3> QED BY <3>4, <3>5 DEF UserStep
  <2>3. CASE UpdateLockInfoStatus
    <3>1. PICK d \in Devices : d = timer.device
      BY <2>3 DEF UpdateLockInfoStatus, LockInv, TypeInv, AtDevice
    <3>2. timer'.device = NoDevice BY <2>0, <2>3 DEF UpdateLockInfoStatus
    <3>3. \A e \in Devices \ {d} : lock'[e] = lock[e]
      BY <1>1, <2>3, <3>1 DEF UpdateLockInfoStatus
    <3>4. \A e \in Devices \ {d} : User(e)' = User(e) BY <1>1, <3>1, <3>2, <3>3 DEF User
    <3>5. LockInv' BY <1>8, TimerLocks
    <3>6. lock'[d].dwThreadId = NoThread
      <4> DEFINE before == [lock[d] EXCEPT !.lTimeLeft =
                              IF lock[d].bDeviceIsLocked THEN TimeLeft(d) ELSE @]
      <4>1. lock[d].dwThreadId = NoThread BY <1>1, <3>1 DEF HolderKnown
      <4>2. before.dwThreadId = NoThread
            /\ DOMAIN before = {"hDeviceIsFree", "bDeviceIsLocked", "lInUse",
                                "dwThreadId", "lHoldingTime", "lTimeLeft"}
        BY <1>2, <4>1 DEF LockRecords
      <4>3. \/ lock'[d] = ClearLockInfo([before EXCEPT !.bDeviceIsLocked = FALSE])
            \/ lock'[d] = [before EXCEPT !.hDeviceIsFree = TRUE]
        BY <1>1, <2>3, <3>1 DEF UpdateLockInfoStatus
      <4> HIDE DEF before
      <4> QED BY <4>2, <4>3 DEF ClearLockInfo
    <3>7. User(d)' = NoThread BY <1>1, <3>2, <3>6 DEF User
    <3> QED BY <3>4, <3>7 DEF UserStep
  <2> QED BY <1>8, <2>1, <2>2, <2>3 DEF TimerStep
<1>9. CASE ManagerStep
  <2> USE ManagerIsThread DEF UnloadAt
  <2>0. unload.pc # "none" => unload.device \in Devices BY DEF LockInv, TypeInv, AtDevice
  <2>1. ASSUME NEW d \in Devices, UnLoadDriver(d) PROVE UserStep BY <1>4, <2>1 DEF UnLoadDriver
  <2>2. CASE UninitializeItem BY <1>4, <2>0, <2>2 DEF UninitializeItem
  <2>3. CASE ItemUninitialized
    <3>1. CASE ItemIsLocked BY <1>5, <2>3, <3>1 DEF ItemUninitialized
    <3>2. CASE ~ ItemIsLocked BY <1>3, <2>0, <2>3, <3>2 DEF ItemUninitialized
    <3> QED BY <3>1, <3>2
  <2>4. CASE UnloadUnlocks
    <3>1. PICK value : lock' = [lock EXCEPT ![unload.device].bDeviceIsLocked = value]
      BY <2>4 DEF UnloadUnlocks
    <3>2. \A e \in Devices : lock'[e].dwThreadId = lock[e].dwThreadId
      BY <1>1, <1>2, <3>1 DEF LockRecords
    <3> QED BY <1>3, <2>0, <2>4, <3>2 DEF UnloadUnlocks
  <2>5. CASE UnloadClears
    <3>1. PICK d \in Devices : d = unload.device BY <2>0, <2>5 DEF UnloadClears
    <3>2. lock'[d] = ClearLockInfo(lock[d]) /\ \A e \in Devices \ {d} : lock'[e] = lock[e]
      BY <1>1, <2>5, <3>1 DEF UnloadClears
    <3>3. lock'[d].dwThreadId = NoThread BY <1>2, <3>2 DEF ClearLockInfo, LockRecords
    <3> QED BY <1>3, <2>5, <3>2, <3>3 DEF UnloadClears
  <2>6. CASE UnloadLocked \/ DriverUnloaded
    BY <1>3, <2>0, <2>6 DEF UnloadLocked, DriverUnloaded
  <2>7. ASSUME NEW d \in Devices, LoadDriver(d) PROVE UserStep
    BY <1>3, <2>7 DEF LoadDriver
  <2> QED BY <1>9, <2>1, <2>2, <2>3, <2>4, <2>5, <2>6, <2>7 DEF ManagerStep, UnloadStep
<1> QED BY <1>6, <1>7, <1>8, <1>9 DEF Next

LEMMA StepTakesOrReleases ==
  ASSUME LockInv, LockInv', UnloadNotRefused, [Next]_vars
  PROVE  [DeviceMutex!Next]_[d \in Devices |-> Holders(d)]
<1> DEFINE holders == [d \in Devices |-> Holders(d)]
<1>1. \A d \in Devices : Holders(d) = {User(d)} \ {NoThread}
  BY HoldersAreUser DEF LockInv, TypeInv, TypeOK, LockTypes, LockRecords
<1>2. \A d \in Devices : Holders(d)' = {User(d)'} \ {NoThread}
  <2>1. ASSUME NEW d \in Devices, HolderKnown(d)', lock'[d].dwThreadId \in Threads \cup {NoThread}
        PROVE  Holders(d)' = {User(d)'} \ {NoThread}
    <3>1. NoThread \notin Threads /\ Timer # NoThread BY ConstantsAssumption
    <3>2. CASE timer'.device = d
      <4>1. \A t \in Threads : ~ Holds(t, d)' BY <2>1, <3>1, <3>2 DEF HolderKnown
      <4> QED BY <3>1, <3>2, <4>1 DEF Holders, User
    <3>3. CASE timer'.device # d
      <4>1. \A t \in Threads : Holds(t, d)' <=> lock'[d].dwThreadId = t
        BY <2>1, <3>1 DEF HolderKnown
      <4> QED BY <2>1, <3>1, <3>3, <4>1 DEF Holders, User
    <3> QED BY <3>2, <3>3
  <2>2. \A d \in Devices : HolderKnown(d)' /\ lock'[d].dwThreadId \in Threads \cup {NoThread}
    BY DEF LockInv, TypeInv, TypeOK, LockTypes, LockRecords
  <2> QED BY <2>1, <2>2
<1>3. CASE Devices = {} BY <1>3
<1>4. CASE UNCHANGED vars
  <2>1. \A d \in Devices : Holders(d)' = Holders(d)
    BY <1>4 DEF vars, Holders, Holds
  <2> QED BY <2>1
<1>5. CASE Next /\ Devices # {}
  <2>1. PICK d \in Devices :
          /\ \A e \in Devices \ {d} : User(e)' = User(e)
          /\ User(d)' = User(d) \/ User(d) = NoThread \/ User(d)' = NoThread
    BY <1>5, StepChangesUser DEF UserStep
  <2>2. \A e \in Devices \ {d} : Holders(e)' = Holders(e) BY <1>1, <1>2, <2>1
  <2>3. CASE User(d)' = User(d)
    <3>1. Holders(d)' = Holders(d) BY <1>1, <1>2, <2>3
    <3>2. \A e \in Devices : Holders(e)' = Holders(e) BY <2>2, <3>1
    <3> QED BY <3>2
  <2>4. CASE User(d)' # User(d) /\ User(d) = NoThread
    <3>1. Holders(d) = {} /\ Holders(d)' = {User(d)'} BY <1>1, <1>2, <2>4
    <3>2. User(d)' \in Threads \cup {Timer} BY <2>4
          DEF User, LockInv, TypeInv, TypeOK, LockTypes, LockRecords
    <3>3. holders' = [holders EXCEPT ![d] = {User(d)'}] BY <2>2, <3>1
    <3>4. DeviceMutex!Take(User(d)', d) BY <3>1, <3>3 DEF DeviceMutex!Take
    <3> QED BY <3>2, <3>4 DEF DeviceMutex!Next
  <2>5. CASE User(d)' # User(d) /\ User(d)' = NoThread
    <3>1. Holders(d) = {User(d)} /\ Holders(d)' = {} BY <1>1, <1>2, <2>5
    <3>2. User(d) \in Threads \cup {Timer} BY <2>5
          DEF User, LockInv, TypeInv, TypeOK, LockTypes, LockRecords
    <3>3. holders' = [holders EXCEPT ![d] = {}] BY <2>2, <3>1
    <3>4. DeviceMutex!Release(User(d), d) BY <3>1, <3>3 DEF DeviceMutex!Release
    <3> QED BY <3>2, <3>4 DEF DeviceMutex!Next
  <2> QED BY <2>1, <2>3, <2>4, <2>5
<1> QED BY <1>3, <1>4, <1>5

LEMMA InitMutex == Init => DeviceMutex!Init
<1> SUFFICES ASSUME Init PROVE DeviceMutex!Init OBVIOUS
<1>1. \A d \in Devices : Holders(d) = {}
  BY ConstantsAssumption DEF Init, Holders, Holds, Idle, NoScan
<1> QED BY <1>1 DEF DeviceMutex!Init

\* The lock manager implements DeviceMutex for any number of devices and threads:
\* a device has one user at a time, be it a thread of the service, a client, the
\* idle unlock or UnLoadDriver, unless a driver refuses UnLoadDriver its lock
\* (stidev.cpp 817).
THEOREM OneUserAtATime ==
  ASSUME UnloadNotRefused
  PROVE  Spec => OneHolder
<1>1. LockInv /\ LockInv' /\ [Next]_vars => [DeviceMutex!Next]_[d \in Devices |-> Holders(d)]
  BY StepTakesOrReleases
<1> QED BY <1>1, InitLocks, InitMutex, LockStep, PTL DEF Spec, OneHolder, DeviceMutex!Spec

LEMMA UnloadStepAlone ==
  ASSUME LockInv, [Next]_vars
  PROVE  [\A d \in Devices : loaded[d] /\ ~ loaded'[d] => Holders(d) \subseteq {Manager}]_vars
<1> SUFFICES ASSUME NEW d \in Devices, loaded[d], ~ loaded'[d]
             PROVE  Holders(d) \subseteq {Manager}
  OBVIOUS
<1>1. loaded \in [Devices -> BOOLEAN] BY DEF LockInv, TypeInv, TypeOK, ServiceTypes
<1>2. DriverUnloaded
  <2>1. loaded' # loaded OBVIOUS
  <2>2. Next BY <2>1 DEF vars
  <2>3. ASSUME NEW t \in Threads, CallStep(t) PROVE FALSE
    BY <2>1, <2>3
    DEF CallStep, Granted, Offline, Busy, LockDevice, LockDeviceFails, UnlockedForClient,
        ScheduleUnlock, UnlockScheduled, Frame
  <2>4. ASSUME NEW t \in Threads, RequestUnlock(t) PROVE FALSE BY <2>1, <2>4 DEF RequestUnlock
  <2>5. ASSUME NEW t \in Threads, NEW e, RequestLock(t, e) PROVE FALSE
    BY <2>1, <2>5 DEF RequestLock
  <2>6. ASSUME NEW t \in Servers \cup Clients, UseDevice(t) PROVE FALSE
    BY <2>4, <2>5, <2>6 DEF UseDevice, Threads
  <2>7. ASSUME TimerStep PROVE FALSE
    BY <2>1, <2>7
    DEF TimerStep, TimerFrame, AutoUnlock, CheckDevice, UpdateLockInfoStatus, RescheduleUnlock
  <2>8. ManagerStep BY <2>2, <2>3, <2>6, <2>7 DEF Next
  <2>9. ASSUME NEW e \in Devices, LoadDriver(e) PROVE FALSE BY <1>1, <2>9 DEF LoadDriver
  <2> QED
    BY <2>1, <2>4, <2>5, <2>8, <2>9, ManagerIsThread
    DEF ManagerStep, UnloadStep, UnLoadDriver, UnloadLocked, UninitializeItem,
        ItemUninitialized, UnloadUnlocks, UnloadClears
<1>3. unload.pc = "unload" /\ d = unload.device
  BY <1>1, <1>2 DEF DriverUnloaded, UnloadAt
<1>4. Holds(Manager, d)
  BY <1>3 DEF LockInv, UnloadHasLock, Holds
<1>5. HolderKnown(d) /\ Manager # NoThread /\ lock[d].dwThreadId \in Threads \cup {NoThread}
  BY ManagerIsThread, ConstantsAssumption DEF LockInv, TypeInv, TypeOK, LockTypes, LockRecords
<1>6. Holders(d) = {User(d)} \ {NoThread} BY <1>5, HoldersAreUser
<1>7. User(d) = Manager BY <1>4, <1>5, ManagerIsThread DEF HolderKnown, User
<1> QED BY <1>6, <1>7

\* A driver is unloaded only while UnLoadDriver alone has the device, unless the
\* driver refuses it the lock (stidev.cpp 814 to 821).
THEOREM DriversUnloadAlone ==
  ASSUME UnloadNotRefused
  PROVE  Spec => UnloadsAlone
<1>1. LockInv /\ [Next]_vars
        => [\A d \in Devices : loaded[d] /\ ~ loaded'[d] => Holders(d) \subseteq {Manager}]_vars
  BY UnloadStepAlone
<1> QED BY <1>1, InitLocks, LockStep, PTL DEF Spec, UnloadsAlone

----------------------------------------------------------------------------
(* A server thread finds its port open.  For a device that only the service *)
(* uses, bDeviceIsLocked says that the port is open, except for the time in  *)
(* which UnLoadDriver has closed it; clients, who clear the flag, are at     *)
(* other devices.                                                           *)

UnlockSucceeds == "UnlockDevice" \notin Failures

\* Threads of clients are at the devices they use.
ClientsAtTheirs == \A c \in Clients : thread[c].device \in Uses[c] \cup {NoDevice}

\* Only a client clears the flag after its unlock.
OnlyClientsLate == \A t \in Threads : thread[t].pc = "late" => t \in Clients

\* The flag of device d says that its port is open, it is set for a thread of the
\* service that has the device, and UnLoadDriver leaves it cleared.
FlagIsPort(d) ==
  /\ lock[d].bDeviceIsLocked => port[d]
  /\ \A t \in Servers : thread[t].device = d /\ thread[t].depth > 0 => lock[d].bDeviceIsLocked
  /\ unload.device = d /\ unload.pc \in {"unload", "clear"} => ~ lock[d].bDeviceIsLocked

PortInv == ClientsAtTheirs /\ OnlyClientsLate /\ \A d \in ServiceOnly : FlagIsPort(d)

\* The types the proofs below use.
LEMMA PortFacts ==
  ASSUME LockInv
  PROVE  /\ lock \in [Devices -> LockRecords] /\ port \in [Devices -> BOOLEAN]
         /\ \A d \in Devices : lock[d] \in LockRecords /\ HolderKnown(d)
         /\ thread \in [Threads -> [pc : CallPcs, device : Devices \cup {NoDevice}, depth : Nat]]
         /\ loaded \in [Devices -> BOOLEAN]
         /\ timer \in [pc : {"idle", "scan", "update"}, todo : SUBSET Devices,
                       device : Devices \cup {NoDevice}, must : SUBSET Nat]
         /\ unload \in [pc : {"none", "lock", "items", "item", "unload", "clear"},
                        device : Devices \cup {NoDevice}, locked : BOOLEAN]
         /\ Servers \subseteq Threads /\ Clients \subseteq Threads /\ Manager \in Threads
         /\ Manager \notin Servers \cup Clients /\ Servers \cap Clients = {}
         /\ NoDevice \notin Devices /\ ServiceOnly \subseteq Devices
<1>1. lock \in [Devices -> LockRecords] BY DEF LockInv, TypeInv, TypeOK, LockTypes
<1>2. \A d \in Devices : lock[d] \in LockRecords /\ HolderKnown(d) BY <1>1 DEF LockInv
<1> QED
  BY <1>1, <1>2, ConstantsAssumption, ManagerIsThread
  DEF LockInv, TypeInv, TypeOK, ThreadTypes, ServiceTypes, Threads, ServiceOnly

\* A device whose flag and port a step leaves alone.
LEMMA SameFlag ==
  ASSUME NEW d \in ServiceOnly, FlagIsPort(d),
         lock'[d].bDeviceIsLocked = lock[d].bDeviceIsLocked, port'[d] = port[d],
         \A t \in Servers : thread'[t].device = d /\ thread'[t].depth > 0 =>
                              thread[t].device = d /\ thread[t].depth > 0,
         unload'.device = d /\ unload'.pc \in {"unload", "clear"} =>
           unload.device = d /\ unload.pc \in {"unload", "clear"}
  PROVE  FlagIsPort(d)'
BY DEF FlagIsPort

\* While the port is closed by UnLoadDriver no other thread has the device.
LEMMA UnloadHasPort ==
  ASSUME LockInv, NEW d \in Devices, unload.device = d, unload.pc \in {"unload", "clear"},
         NEW t \in Threads, Holds(t, d)
  PROVE  t = Manager /\ thread[t].pc = "run" /\ thread[t].depth = 1
<1>1. thread[Manager].device = d /\ thread[Manager].pc = "run" /\ thread[Manager].depth = 1
  BY DEF LockInv, UnloadHasLock
<1>2. Holds(Manager, d) BY <1>1 DEF Holds
<1>3. lock[d].dwThreadId = Manager /\ lock[d].dwThreadId = t
  BY <1>2, ManagerIsThread DEF LockInv, HolderKnown
<1> QED BY <1>1, <1>3

\* At the start no device is locked and every thread is idle.
LEMMA InitPorts == Init => PortInv
<1> SUFFICES ASSUME Init PROVE PortInv OBVIOUS
<1>1. LockInv BY InitLocks
<1>2. \A t \in Threads : thread[t].pc = "run" /\ thread[t].device = NoDevice /\ thread[t].depth = 0
  BY DEF Init, Idle
<1>3. \A d \in Devices : ~ lock[d].bDeviceIsLocked BY DEF Init
<1>4. unload.pc = "none" BY DEF Init, NoUnload
<1> QED BY <1>1, <1>2, <1>3, <1>4, PortFacts DEF PortInv, ClientsAtTheirs, OnlyClientsLate, FlagIsPort

\* A call that was made keeps the flag right: LockDevice sets it with the port open.
LEMMA CallPorts ==
  ASSUME LockInv, PortInv, NEW t \in Threads, CallStep(t)
  PROVE  PortInv'
<1>1. PICK e \in Devices : e = thread[t].device BY CallCommon
<1>2. /\ thread[t].pc \in CallPcs \ {"run"} /\ thread[t].depth \in Nat
      /\ \A u \in Threads \ {t} : thread'[u] = thread[u]
      /\ thread'[t].device \in {e, NoDevice}
      /\ UNCHANGED <<loaded, timer, unload>>
      /\ \A d \in Devices \ {e} : lock'[d] = lock[d]
  BY <1>1, CallCommon
<1>3. /\ lock \in [Devices -> LockRecords] /\ port \in [Devices -> BOOLEAN]
      /\ lock[e] \in LockRecords /\ HolderKnown(e)
      /\ thread \in [Threads -> [pc : CallPcs, device : Devices \cup {NoDevice}, depth : Nat]]
      /\ Servers \subseteq Threads /\ Clients \subseteq Threads
      /\ NoDevice \notin Devices /\ ServiceOnly \subseteq Devices
  BY PortFacts
<1>4. thread[t].pc \in {"wait", "lock", "late"} => thread[t].depth = 0 BY DEF LockInv, Waiting
<1>5. \A d \in Devices \ {e} : port'[d] = port[d]
  BY <1>1, <1>3
  DEF CallStep, Granted, Offline, Busy, LockDevice, LockDeviceFails, UnlockedForClient,
      ScheduleUnlock, UnlockScheduled
<1>6. thread'[t].pc # "late"
  BY <1>3
  DEF CallStep, Granted, Offline, Busy, LockDevice, LockDeviceFails, UnlockedForClient,
      ScheduleUnlock, UnlockScheduled, Locked, Returns, GoTo
<1>7. ClientsAtTheirs' BY <1>1, <1>2, <1>3 DEF PortInv, ClientsAtTheirs
<1>8. OnlyClientsLate' BY <1>2, <1>6 DEF PortInv, OnlyClientsLate
<1>9. ASSUME NEW d \in ServiceOnly, d # e PROVE FlagIsPort(d)'
  <2>1. d # NoDevice BY <1>3
  <2> QED BY <1>2, <1>3, <1>5, <1>9, <2>1, SameFlag DEF PortInv
<1>10. ASSUME e \in ServiceOnly PROVE FlagIsPort(e)'
  <2>0. FlagIsPort(e) /\ t \notin Clients
    BY <1>1, <1>3, <1>10 DEF PortInv, ClientsAtTheirs, ServiceOnly
  <2>1. ASSUME lock'[e].bDeviceIsLocked = lock[e].bDeviceIsLocked, port'[e] = port[e],
               t \in Servers /\ thread'[t].depth > 0 => thread[t].depth > 0
        PROVE  FlagIsPort(e)'
    <3>1. ASSUME NEW u \in Servers, thread'[u].device = e, thread'[u].depth > 0
          PROVE  thread[u].device = e /\ thread[u].depth > 0
      BY <1>1, <1>2, <1>3, <2>1, <3>1
    <3> QED BY <1>2, <1>10, <2>0, <2>1, <3>1, SameFlag
  <2>2. CASE Granted(t)
    <3>1. thread[t].pc = "wait" BY <2>2 DEF Granted, Calls
    <3>2. bInServerProcess(t)
      <4>1. unload.pc \in {"none", "lock", "items", "item", "unload", "clear"} BY PortFacts
      <4>2. CASE t = Manager BY <3>1, <4>1, <4>2 DEF bInServerProcess, LockInv, UnloadHasLock
      <4> QED BY <2>0, <4>2 DEF bInServerProcess, Threads
    <3>3. lock' = [lock EXCEPT ![e] = TakenBy(lock[e], t, TRUE)] /\ port' = port
      BY <1>1, <2>2, <3>2 DEF Granted, bInServerProcess
    <3>4. lock'[e].bDeviceIsLocked = lock[e].bDeviceIsLocked
      BY <1>3, <3>3 DEF TakenBy, LockRecords
    <3>5. thread'[t].depth = thread[t].depth BY <1>3, <2>2, <3>2 DEF Granted, GoTo
    <3> QED BY <2>1, <3>3, <3>4, <3>5
  <2>3. CASE Offline(t) \/ LockDeviceFails(t)
    <3>1. lock' = [lock EXCEPT ![e] = ClearLockInfo(lock[e])] /\ port' = port
      BY <1>1, <2>3 DEF Offline, LockDeviceFails
    <3>2. lock'[e].bDeviceIsLocked = lock[e].bDeviceIsLocked
      BY <1>3, <3>1 DEF ClearLockInfo, LockRecords
    <3>3. thread'[t].depth = thread[t].depth BY <1>3, <2>3 DEF Offline, LockDeviceFails, Returns
    <3> QED BY <2>1, <3>1, <3>2, <3>3
  <2>4. CASE LockDevice(t)
    <3>1. thread[t].pc = "lock" BY <2>4 DEF LockDevice, Calls
    <3>2. /\ lock' = [lock EXCEPT ![e].bDeviceIsLocked = TRUE]
          /\ port' = [port EXCEPT ![e] = @ \/ ~ lock[e].bDeviceIsLocked]
      BY <1>1, <2>4 DEF LockDevice
    <3>3. lock'[e].bDeviceIsLocked = TRUE BY <1>3, <3>2 DEF LockRecords
    <3>4. port'[e] = (port[e] \/ ~ lock[e].bDeviceIsLocked) BY <1>3, <3>2
    <3>5. port'[e] BY <2>0, <3>4 DEF FlagIsPort
    <3>6. Holds(t, e) BY <1>1, <3>1 DEF Holds
    <3>7. ~ (unload'.device = e /\ unload'.pc \in {"unload", "clear"})
      BY <1>2, <3>1, <3>6, UnloadHasPort
    <3> QED BY <3>3, <3>5, <3>7 DEF FlagIsPort
  <2>5. CASE UnlockedForClient(t)
    BY <2>0, <2>5 DEF UnlockedForClient, Calls, PortInv, OnlyClientsLate
  <2>6. CASE Busy(t) \/ ScheduleUnlock(t) \/ UnlockScheduled(t)
    <3>1. lock' = lock /\ port' = port BY <2>6 DEF Busy, ScheduleUnlock, UnlockScheduled
    <3>2. thread'[t].depth = thread[t].depth
      BY <1>3, <2>6 DEF Busy, ScheduleUnlock, UnlockScheduled, Returns, GoTo
    <3> QED BY <2>1, <3>1, <3>2
  <2> QED BY <2>2, <2>3, <2>4, <2>5, <2>6 DEF CallStep
<1> QED BY <1>7, <1>8, <1>9, <1>10 DEF PortInv

\* Another lock of a thread that has one changes neither.
LEMMA RequestLockPorts ==
  ASSUME LockInv, PortInv, NEW t \in Threads, NEW e \in Devices, RequestLock(t, e),
         t \in Clients => e \in Uses[t],
         unload'.pc \in {"unload", "clear"} => unload' = unload
  PROVE  PortInv'
<1>3. /\ lock \in [Devices -> LockRecords] /\ lock[e] \in LockRecords /\ HolderKnown(e)
      /\ thread \in [Threads -> [pc : CallPcs, device : Devices \cup {NoDevice}, depth : Nat]]
      /\ Servers \subseteq Threads /\ Clients \subseteq Threads
      /\ NoDevice \notin Devices /\ ServiceOnly \subseteq Devices
  BY PortFacts
<1>4. /\ thread[t].pc = "run" /\ thread[t].device \in {e, NoDevice} /\ port' = port
      /\ thread[t].depth > 0 => thread[t].device = e
  BY <1>3 DEF RequestLock, Calls, LockInv, TypeInv, AtDevice
<1>5. /\ \A u \in Threads \ {t} : thread'[u] = thread[u]
      /\ thread'[t].device = e /\ thread'[t].pc # "late"
  <2>1. CASE lock[e].dwThreadId = t BY <1>3, <1>4, <2>1 DEF RequestLock
  <2>2. CASE lock[e].dwThreadId # t BY <1>3, <2>2 DEF RequestLock
  <2> QED BY <2>1, <2>2
<1>6. thread'[t].depth > 0 => thread[t].device = e /\ thread[t].depth > 0
  <2>1. CASE lock[e].dwThreadId = t
    <3>1. Holds(t, e) BY <1>3, <2>1, ConstantsAssumption DEF HolderKnown
    <3> QED BY <1>4, <3>1 DEF Holds
  <2>2. CASE lock[e].dwThreadId # t
    <3>1. thread'[t].depth = thread[t].depth BY <1>3, <2>2 DEF RequestLock
    <3> QED BY <1>4, <3>1
  <2> QED BY <2>1, <2>2
<1>7. \A d \in Devices : lock'[d].bDeviceIsLocked = lock[d].bDeviceIsLocked
  <2>1. lock' = lock \/ lock' = [lock EXCEPT ![e] = LockedAgain(lock[e])] BY DEF RequestLock
  <2>2. LockedAgain(lock[e]).bDeviceIsLocked = lock[e].bDeviceIsLocked
    BY <1>3 DEF LockedAgain, LockRecords
  <2> QED BY <1>3, <2>1, <2>2
<1>8. ClientsAtTheirs' BY <1>3, <1>5 DEF PortInv, ClientsAtTheirs
<1>9. OnlyClientsLate' BY <1>5 DEF PortInv, OnlyClientsLate
<1>10. ASSUME NEW d \in ServiceOnly PROVE FlagIsPort(d)'
  <2>1. ASSUME NEW u \in Servers, thread'[u].device = d, thread'[u].depth > 0
        PROVE  thread[u].device = d /\ thread[u].depth > 0
    BY <1>3, <1>5, <1>6, <2>1
  <2> QED BY <1>3, <1>4, <1>7, <2>1, SameFlag DEF PortInv
<1> QED BY <1>8, <1>9, <1>10 DEF PortInv

\* The last unlock clears the flag with the port, or leaves both to AutoUnlock.
LEMMA RequestUnlockPorts ==
  ASSUME LockInv, PortInv, NEW t \in Threads, RequestUnlock(t),
         t \in Servers \cup Clients \/ unload.pc = "item",
         unload'.pc \in {"unload", "clear"} => unload' = unload
  PROVE  PortInv'
<1>1. PICK e \in Devices : e = thread[t].device
  BY DEF LockInv, TypeInv, AtDevice, RequestUnlock
<1>3. /\ lock \in [Devices -> LockRecords] /\ lock[e] \in LockRecords /\ HolderKnown(e)
      /\ port \in [Devices -> BOOLEAN]
      /\ thread \in [Threads -> [pc : CallPcs, device : Devices \cup {NoDevice}, depth : Nat]]
      /\ Servers \subseteq Threads /\ Clients \subseteq Threads
      /\ Manager \notin Servers \cup Clients
      /\ NoDevice \notin Devices /\ ServiceOnly \subseteq Devices
  BY PortFacts
<1> DEFINE last == lock[e].lInUse <= 1
           unlocks == last /\ lock[e].lHoldingTime = 0 /\ bInServerProcess(t)
           info == UnlockedOnce(lock[e])
<1>4. /\ thread[t].pc = "run" /\ thread[t].depth > 0 /\ thread[t].depth \in Nat
      /\ lock[e].lInUse = thread[t].depth /\ Holds(t, e)
  <2>1. thread[t].pc = "run" /\ thread[t].depth > 0 BY DEF RequestUnlock, Calls
  <2>2. Holds(t, e) BY <1>1, <2>1 DEF Holds
  <2> QED BY <1>3, <2>1, <2>2 DEF HolderKnown, Count
<1>5. last => t \in Servers \cup Clients
  BY <1>3, <1>4 DEF LockInv, UnloadHasLock, Threads
<1>6. PICK closes \in IF unlocks THEN Closing(e) ELSE {FALSE} :
        /\ UnlockDevice(e, closes)
        /\ lock' = [lock EXCEPT ![e] =
             IF ~ last THEN info
             ELSE IF ~ unlocks THEN ClearLockInfo(info)
             ELSE ClearLockInfo([info EXCEPT !.bDeviceIsLocked = ~ closes])]
  BY <1>1 DEF RequestUnlock
<1>7. /\ \A u \in Threads \ {t} : thread'[u] = thread[u]
      /\ thread'[t].depth = thread[t].depth - 1 /\ thread'[t].device \in {e, NoDevice}
      /\ thread'[t].pc = "late" => last /\ ~ bInServerProcess(t)
  BY <1>1, <1>3 DEF RequestUnlock
<1>8. ClientsAtTheirs' BY <1>1, <1>3, <1>7 DEF PortInv, ClientsAtTheirs
<1>9. OnlyClientsLate' BY <1>5, <1>7 DEF PortInv, OnlyClientsLate, bInServerProcess
<1>10. closes \in BOOLEAN /\ (~ unlocks => closes = FALSE) BY <1>6 DEF Closing
<1>11. port' = [port EXCEPT ![e] = port[e] /\ ~ closes] BY <1>6 DEF UnlockDevice
<1>12. ASSUME NEW d \in ServiceOnly, d # e PROVE FlagIsPort(d)'
  <2>1. lock'[d] = lock[d] /\ port'[d] = port[d] /\ d # NoDevice BY <1>3, <1>6, <1>11, <1>12
  <2>2. ASSUME NEW u \in Servers, thread'[u].device = d, thread'[u].depth > 0
        PROVE  thread[u].device = d /\ thread[u].depth > 0
    BY <1>3, <1>7, <1>12, <2>1, <2>2
  <2> QED BY <1>12, <2>1, <2>2, SameFlag DEF PortInv
<1>13. ASSUME e \in ServiceOnly PROVE FlagIsPort(e)'
  <2>0. FlagIsPort(e) BY <1>13 DEF PortInv
  <2>1. CASE ~ unlocks
    <3>1. port'[e] = port[e] BY <1>3, <1>10, <1>11, <2>1
    <3>2. lock'[e] = info \/ lock'[e] = ClearLockInfo(info) BY <1>3, <1>6, <2>1
    <3>3. info \in LockRecords /\ info.bDeviceIsLocked = lock[e].bDeviceIsLocked
      BY <1>3 DEF UnlockedOnce, LockRecords
    <3>4. lock'[e].bDeviceIsLocked = lock[e].bDeviceIsLocked
      <4> HIDE DEF info
      <4> QED BY <3>2, <3>3 DEF ClearLockInfo, LockRecords
    <3>5. ASSUME NEW u \in Servers, thread'[u].device = e, thread'[u].depth > 0
          PROVE  thread[u].device = e /\ thread[u].depth > 0
      BY <1>1, <1>3, <1>4, <1>7, <3>5
    <3> QED BY <1>13, <2>0, <3>1, <3>4, <3>5, SameFlag
  <2>2. CASE unlocks
    <3>1. t \in Servers
      BY <1>1, <1>3, <1>5, <1>13, <2>2 DEF PortInv, ClientsAtTheirs, ServiceOnly
    <3>2. lock[e].bDeviceIsLocked /\ port[e] BY <1>1, <1>4, <2>0, <3>1 DEF FlagIsPort
    <3>3. lock'[e] = ClearLockInfo([info EXCEPT !.bDeviceIsLocked = ~ closes])
      BY <1>3, <1>6, <2>2
    <3>4. info \in LockRecords BY <1>3 DEF UnlockedOnce, LockRecords
    <3>5. lock'[e].bDeviceIsLocked = ~ closes
      <4> HIDE DEF info
      <4> QED BY <3>3, <3>4 DEF ClearLockInfo, LockRecords
    <3>6. port'[e] = ~ closes BY <1>3, <1>10, <1>11, <3>2
    <3>7. ASSUME NEW u \in Servers, thread'[u].device = e, thread'[u].depth > 0 PROVE FALSE
      <4>1. u # t
        <5>1. thread[t].depth = 1 BY <1>4, <2>2
        <5> QED BY <1>7, <3>7, <5>1
      <4>2. Holds(u, e) BY <1>3, <1>7, <3>7, <4>1 DEF Holds
      <4> QED BY <1>3, <1>4, <4>1, <4>2 DEF HolderKnown
    <3>8. ~ (unload'.device = e /\ unload'.pc \in {"unload", "clear"})
      BY <1>3, <1>4, <3>1, UnloadHasPort
    <3> QED BY <3>5, <3>6, <3>7, <3>8 DEF FlagIsPort
  <2> QED BY <2>1, <2>2
<1> QED BY <1>8, <1>9, <1>12, <1>13 DEF PortInv

\* A server or client thread uses only its own devices.
LEMMA UsePorts ==
  ASSUME LockInv, PortInv, NEW t \in Servers \cup Clients, UseDevice(t)
  PROVE  PortInv'
<1>1. t \in Threads /\ unload' = unload BY DEF Threads, UseDevice
<1>2. CASE RequestUnlock(t) BY <1>1, <1>2, RequestUnlockPorts
<1>3. ASSUME NEW d \in Uses[t], RequestLock(t, d) PROVE PortInv'
  <2>1. d \in Devices BY ConstantsAssumption
  <2> QED BY <1>1, <1>3, <2>1, RequestLockPorts
<1> QED BY <1>2, <1>3 DEF UseDevice

\* AutoUnlock closes the port of a device it has taken, and clears its flag.
LEMMA TimerPorts ==
  ASSUME LockInv, PortInv, TimerStep
  PROVE  PortInv'
<1>1. thread' = thread /\ unload' = unload
  BY DEF TimerStep, AutoUnlock, CheckDevice, UpdateLockInfoStatus, RescheduleUnlock, TimerFrame
<1>2. ClientsAtTheirs' /\ OnlyClientsLate' BY <1>1 DEF PortInv, ClientsAtTheirs, OnlyClientsLate
<1>3. /\ lock \in [Devices -> LockRecords] /\ port \in [Devices -> BOOLEAN]
      /\ \A d \in Devices : lock[d] \in LockRecords /\ HolderKnown(d)
      /\ Servers \subseteq Threads /\ ServiceOnly \subseteq Devices
  BY PortFacts
<1>4. ASSUME port' = port,
             \A d \in Devices : lock'[d].bDeviceIsLocked = lock[d].bDeviceIsLocked
      PROVE  PortInv'
  <2>1. ASSUME NEW d \in ServiceOnly PROVE FlagIsPort(d)'
    BY <1>1, <1>3, <1>4, SameFlag DEF PortInv
  <2> QED BY <1>2, <2>1 DEF PortInv
<1>5. CASE AutoUnlock \/ RescheduleUnlock BY <1>4, <1>5 DEF AutoUnlock, RescheduleUnlock
<1>6. ASSUME NEW d \in Devices, CheckDevice(d) PROVE PortInv'
  <2>1. lock' = [lock EXCEPT ![d].hDeviceIsFree = FALSE] /\ port' = port
    BY <1>6 DEF CheckDevice
  <2>2. \A e \in Devices : lock'[e].bDeviceIsLocked = lock[e].bDeviceIsLocked
    BY <1>3, <2>1 DEF LockRecords
  <2> QED BY <1>4, <2>1, <2>2
<1>7. CASE UpdateLockInfoStatus
  <2>1. PICK e \in Devices : e = timer.device
    BY <1>7 DEF UpdateLockInfoStatus, LockInv, TypeInv, AtDevice
  <2> DEFINE left == TimeLeft(e)
             info == [lock[e] EXCEPT !.lTimeLeft = IF lock[e].bDeviceIsLocked THEN left ELSE @]
  <2>2. PICK closes :
          /\ closes \in BOOLEAN /\ UnlockDevice(e, closes)
          /\ lock' = [lock EXCEPT ![e] =
               IF closes THEN ClearLockInfo([info EXCEPT !.bDeviceIsLocked = FALSE])
               ELSE [info EXCEPT !.hDeviceIsFree = TRUE]]
    BY <1>7, <2>1 DEF UpdateLockInfoStatus, Closing
  <2>3. /\ info.bDeviceIsLocked = lock[e].bDeviceIsLocked
        /\ DOMAIN info = {"hDeviceIsFree", "bDeviceIsLocked", "lInUse",
                          "dwThreadId", "lHoldingTime", "lTimeLeft"}
    BY <1>3 DEF LockRecords
  <2> HIDE DEF info
  <2>4. port' = [port EXCEPT ![e] = port[e] /\ ~ closes] BY <2>2 DEF UnlockDevice
  <2>5. \A d \in Devices \ {e} : lock'[d] = lock[d] /\ port'[d] = port[d] BY <1>3, <2>2, <2>4
  <2>6. CASE ~ closes
    <3>1. lock'[e] = [info EXCEPT !.hDeviceIsFree = TRUE] BY <1>3, <2>2, <2>6
    <3>2. lock'[e].bDeviceIsLocked = lock[e].bDeviceIsLocked BY <2>3, <3>1
    <3>3. port' = port BY <1>3, <2>4, <2>6
    <3> QED BY <1>4, <2>5, <3>2, <3>3
  <2>7. CASE closes
    <3>1. lock'[e] = ClearLockInfo([info EXCEPT !.bDeviceIsLocked = FALSE]) BY <1>3, <2>2, <2>7
    <3>2. ~ lock'[e].bDeviceIsLocked BY <2>3, <3>1 DEF ClearLockInfo
    <3>3. ASSUME NEW u \in Servers, thread[u].device = e, thread[u].depth > 0 PROVE FALSE
      <4>1. Holds(u, e) BY <3>3 DEF Holds
      <4> QED BY <1>3, <2>1, <4>1, ConstantsAssumption DEF HolderKnown
    <3>4. FlagIsPort(e)' BY <1>1, <3>2, <3>3 DEF FlagIsPort
    <3>5. ASSUME NEW d \in ServiceOnly, d # e PROVE FlagIsPort(d)'
      BY <1>1, <1>3, <2>5, <3>5, SameFlag DEF PortInv
    <3> QED BY <1>2, <3>4, <3>5 DEF PortInv
  <2> QED BY <2>6, <2>7
<1> QED BY <1>5, <1>6, <1>7 DEF TimerStep

\* UnLoadDriver closes the port and clears the flag before the driver goes.
LEMMA ManagerPorts ==
  ASSUME LockInv, PortInv, UnlockSucceeds, ManagerStep
  PROVE  PortInv'
<1> USE ManagerIsThread DEF UnloadAt, UnloadGoesTo
<1>3. /\ lock \in [Devices -> LockRecords] /\ port \in [Devices -> BOOLEAN]
      /\ loaded \in [Devices -> BOOLEAN]
      /\ \A d \in Devices : lock[d] \in LockRecords /\ HolderKnown(d)
      /\ thread \in [Threads -> [pc : CallPcs, device : Devices \cup {NoDevice}, depth : Nat]]
      /\ unload \in [pc : {"none", "lock", "items", "item", "unload", "clear"},
                     device : Devices \cup {NoDevice}, locked : BOOLEAN]
      /\ Servers \subseteq Threads /\ Clients \subseteq Threads
      /\ Manager \notin Servers \cup Clients
      /\ NoDevice \notin Devices /\ ServiceOnly \subseteq Devices
  BY PortFacts
<1>4. unload.pc # "none" => unload.device \in Devices BY DEF LockInv, TypeInv, AtDevice
<1>5. ASSUME NEW d \in Devices, UnLoadDriver(d) PROVE PortInv'
  <2>1. RequestLock(Manager, d) /\ unload'.pc = "lock" BY <1>5 DEF UnLoadDriver
  <2> QED BY <1>3, <2>1, RequestLockPorts
<1>6. CASE UninitializeItem
  <2>1. /\ unload.device \in Devices /\ RequestLock(Manager, unload.device)
        /\ unload'.pc = "item"
    BY <1>3, <1>4, <1>6 DEF UninitializeItem
  <2> QED BY <1>3, <2>1, RequestLockPorts
<1>7. ASSUME UNCHANGED <<lock, port, thread>>, unload'.pc \notin {"unload", "clear"} PROVE PortInv'
  <2>1. ASSUME NEW d \in ServiceOnly PROVE FlagIsPort(d)' BY <1>7, <2>1, SameFlag DEF PortInv
  <2> QED BY <1>7, <2>1 DEF PortInv, ClientsAtTheirs, OnlyClientsLate
<1>8. CASE ItemUninitialized
  <2>1. unload.pc = "item" /\ unload'.pc = "items" BY <1>3, <1>8 DEF ItemUninitialized
  <2>2. CASE ItemIsLocked BY <1>8, <2>1, <2>2, RequestUnlockPorts DEF ItemUninitialized
  <2>3. CASE ~ ItemIsLocked BY <1>7, <1>8, <2>1, <2>3 DEF ItemUninitialized
  <2> QED BY <2>2, <2>3
<1>9. CASE UnloadLocked
  <2>1. unload'.pc = "items" BY <1>3, <1>9 DEF UnloadLocked
  <2> QED BY <1>7, <1>9, <2>1 DEF UnloadLocked
<1>10. ASSUME NEW d \in Devices, LoadDriver(d) PROVE PortInv' BY <1>7, <1>10 DEF LoadDriver
<1>11. ASSUME thread' = thread, thread[Manager].depth = 1, thread[Manager].device = unload.device,
              unload.device \in Devices, ~ lock'[unload.device].bDeviceIsLocked,
              unload'.device = unload.device,
              \A d \in Devices \ {unload.device} : lock'[d] = lock[d] /\ port'[d] = port[d]
       PROVE  PortInv'
  <2>1. Holds(Manager, unload.device) BY <1>11 DEF Holds
  <2>2. ASSUME NEW u \in Servers, thread[u].device = unload.device, thread[u].depth > 0 PROVE FALSE
    <3>1. Holds(u, unload.device) BY <2>2 DEF Holds
    <3> QED BY <1>3, <1>11, <2>1, <3>1 DEF HolderKnown
  <2>3. FlagIsPort(unload.device)' BY <1>11, <2>2 DEF FlagIsPort
  <2>4. ASSUME NEW d \in ServiceOnly, d # unload.device PROVE FlagIsPort(d)'
    BY <1>3, <1>11, <2>4, SameFlag DEF PortInv
  <2> QED BY <1>11, <2>3, <2>4 DEF PortInv, ClientsAtTheirs, OnlyClientsLate
<1>12. CASE UnloadUnlocks
  <2>1. PICK d \in Devices : d = unload.device BY <1>4, <1>12 DEF UnloadUnlocks
  <2>2. /\ unload.locked /\ loaded[d] /\ thread[Manager].depth = 1 /\ thread[Manager].device = d
        /\ thread' = thread /\ unload'.device = d
    BY <1>3, <1>12, <2>1 DEF UnloadUnlocks, LockInv, UnloadHasLock
  <2>3. Closing(d) = {TRUE} BY <1>3, <2>2 DEF Closing, UnlockSucceeds
  <2>4. /\ lock' = [lock EXCEPT ![d].bDeviceIsLocked = FALSE]
        /\ port' = [port EXCEPT ![d] = FALSE]
    <3>1. PICK closes \in IF unload.locked THEN Closing(d) ELSE {FALSE} :
            /\ UnlockDevice(d, closes)
            /\ lock' = [lock EXCEPT ![d].bDeviceIsLocked = IF unload.locked THEN ~ closes ELSE @]
      BY <1>12, <2>1 DEF UnloadUnlocks
    <3>2. closes = TRUE BY <2>2, <2>3, <3>1
    <3> QED BY <2>2, <3>1, <3>2 DEF UnlockDevice
  <2>5. ~ lock'[d].bDeviceIsLocked /\ \A e \in Devices \ {d} : lock'[e] = lock[e] /\ port'[e] = port[e]
    BY <1>3, <2>4 DEF LockRecords
  <2> QED BY <1>11, <2>1, <2>2, <2>5
<1>13. CASE DriverUnloaded
  <2>1. PICK d \in Devices : d = unload.device BY <1>4, <1>13 DEF DriverUnloaded
  <2>2. /\ unload.pc = "unload" /\ thread[Manager].depth = 1 /\ thread[Manager].device = d
        /\ thread' = thread /\ unload'.device = d /\ unload'.pc = "clear"
        /\ lock' = lock /\ port' = [port EXCEPT ![d] = FALSE]
    BY <1>3, <1>13, <2>1 DEF DriverUnloaded, LockInv, UnloadHasLock
  <2>3. ASSUME d \in ServiceOnly PROVE ~ lock[d].bDeviceIsLocked
    BY <2>1, <2>2, <2>3 DEF PortInv, FlagIsPort
  <2>4. CASE d \in ServiceOnly BY <1>3, <1>11, <2>1, <2>2, <2>3, <2>4
  <2>5. CASE d \notin ServiceOnly
    <3>1. ASSUME NEW e \in ServiceOnly PROVE FlagIsPort(e)'
      BY <1>3, <2>1, <2>2, <2>5, <3>1, SameFlag DEF PortInv
    <3> QED BY <2>2, <3>1 DEF PortInv, ClientsAtTheirs, OnlyClientsLate
  <2> QED BY <2>4, <2>5
<1>14. CASE UnloadClears
  <2>1. /\ lock' = [lock EXCEPT ![unload.device] = ClearLockInfo(lock[unload.device])]
        /\ thread' = [thread EXCEPT ![Manager] = Idle] /\ unload'.pc = "none" /\ port' = port
    BY <1>14 DEF UnloadClears, NoUnload
  <2>2. \A d \in Devices : lock'[d].bDeviceIsLocked = lock[d].bDeviceIsLocked
    BY <1>3, <2>1 DEF ClearLockInfo, LockRecords
  <2>3. \A u \in Threads \ {Manager} : thread'[u] = thread[u] BY <1>3, <2>1
  <2>4. thread'[Manager].pc # "late" BY <1>3, <2>1 DEF Idle
  <2>5. ASSUME NEW d \in ServiceOnly PROVE FlagIsPort(d)'
    BY <1>3, <2>1, <2>2, <2>3, <2>5, SameFlag DEF PortInv
  <2> QED BY <1>3, <2>3, <2>4, <2>5 DEF PortInv, ClientsAtTheirs, OnlyClientsLate
<1> QED
  BY <1>5, <1>6, <1>8, <1>9, <1>10, <1>12, <1>13, <1>14 DEF ManagerStep, UnloadStep

\* The flag stays right in every step.
LEMMA PortStep == LockInv /\ PortInv /\ UnlockSucceeds /\ [Next]_vars => PortInv'
<1> SUFFICES ASSUME LockInv, PortInv, UnlockSucceeds, [Next]_vars PROVE PortInv' OBVIOUS
<1>1. CASE UNCHANGED vars
  BY <1>1 DEF vars, PortInv, ClientsAtTheirs, OnlyClientsLate, FlagIsPort
<1>2. CASE Next BY <1>2, CallPorts, UsePorts, TimerPorts, ManagerPorts DEF Next
<1> QED BY <1>1, <1>2

\* A server thread that has a device no client uses finds its port open, unless a
\* driver refuses UnLoadDriver its lock or fails to close the port (lockmgr.cpp 819).
THEOREM PortsOpenForHolders ==
  ASSUME UnloadNotRefused, UnlockSucceeds
  PROVE  Spec => []HolderHasPort
<1>1. PortInv => HolderHasPort BY DEF PortInv, FlagIsPort, HolderHasPort, ServedByPort
<1> QED BY <1>1, InitLocks, LockStep, InitPorts, PortStep, PTL DEF Spec

=============================================================================
