------------------------- MODULE LocalSpoolerTypes -------------------------
(***************************************************************************)
(* LocalSpooler keeps its type invariant.  TypeOK alone is not inductive:  *)
(* a thread inside DeleteJob, SetJob or PortThread must also be known to    *)
(* have a job, because the code follows its pointers.                      *)
(***************************************************************************)
EXTENDS LocalSpoolerProperties, TLAPS, SequenceTheorems

\* A thread inside DeleteJob has a job until it has freed it, ...
DeletersHaveJobs ==
  \A t \in Threads : del[t].pc \notin {"idle", "files", "trace"} => del[t].job \in Jobs
\* ... a client has one while its call lasts, and only PauseJob and ResumeJob
\* capture a port, ...
ClientsHaveJobs ==
  \A c \in Clients : /\ client[c].pc # "idle" => client[c].job \in Jobs
                     /\ client[c].pc = "capture" => client[c].command \in {"PAUSE", "RESUME"}

\* ... and a port's thread from being woken to letting go of it.
PortsHaveJobs == \A p \in Ports : pt[p].pc \notin Jobless => pt[p].job \in Jobs

\* What every step preserves.
TypeInv == TypeOK /\ DeletersHaveJobs /\ ClientsHaveJobs /\ PortsHaveJobs

----------------------------------------------------------------------------
(* The operators the actions are built from.                               *)

\* Without takes nothing into a list that was not there.
LEMMA WithoutType ==
  ASSUME NEW S, NEW s \in Seq(S), NEW j
  PROVE  Without(s, j) \in Seq(S)
<1> DEFINE n == CHOOSE i \in DOMAIN s : s[i] = j
<1>1. CASE \E i \in DOMAIN s : s[i] = j
  <2>1. n \in 1 .. Len(s) BY <1>1
  <2>2. Without(s, j) = SubSeq(s, 1, n - 1) \o SubSeq(s, n + 1, Len(s))
    BY <1>1 DEF Without, RemoveAt
  <2> HIDE DEF n
  <2>3. SubSeq(s, 1, n - 1) \in Seq(S) BY <2>1
  <2>4. SubSeq(s, n + 1, Len(s)) \in Seq(S) BY <2>1
  <2> QED BY <2>2, <2>3, <2>4
<1>2. CASE ~ \E i \in DOMAIN s : s[i] = j
  BY <1>2 DEF Without
<1> QED BY <1>1, <1>2

\* The queue holds jobs.
LEMMA QueuedType == ASSUME JobTypes PROVE Queued \subseteq Jobs
BY DEF JobTypes, Queued

\* A reference count stays a number.
LEMMA AddRefType ==
  ASSUME cRef \in [Jobs -> Int], NEW j, NEW n \in Int, AddRef(j, n)
  PROVE  cRef' \in [Jobs -> Int]
<1>1. CASE j \in Jobs BY <1>1 DEF AddRef
<1>2. CASE j \notin Jobs BY <1>2 DEF AddRef
<1> QED BY <1>1, <1>2

\* The ways in, through and out of DeleteJob.
LEMMA CallType ==
  ASSUME del \in [Threads -> DelRecords], DeletersHaveJobs,
         NEW t \in Threads, NEW j \in Jobs, NEW leave \in BOOLEAN, Call(t, j, leave)
  PROVE  del' \in [Threads -> DelRecords] /\ DeletersHaveJobs'
BY DEF DelRecords, DelPcs, DeletersHaveJobs, Call

\* A thread that returns from DeleteJob leaves well-typed records behind.
LEMMA ReturnType ==
  ASSUME DeleteTypes, DeletersHaveJobs, schedulerSignal \in BOOLEAN,
         NEW t \in Threads, Return(t)
  PROVE  DeleteTypes' /\ DeletersHaveJobs' /\ schedulerSignal' \in BOOLEAN
BY DEF DeleteTypes, DelRecords, DelPcs, DeletersHaveJobs, Return, NotDeleting

\* ... and so does one that goes on to another place inside it.
LEMMA GoToType ==
  ASSUME del \in [Threads -> DelRecords], DeletersHaveJobs,
         NEW t \in Threads, NEW pc \in DelPcs, GoTo(t, pc), del[t].job \in Jobs
  PROVE  del' \in [Threads -> DelRecords] /\ DeletersHaveJobs'
BY DEF DelRecords, DelPcs, DeletersHaveJobs, GoTo

\* Whichever way DeleteJobCheck decides, the thread is in a well-typed place.
LEMMA DeleteJobCheckType ==
  ASSUME DeleteTypes, DeletersHaveJobs, NEW t \in Threads, NEW j \in Jobs,
         DeleteJobCheckAndLeave(t, j) \/ DeleteJobCheckAndHold(t, j)
  PROVE  DeleteTypes' /\ DeletersHaveJobs'
BY CallType DEF DeleteTypes, DeletersHaveJobs, DeleteJobCheckAndLeave, DeleteJobCheckAndHold

\* What is given back to the memory for rendering never exceeds its total.
LEMMA ReleaseType ==
  ASSUME NEW avail \in 0 .. TotalMemoryForRendering, NEW j \in Jobs
  PROVE  Release(avail, j) \in 0 .. TotalMemoryForRendering
BY ConstantsAssumption DEF ConstantsAssumption, Release

\* The memory left for rendering stays between zero and the total.
LEMMA ReserveType ==
  ASSUME NEW avail \in 0 .. TotalMemoryForRendering, NEW j \in Jobs
  PROVE  Reserve(avail, j) \in 0 .. TotalMemoryForRendering
BY ConstantsAssumption DEF ConstantsAssumption, Reserve

----------------------------------------------------------------------------
\* Before the first call everything has its type.
LEMMA InitTypes == Init => TypeInv
<1> USE ConstantsAssumption DEF ConstantsAssumption
<1>1. ASSUME Init PROVE JobTypes
  <2>1. 0 \in 0 .. DwordModulus - 1 OBVIOUS
  <2>2. 0 \in Sizes BY DEF Sizes, MaxSize, dwFastPrintSlowDownThreshold
  <2>3. job = [j \in Jobs |->
                [signature |-> "none", pIniPort |-> NoPort, NextJobId |-> NoJob,
                 pCurrentIniJob |-> NoJob, WaitForWrite |-> "null",
                 dwJobControlsPending |-> 0, Size |-> 0, data |-> 0, unread |-> 0]]
    BY <1>1 DEF Init
  <2>4. job \in [Jobs -> JobRecords] BY <2>1, <2>2, <2>3 DEF JobRecords
  <2>5. queue \in Seq(Jobs) /\ Status \in [Jobs -> SUBSET Flags] /\ cRef \in [Jobs -> Int]
    BY <1>1 DEF Init
  <2> QED BY <2>4, <2>5 DEF JobTypes
<1>2. Init => ListTypes BY DEF Init, ListTypes
<1>3. ASSUME Init PROVE GlobalTypes
  <2>1. port = [p \in Ports |->
                 [Status |-> {}, pIniJob |-> NoJob, cJobs |-> 0, Semaphore |-> FALSE,
                  hProc |-> "closed", InCriticalSection |-> {}]]
    BY <1>3 DEF Init
  <2>2. port \in [Ports -> PortRecords] BY <2>1 DEF PortRecords
  <2>3. cFullPrintingJobs = 0 BY <1>3 DEF Init
  <2>4. cFullPrintingJobs \in Int BY <2>3
  <2>5. schedulerSignal \in BOOLEAN BY <1>3 DEF Init
  <2> QED BY <2>2, <2>4, <2>5 DEF GlobalTypes
<1>4. Init => ThreadTypes
  BY DEF Init, ThreadTypes, AppPcs, ClientRecords, ClientPcs, PtRecords, PortPcs, SchedRecords,
         SchedPcs, NoCall, PortThreadAt
<1>5. Init => DeleteTypes BY DEF Init, DeleteTypes, DelRecords, DelPcs, NotDeleting
<1>6. Init => DeletersHaveJobs /\ ClientsHaveJobs /\ PortsHaveJobs
  BY DEF Init, DeletersHaveJobs, ClientsHaveJobs, PortsHaveJobs, Jobless, NotDeleting, NoCall,
         PortThreadAt
<1> QED BY <1>1, <1>2, <1>3, <1>4, <1>5, <1>6 DEF TypeInv, TypeOK

----------------------------------------------------------------------------
(* DeleteJob.                                                              *)

\* Every stretch of DeleteJob, whoever runs it, keeps every type.
LEMMA DeleteJobTypes ==
  ASSUME TypeInv, NEW t \in Threads, DeleteJob(t)
  PROVE  TypeInv'
<1> USE DEF TypeInv, TypeOK
<1>0. ASSUME Frame
      PROVE  ListTypes' /\ ThreadTypes' /\ ClientsHaveJobs' /\ PortsHaveJobs' /\ cFullPrintingJobs' \in Int
  BY <1>0 DEF Frame, listVars, ListTypes, ThreadTypes, ClientsHaveJobs, PortsHaveJobs, GlobalTypes
<1> DEFINE j == del[t].job
<1>a. t \in Threads \cup {NoThread} /\ NoThread \in Threads \cup {NoThread} OBVIOUS
<1>b. del[t].port \in Ports \cup {NoPort} /\ del[t].next \in Jobs \cup {NoJob}
  BY DEF DeleteTypes, DelRecords
<1>1. CASE DeleteJobStart(t)
  <2> USE <1>1 DEF DeleteJobStart, Deleting
  <2>1. j \in Jobs BY DEF DeletersHaveJobs
  <2>2. JobTypes'
    <3>1. Status' \in [Jobs -> SUBSET Flags] BY DEF JobTypes, Return, Flags
    <3>2. cRef' \in [Jobs -> Int] BY AddRefType DEF JobTypes
    <3> QED BY <3>1, <3>2 DEF JobTypes
  <2>3. DeleteTypes' /\ DeletersHaveJobs' /\ schedulerSignal' \in BOOLEAN
    <3>1. CASE Return(t) BY <3>1, ReturnType DEF GlobalTypes
    <3> DEFINE n == job[j].NextJobId
    <3>a. n \in Jobs \cup {NoJob} BY <2>1 DEF JobTypes, JobRecords
    <3>2. CASE /\ del' = [del EXCEPT ![t].pc = "counted", ![t].next = n]
               /\ UNCHANGED <<splSem, schedulerSignal>>
      <4> DEFINE d == [del EXCEPT ![t].pc = "counted"]
      <4>1. del' = [d EXCEPT ![t].next = n] BY <3>2
      <4>2. d \in [Threads -> DelRecords] /\ \A u \in Threads \ {t} : d[u] = del[u]
        BY DEF DeleteTypes, DelRecords, DelPcs
      <4>3. d[t].job = del[t].job BY DEF DeleteTypes, DelRecords
      <4> HIDE DEF d, n
      <4>4. del' \in [Threads -> DelRecords] BY <4>1, <4>2, <3>a DEF DelRecords
      <4>5. DeletersHaveJobs' BY <4>1, <4>2, <4>3, <2>1 DEF DeletersHaveJobs, DelRecords
      <4> QED BY <4>4, <4>5, <3>2 DEF DeleteTypes, GlobalTypes
    <3>3. CASE /\ del' = [del EXCEPT ![t].pc = "cancel", ![t].port = job[j].pIniPort,
                                     ![t].next = n]
               /\ splSem' = NoThread /\ UNCHANGED schedulerSignal
      <4> DEFINE d == [del EXCEPT ![t].pc = "cancel"]
                 e == [d EXCEPT ![t].port = job[j].pIniPort]
      <4>1. del' = [e EXCEPT ![t].next = n] BY <3>3
      <4>2. d \in [Threads -> DelRecords] /\ \A u \in Threads \ {t} : d[u] = del[u]
        BY DEF DeleteTypes, DelRecords, DelPcs
      <4>3. job[j].pIniPort \in Ports \cup {NoPort} BY <2>1 DEF JobTypes, JobRecords
      <4>4. d[t].job = del[t].job BY DEF DeleteTypes, DelRecords
      <4> HIDE DEF d, n
      <4>5. e \in [Threads -> DelRecords] /\ \A u \in Threads \ {t} : e[u] = del[u]
        BY <4>2, <4>3 DEF DelRecords
      <4>6. e[t].job = del[t].job BY <4>2, <4>4 DEF DelRecords
      <4> HIDE DEF e
      <4>7. del' \in [Threads -> DelRecords] BY <4>1, <4>5, <3>a DEF DelRecords
      <4>8. DeletersHaveJobs' BY <4>1, <4>5, <4>6, <2>1 DEF DeletersHaveJobs, DelRecords
      <4> QED BY <4>7, <4>8, <3>3 DEF DeleteTypes, GlobalTypes
    <3> QED BY <3>1, <3>2, <3>3
  <2>4. GlobalTypes' BY <1>0, <2>3 DEF GlobalTypes
  <2> QED BY <1>0, <2>2, <2>3, <2>4
<1>2. CASE DeleteJobCancel(t)
  <2> USE <1>2 DEF DeleteJobCancel, Reentering
  <2>1. j \in Jobs BY DEF DeletersHaveJobs
  <2>2. JobTypes'
    <3>1. AddRef(j, -1) \/ UNCHANGED cRef OBVIOUS
    <3>2. cRef' \in [Jobs -> Int] BY <3>1, AddRefType DEF JobTypes
    <3> QED BY <3>2 DEF JobTypes
  <2>3. DeleteTypes' /\ DeletersHaveJobs' BY <2>1, GoToType DEF DeleteTypes, DelPcs
  <2>4. GlobalTypes' BY <1>0 DEF GlobalTypes, PortRecords
  <2> QED BY <1>0, <2>2, <2>3, <2>4
<1>3. CASE DeleteJobControl(t)
  <2> USE DEF DeleteJobControl, Reentering
  <2>1. j \in Jobs BY <1>3 DEF DeletersHaveJobs
  <2>2. JobTypes' BY <1>3, AddRefType DEF JobTypes
  <2>3. DeleteTypes' /\ DeletersHaveJobs' BY <1>3, <2>1, GoToType DEF DeleteTypes, DelPcs
  <2>4. GlobalTypes'
    <3> DEFINE p == del[t].port
               f == [port EXCEPT ![p].hProc = "aborted"]
               s == (port[p].InCriticalSection \ {"CANCEL"}) \cup {"PAUSE", "RESUME"}
    <3>1. port' = [f EXCEPT ![p].InCriticalSection = s] BY <1>3
    <3>4. port' \in [Ports -> PortRecords]
      <4>1. CASE p \in Ports
        <5>1. f \in [Ports -> PortRecords] BY <4>1 DEF GlobalTypes, PortRecords
        <5>2. s \in SUBSET {"PAUSE", "RESUME", "CANCEL"} BY <4>1 DEF GlobalTypes, PortRecords
        <5> HIDE DEF f, s, p
        <5> QED BY <3>1, <4>1, <5>1, <5>2 DEF PortRecords
      <4>2. CASE p \notin Ports
        <5> HIDE DEF p
        <5>1. f = port BY <4>2 DEF GlobalTypes
        <5> HIDE DEF f
        <5> QED BY <3>1, <4>2, <5>1 DEF GlobalTypes
      <4> QED BY <4>1, <4>2
    <3> QED BY <1>0, <1>3, <3>4 DEF GlobalTypes
  <2> QED BY <1>0, <1>3, <2>2, <2>3, <2>4
<1>4. CASE DeleteJobReferenced(t)
  <2> USE <1>4 DEF DeleteJobReferenced, Deleting
  <2>1. j \in Jobs BY DEF DeletersHaveJobs
  <2>2. JobTypes'
    <3>1. AddRef(j, 1) \/ UNCHANGED cRef OBVIOUS
    <3>2. cRef' \in [Jobs -> Int] BY <3>1, AddRefType DEF JobTypes
    <3>3. Status' \in [Jobs -> SUBSET Flags] BY DEF JobTypes, Flags
    <3> QED BY <3>2, <3>3 DEF JobTypes
  <2>3. DeleteTypes' /\ DeletersHaveJobs' /\ schedulerSignal' \in BOOLEAN
    BY <2>1, GoToType, ReturnType DEF DeleteTypes, DelPcs, GlobalTypes
  <2>4. GlobalTypes' BY <1>0, <2>3 DEF GlobalTypes
  <2> QED BY <1>0, <2>2, <2>3, <2>4
<1>5. CASE DeleteJobShadow(t)
  <2> USE <1>5 DEF DeleteJobShadow
  <2>2. JobTypes' BY AddRefType DEF JobTypes
  <2>3. DeleteTypes' /\ DeletersHaveJobs' /\ schedulerSignal' \in BOOLEAN
    BY ReturnType DEF GlobalTypes
  <2>4. GlobalTypes' BY <1>0, <2>3 DEF GlobalTypes
  <2> QED BY <1>0, <2>2, <2>3, <2>4
<1>6. CASE DeleteJobUnlink(t)
  <2> USE <1>6 DEF DeleteJobUnlink, Deleting
  <2>1. j \in Jobs BY DEF DeletersHaveJobs
  <2>2. JobTypes'
    <3>1. AddRef(j, 1) \/ UNCHANGED cRef OBVIOUS
    <3>2. cRef' \in [Jobs -> Int] BY <3>1, AddRefType DEF JobTypes
    <3>3. queue' \in Seq(Jobs) BY WithoutType DEF JobTypes
    <3> QED BY <3>2, <3>3 DEF JobTypes
  <2>3. DeleteTypes' /\ DeletersHaveJobs' /\ schedulerSignal' \in BOOLEAN
    BY <2>1, GoToType, ReturnType DEF DeleteTypes, DelPcs, GlobalTypes
  <2>4. GlobalTypes' BY <1>0, <2>3 DEF GlobalTypes
  <2> QED BY <1>0, <2>2, <2>3, <2>4
<1>7. CASE DeleteJobLogged(t)
  <2> USE <1>7 DEF DeleteJobLogged, Reentering
  <2>1. j \in Jobs BY DEF DeletersHaveJobs
  <2>2. JobTypes' BY AddRefType DEF JobTypes
  <2>3. DeleteTypes' /\ DeletersHaveJobs' BY <2>1, GoToType DEF DeleteTypes, DelPcs
  <2>4. GlobalTypes' BY <1>0 DEF GlobalTypes
  <2> QED BY <1>0, <2>2, <2>3, <2>4
<1>8. CASE DeleteJobFree(t)
  <2> USE DEF DeleteJobFree, Deleting
  <2>1. j \in Jobs BY <1>8 DEF DeletersHaveJobs
  <2>2. JobTypes'
    <3> DEFINE f == [job EXCEPT ![j].signature = "freed"]
               g == [f EXCEPT ![j].WaitForWrite = "null"]
    <3>1. job' = [g EXCEPT ![j].NextJobId = NoJob] BY <1>8
    <3>0. job \in [Jobs -> JobRecords] BY DEF JobTypes
    <3> HIDE DEF j
    <3>2. f \in [Jobs -> JobRecords] BY <2>1, <3>0 DEF JobRecords
    <3> HIDE DEF f
    <3>3. g \in [Jobs -> JobRecords] BY <2>1, <3>2 DEF JobRecords
    <3> HIDE DEF g
    <3>4. job' \in [Jobs -> JobRecords] BY <2>1, <3>1, <3>3 DEF JobRecords
    <3> QED BY <1>8, <3>4 DEF JobTypes
  <2>3. DeleteTypes' /\ DeletersHaveJobs'
    <3> DEFINE f == [del EXCEPT ![t].pc = "files"]
    <3>1. del' = [f EXCEPT ![t].job = NoJob] BY <1>8
    <3>2. f \in [Threads -> DelRecords] /\ \A u \in Threads \ {t} : f[u] = del[u]
      BY DEF DeleteTypes, DelRecords, DelPcs
    <3>3. f[t].pc = "files" BY DEF DeleteTypes, DelRecords
    <3> HIDE DEF f
    <3>4. del' \in [Threads -> DelRecords] BY <3>1, <3>2 DEF DelRecords
    <3>5. DeletersHaveJobs' BY <3>1, <3>2, <3>3 DEF DeletersHaveJobs, DelRecords
    <3> QED BY <1>8, <3>4, <3>5 DEF DeleteTypes
  <2>4. GlobalTypes' BY <1>0, <1>8 DEF GlobalTypes
  <2> QED BY <1>0, <1>8, <2>2, <2>3, <2>4
<1>9. CASE DeleteJobFiles(t)
  <2> USE DEF DeleteJobFiles, Reentering
  <2> DEFINE f == [del EXCEPT ![t].pc = "trace"]
             g == [f EXCEPT ![t].next = NoJob]
  <2>1. f \in [Threads -> DelRecords] /\ \A u \in Threads \ {t} : f[u] = del[u]
    BY DEF DeleteTypes, DelRecords, DelPcs
  <2>2. f[t].pc = "trace" BY DEF DeleteTypes, DelRecords
  <2>3. \/ del' = [f EXCEPT ![t].check = FilePooled]
        \/ del' = [g EXCEPT ![t].check = FilePooled]
    BY <1>9
  <2>4. FilePooled \in BOOLEAN BY DEF FilePooled
  <2> HIDE DEF f
  <2>5. g \in [Threads -> DelRecords] /\ \A u \in Threads \ {t} : g[u] = del[u]
    BY <2>1 DEF DelRecords
  <2>6. g[t].pc = "trace" BY <2>1, <2>2 DEF DelRecords
  <2> HIDE DEF g
  <2>7. del' \in [Threads -> DelRecords] BY <2>1, <2>3, <2>4, <2>5 DEF DelRecords
  <2>8. DeletersHaveJobs' BY <2>1, <2>2, <2>3, <2>5, <2>6 DEF DeletersHaveJobs, DelRecords
  <2>9. JobTypes'
    <3>1. cRef' \in [Jobs -> Int] BY <1>9, AddRefType DEF JobTypes
    <3> QED BY <1>9, <3>1 DEF JobTypes
  <2>10. GlobalTypes' BY <1>0, <1>9 DEF GlobalTypes
  <2> QED BY <1>0, <1>9, <2>7, <2>8, <2>9, <2>10 DEF DeleteTypes
<1>10. CASE DeleteJobTraced(t)
  <2> USE <1>10 DEF DeleteJobTraced, Reentering
  <2> DEFINE n == del[t].next
             f == [del EXCEPT ![t].pc = "start"]
             g == [f EXCEPT ![t].job = n]
  <2>1. JobTypes' BY AddRefType DEF JobTypes
  <2>2. CASE n = NoJob
    BY <1>0, <2>1, <2>2, ReturnType DEF GlobalTypes
  <2>3. CASE n # NoJob
    <3>1. del' = [g EXCEPT ![t].next = NoJob] BY <2>3
    <3>2. n \in Jobs BY <1>b, <2>3
    <3>3. f \in [Threads -> DelRecords] /\ \A u \in Threads \ {t} : f[u] = del[u]
      BY DEF DeleteTypes, DelRecords, DelPcs
    <3> HIDE DEF f, n
    <3>4. g \in [Threads -> DelRecords] /\ \A u \in Threads \ {t} : g[u] = del[u]
      BY <3>2, <3>3 DEF DelRecords
    <3>5. g[t].job = n BY <3>3 DEF DelRecords
    <3> HIDE DEF g
    <3>6. del' \in [Threads -> DelRecords] BY <3>1, <3>4 DEF DelRecords
    <3>7. DeletersHaveJobs' BY <3>1, <3>2, <3>4, <3>5 DEF DeletersHaveJobs, DelRecords
    <3> QED BY <1>0, <2>1, <2>3, <3>6, <3>7 DEF DeleteTypes, GlobalTypes, n
  <2> QED BY <2>2, <2>3
<1> QED
  BY <1>1, <1>2, <1>3, <1>4, <1>5, <1>6, <1>7, <1>8, <1>9, <1>10 DEF DeleteJob

----------------------------------------------------------------------------
(* The application's thread.                                               *)

\* What WritePrinter does to the lengths of a job stays within its fields.
LEMMA WritePrinterType ==
  ASSUME job \in [Jobs -> JobRecords], Queued \subseteq Jobs, NEW j \in Jobs, WritePrinter(j)
  PROVE  job' \in [Jobs -> JobRecords]
<1> DEFINE next == job[j].NextJobId
           chained == IF next \in Queued THEN job[next].Size ELSE 0
<1>1. PICK length \in Lengths :
        /\ length > job[j].data
        /\ job' = [job EXCEPT ![j].data = length, ![j].Size = Capped(length + chained),
                              ![j].unread = @ + (length - job[j].data),
                              ![j].WaitForWrite = IF @ = "null" THEN "null" ELSE "set"]
  BY DEF WritePrinter
<1> DEFINE size == Capped(length + chained)
           n == job[j].unread + (length - job[j].data)
           w == IF job[j].WaitForWrite = "null" THEN "null" ELSE "set"
           f == [job EXCEPT ![j].data = length]
           g == [f EXCEPT ![j].Size = size]
           h == [g EXCEPT ![j].unread = n]
<1>2. length \in Sizes /\ job[j].data \in Sizes /\ job[j].unread \in Nat
  BY ConstantsAssumption DEF ConstantsAssumption, JobRecords
<1>9. chained \in Sizes
  <2>1. CASE next \in Queued BY <2>1 DEF JobRecords
  <2>2. CASE next \notin Queued BY <2>2 DEF Sizes, MaxSize, dwFastPrintSlowDownThreshold
  <2> QED BY <2>1, <2>2
<1> HIDE DEF next, chained
<1>3. size \in Sizes /\ n \in Nat
  BY <1>1, <1>2, <1>9 DEF Sizes, Capped, MaxSize, dwFastPrintSlowDownThreshold
<1>4. job' = [h EXCEPT ![j].WaitForWrite = w] BY <1>1
<1>5. w \in {"null", "reset", "set"} OBVIOUS
<1>6. f \in [Jobs -> JobRecords] BY <1>2 DEF JobRecords
<1> HIDE DEF f, size, n, w
<1>7. g \in [Jobs -> JobRecords] BY <1>3, <1>6 DEF JobRecords
<1> HIDE DEF g
<1>8. h \in [Jobs -> JobRecords] BY <1>3, <1>7 DEF JobRecords
<1> HIDE DEF h
<1> QED BY <1>4, <1>5, <1>8 DEF JobRecords

\* Every call of an application keeps every type.
LEMMA ApplicationTypes ==
  ASSUME TypeInv, NEW j \in Jobs, Application(j)
  PROVE  TypeInv'
<1> USE DEF TypeInv, TypeOK
<1>j. job \in [Jobs -> JobRecords] BY DEF JobTypes
<1>t. j \in Threads BY DEF Threads
<1>0. ASSUME AppFrame
      PROVE  /\ ListTypes' /\ ClientsHaveJobs' /\ PortsHaveJobs'
             /\ app' \in [Jobs -> AppPcs] => ThreadTypes'
             /\ schedulerSignal' \in BOOLEAN => GlobalTypes'
  BY <1>0 DEF AppFrame, listVars, ListTypes, ThreadTypes, ClientsHaveJobs, PortsHaveJobs, GlobalTypes
<1>1. CASE StartDocPrinter(j)
  <2>1. job' \in [Jobs -> JobRecords] BY <1>1, <1>j, ZenonT(30) DEF StartDocPrinter, JobRecords
  <2>2. JobTypes' BY <1>1, <2>1 DEF StartDocPrinter, JobTypes, Flags
  <2>3. app' \in [Jobs -> AppPcs] BY <1>1 DEF StartDocPrinter, ThreadTypes, AppPcs
  <2>4. DeleteTypes' /\ DeletersHaveJobs' BY <1>1 DEF StartDocPrinter, DeleteTypes, DeletersHaveJobs
  <2> QED BY <1>0, <1>1, <2>2, <2>3, <2>4 DEF StartDocPrinter
<1>2. CASE WritePrinter(j)
  <2>0. Queued \subseteq Jobs BY DEF Queued, JobTypes
  <2>1. job' \in [Jobs -> JobRecords] BY <1>2, <1>j, <2>0, WritePrinterType
  <2>2. JobTypes' BY <1>2, <2>1 DEF WritePrinter, JobTypes
  <2>3. schedulerSignal' \in BOOLEAN /\ app' \in [Jobs -> AppPcs]
    BY <1>2 DEF WritePrinter, ThreadTypes, GlobalTypes
  <2>4. DeleteTypes' /\ DeletersHaveJobs' BY <1>2 DEF WritePrinter, DeleteTypes, DeletersHaveJobs
  <2> QED BY <1>0, <1>2, <2>2, <2>3, <2>4 DEF WritePrinter
<1>3. CASE AbortPrinter(j)
  <2>1. JobTypes' BY <1>3 DEF AbortPrinter, JobTypes, Flags
  <2>2. app' \in [Jobs -> AppPcs] /\ schedulerSignal' \in BOOLEAN
    BY <1>3 DEF AbortPrinter, ThreadTypes, AppPcs, GlobalTypes
  <2>3. DeleteTypes' /\ DeletersHaveJobs' BY <1>3 DEF AbortPrinter, DeleteTypes, DeletersHaveJobs
  <2> QED BY <1>0, <1>3, <2>1, <2>2, <2>3 DEF AbortPrinter
<1>4. CASE EndDocPrinter(j)
  <2>1. job' \in [Jobs -> JobRecords] BY <1>4, <1>j DEF EndDocPrinter, JobRecords
  <2>2. JobTypes' BY <1>4, <2>1 DEF EndDocPrinter, JobTypes
  <2>3. app' \in [Jobs -> AppPcs] /\ schedulerSignal' \in BOOLEAN
    BY <1>4 DEF EndDocPrinter, ThreadTypes, AppPcs, GlobalTypes
  <2>4. DeleteTypes' /\ DeletersHaveJobs'
    BY <1>4, <1>t DEF EndDocPrinter, DeleteTypes, DeletersHaveJobs
  <2> QED BY <1>0, <1>4, <2>2, <2>3, <2>4 DEF EndDocPrinter
<1>5. CASE EndDocRelease(j)
  <2>0. AddRef(j, -1) \/ UNCHANGED cRef BY <1>5 DEF EndDocRelease
  <2>1. cRef' \in [Jobs -> Int] BY <2>0, AddRefType DEF JobTypes
  <2>2. JobTypes' BY <1>5, <2>1 DEF EndDocRelease, JobTypes
  <2>3. app' \in [Jobs -> AppPcs] /\ schedulerSignal' \in BOOLEAN
    BY <1>5 DEF EndDocRelease, ThreadTypes, AppPcs, GlobalTypes
  <2>4. DeleteTypes' /\ DeletersHaveJobs'
    BY <1>5, <1>t, CallType DEF EndDocRelease, DeleteTypes, DeletersHaveJobs
  <2> QED BY <1>0, <1>5, <2>2, <2>3, <2>4 DEF EndDocRelease
<1>6. CASE EndDocLogged(j)
  <2>1. JobTypes' BY <1>6, AddRefType DEF EndDocLogged, JobTypes
  <2>2. app' \in [Jobs -> AppPcs] /\ schedulerSignal' \in BOOLEAN
    BY <1>6 DEF EndDocLogged, ThreadTypes, AppPcs, GlobalTypes
  <2>3. DeleteTypes' /\ DeletersHaveJobs' BY <1>6, <1>t, DeleteJobCheckType DEF EndDocLogged
  <2> QED BY <1>0, <1>6, <2>1, <2>2, <2>3 DEF EndDocLogged
<1> QED BY <1>1, <1>2, <1>3, <1>4, <1>5, <1>6 DEF Application

----------------------------------------------------------------------------
(* The clients.                                                            *)

\* A client that has found its job is well-typed.
LEMMA BeginType ==
  ASSUME client \in [Clients -> ClientRecords], ClientsHaveJobs, NEW c \in Clients,
         NEW pc \in ClientPcs \ {"capture"}, NEW j \in Jobs, NEW command \in AllCommands,
         Begin(c, pc, j, command)
  PROVE  client' \in [Clients -> ClientRecords] /\ ClientsHaveJobs'
BY DEF Begin, ClientRecords, ClientsHaveJobs

\* ... as is one that goes on to another place of its call,
LEMMA ClientGoesToType ==
  ASSUME client \in [Clients -> ClientRecords], ClientsHaveJobs, NEW c \in Clients,
         NEW pc \in ClientPcs \ {"capture"}, client[c].pc # "idle", ClientGoesTo(c, pc)
  PROVE  client' \in [Clients -> ClientRecords] /\ ClientsHaveJobs'
BY DEF ClientGoesTo, ClientRecords, ClientsHaveJobs

\* ... or has returned.
LEMMA NoCallType ==
  ASSUME client \in [Clients -> ClientRecords], ClientsHaveJobs, NEW c \in Clients,
         client' = [client EXCEPT ![c] = NoCall]
  PROVE  client' \in [Clients -> ClientRecords] /\ ClientsHaveJobs'
BY DEF NoCall, ClientRecords, ClientsHaveJobs, ClientPcs

\* Every stretch of SetJob and SetPrinter keeps every type.
LEMMA ClientTypes ==
  ASSUME TypeInv, NEW c \in Clients, Client(c)
  PROVE  TypeInv'
<1> USE DEF TypeInv, TypeOK
<1>j. job \in [Jobs -> JobRecords] BY DEF JobTypes
<1>c. client \in [Clients -> ClientRecords] /\ commands \in 0 .. MaxCommands
  BY DEF ThreadTypes
<1>p. port \in [Ports -> PortRecords] BY DEF GlobalTypes
<1>t. c \in Threads BY DEF Threads
<1>m. commands < MaxCommands => commands + 1 \in 0 .. MaxCommands
  BY <1>c, ConstantsAssumption DEF ConstantsAssumption
<1>0. ASSUME ClientFrame
      PROVE  /\ ListTypes' /\ PortsHaveJobs'
             /\ client' \in [Clients -> ClientRecords] /\ commands' \in 0 .. MaxCommands => ThreadTypes'
             /\ schedulerSignal' \in BOOLEAN /\ port' \in [Ports -> PortRecords] => GlobalTypes'
  BY <1>0 DEF ClientFrame, listVars, ListTypes, ThreadTypes, PortsHaveJobs, GlobalTypes
<1>1. ASSUME NEW j \in Jobs, NEW command \in AllCommands, SetJobTrace(c, j, command)
      PROVE  TypeInv'
  <2>1. JobTypes' BY <1>1, AddRefType DEF SetJobTrace, SetJob, ClientFrame, JobTypes
  <2>2. client' \in [Clients -> ClientRecords] /\ ClientsHaveJobs'
    BY <1>1, <1>c, BeginType DEF SetJobTrace, ClientPcs
  <2>3. commands' \in 0 .. MaxCommands BY <1>1, <1>m DEF SetJobTrace, SetJob
  <2>4. schedulerSignal' \in BOOLEAN /\ port' \in [Ports -> PortRecords]
    BY <1>1 DEF SetJobTrace, GlobalTypes
  <2>5. DeleteTypes' /\ DeletersHaveJobs' BY <1>1 DEF SetJobTrace, DeleteTypes, DeletersHaveJobs
  <2> QED BY <1>0, <1>1, <2>1, <2>2, <2>3, <2>4, <2>5 DEF SetJobTrace, SetJob
<1>2. ASSUME NEW j \in Jobs, SetJobDelete(c, j)
      PROVE  TypeInv'
  <2>1. job' \in [Jobs -> JobRecords]
    <3>1. 0 \in 0 .. DwordModulus - 1 BY ConstantsAssumption DEF ConstantsAssumption
    <3> QED BY <1>2, <1>j, <3>1 DEF SetJobDelete, JobRecords
  <2>2. JobTypes' BY <1>2, <2>1 DEF SetJobDelete, SetJob, ClientFrame, JobTypes
  <2>3. client' \in [Clients -> ClientRecords] /\ ClientsHaveJobs'
    BY <1>2, <1>c, BeginType DEF SetJobDelete, ClientPcs, AllCommands
  <2>4. commands' \in 0 .. MaxCommands BY <1>2, <1>m DEF SetJobDelete, SetJob
  <2>5. schedulerSignal' \in BOOLEAN /\ port' \in [Ports -> PortRecords]
    BY <1>2 DEF SetJobDelete, GlobalTypes
  <2>6. DeleteTypes' /\ DeletersHaveJobs'
    BY <1>2, <1>t, CallType DEF SetJobDelete, DeleteTypes
  <2> QED BY <1>0, <1>2, <2>2, <2>3, <2>4, <2>5, <2>6 DEF SetJobDelete, SetJob
<1>3. ASSUME NEW j \in Jobs, SetJobCancel(c, j)
      PROVE  TypeInv'
  <2>1. job' \in [Jobs -> JobRecords]
    <3>1. 0 \in 0 .. DwordModulus - 1 BY ConstantsAssumption DEF ConstantsAssumption
    <3>2. job' = job \/ job' = [job EXCEPT ![j].dwJobControlsPending = 0]
      BY <1>3 DEF SetJobCancel
    <3> QED BY <1>j, <3>1, <3>2 DEF JobRecords
  <2>2. Status' \in [Jobs -> SUBSET Flags] BY <1>3 DEF SetJobCancel, JobTypes, Flags
  <2>3. AddRef(j, 1) \/ UNCHANGED cRef BY <1>3 DEF SetJobCancel
  <2>4. JobTypes' BY <1>3, <2>1, <2>2, <2>3, AddRefType DEF SetJobCancel, SetJob, ClientFrame, JobTypes
  <2>5. Begin(c, "alert", j, "CANCEL") \/ Begin(c, "tail", j, "CANCEL")
    BY <1>3 DEF SetJobCancel
  <2>6. client' \in [Clients -> ClientRecords] /\ ClientsHaveJobs'
    BY <2>5, <1>c, BeginType DEF ClientPcs, AllCommands
  <2>7. commands' \in 0 .. MaxCommands BY <1>3, <1>m DEF SetJobCancel, SetJob
  <2>8. schedulerSignal' \in BOOLEAN /\ port' \in [Ports -> PortRecords]
    BY <1>3 DEF SetJobCancel, GlobalTypes
  <2>9. UNCHANGED <<splSem, del>> \/ (Call(c, j, FALSE) /\ splSem' = c)
    BY <1>3 DEF SetJobCancel
  <2>10. DeleteTypes' /\ DeletersHaveJobs'
    BY <2>9, <1>t, CallType DEF DeleteTypes, DeletersHaveJobs
  <2> QED BY <1>0, <1>3, <2>4, <2>6, <2>7, <2>8, <2>10 DEF SetJobCancel, SetJob
<1>4. ASSUME NEW j \in Jobs, NEW n \in Jobs, SetJobChain(c, j, n)
      PROVE  TypeInv'
  <2>1. job' \in [Jobs -> JobRecords]
    <3> DEFINE size == Capped(job[j].Size + job[n].Size)
               f == [job EXCEPT ![j].NextJobId = n]
    <3>1. job' = [f EXCEPT ![j].Size = size] BY <1>4 DEF SetJobChain
    <3>2. f \in [Jobs -> JobRecords] BY <1>j DEF JobRecords
    <3>3. size \in Sizes
      BY <1>j DEF JobRecords, Sizes, Capped, MaxSize, dwFastPrintSlowDownThreshold
    <3> HIDE DEF f, size
    <3> QED BY <3>1, <3>2, <3>3 DEF JobRecords
  <2>2. JobTypes' BY <1>4, <2>1, AddRefType DEF SetJobChain, SetJob, ClientFrame, JobTypes, Flags
  <2>3. commands' \in 0 .. MaxCommands /\ client' \in [Clients -> ClientRecords] /\ ClientsHaveJobs'
    BY <1>4, <1>m, <1>c DEF SetJobChain, SetJob, ClientsHaveJobs
  <2>4. schedulerSignal' \in BOOLEAN /\ port' \in [Ports -> PortRecords]
    BY <1>4, <1>p DEF SetJobChain
  <2>5. DeleteTypes' /\ DeletersHaveJobs'
    BY <1>4, <1>t, DeleteJobCheckType DEF SetJobChain
  <2> QED BY <1>0, <1>4, <2>2, <2>3, <2>4, <2>5 DEF SetJobChain, SetJob
<1>5. CASE SetPrinterUnblock(c)
  <2>1. Status' \in [Jobs -> SUBSET Flags] BY <1>5 DEF SetPrinterUnblock, JobTypes
  <2>2. JobTypes' BY <1>5, <2>1 DEF SetPrinterUnblock, ClientFrame, JobTypes
  <2>3. commands' \in 0 .. MaxCommands /\ client' \in [Clients -> ClientRecords] /\ ClientsHaveJobs'
    BY <1>5, <1>m, <1>c DEF SetPrinterUnblock, ClientsHaveJobs
  <2>4. schedulerSignal' \in BOOLEAN /\ port' \in [Ports -> PortRecords]
    BY <1>5, <1>p DEF SetPrinterUnblock
  <2>5. DeleteTypes' /\ DeletersHaveJobs'
    BY <1>5 DEF SetPrinterUnblock, DeleteTypes, DeletersHaveJobs
  <2> QED BY <1>0, <1>5, <2>2, <2>3, <2>4, <2>5 DEF SetPrinterUnblock
<1>6. CASE SetJobAlerted(c)
  <2> DEFINE j == client[c].job
  <2>1. j \in Jobs BY <1>6 DEF SetJobAlerted, ClientsHaveJobs
  <2>2. job' \in [Jobs -> JobRecords]
    <3>1. 0 \in 0 .. DwordModulus - 1 BY ConstantsAssumption DEF ConstantsAssumption
    <3>2. job' = [job EXCEPT ![j].dwJobControlsPending = 0] BY <1>6 DEF SetJobAlerted
    <3> HIDE DEF j
    <3> QED BY <1>j, <2>1, <3>1, <3>2 DEF JobRecords
  <2>3. JobTypes' BY <1>6, <2>2, AddRefType DEF SetJobAlerted, ClientFrame, JobTypes, Flags
  <2>4. client' \in [Clients -> ClientRecords] /\ ClientsHaveJobs'
    BY <1>6, <1>c, ClientGoesToType DEF SetJobAlerted, ClientPcs
  <2>5. commands' \in 0 .. MaxCommands /\ schedulerSignal' \in BOOLEAN /\ port' \in [Ports -> PortRecords]
    BY <1>6, <1>c, <1>p DEF SetJobAlerted, GlobalTypes
  <2>6. DeleteTypes' /\ DeletersHaveJobs'
    BY <1>6, <1>t, <2>1, CallType DEF SetJobAlerted, DeleteTypes
  <2> QED BY <1>0, <1>6, <2>3, <2>4, <2>5, <2>6 DEF SetJobAlerted
<1>7. CASE PauseOrResumeJob(c)
  <2> DEFINE j == client[c].job
             p == job[j].pIniPort
             f == [client EXCEPT ![c].pc = "capture"]
  <2>1. j \in Jobs /\ client[c].pc # "idle" BY <1>7 DEF PauseOrResumeJob, ClientsHaveJobs
  <2>2. JobTypes' BY <1>7 DEF PauseOrResumeJob, ClientFrame, JobTypes, Flags
  <2>3. client' = [f EXCEPT ![c].port = p] \/ ClientGoesTo(c, "log")
    BY <1>7 DEF PauseOrResumeJob
  <2>7. client[c].command \in {"PAUSE", "RESUME"} BY <1>7 DEF PauseOrResumeJob
  <2>4. client' \in [Clients -> ClientRecords] /\ ClientsHaveJobs'
    <3>1. CASE ClientGoesTo(c, "log") BY <3>1, <2>1, <1>c, ClientGoesToType DEF ClientPcs
    <3>2. CASE client' = [f EXCEPT ![c].port = p]
      <4>1. p \in Ports \cup {NoPort} BY <2>1, <1>j DEF JobRecords
      <4>2. f \in [Clients -> ClientRecords] /\ \A d \in Clients \ {c} : f[d] = client[d]
        BY <1>c DEF ClientRecords, ClientPcs
      <4>3. f[c].job = j /\ f[c].command = client[c].command BY <1>c DEF ClientRecords
      <4> HIDE DEF f, p, j
      <4>4. client' \in [Clients -> ClientRecords] BY <3>2, <4>1, <4>2 DEF ClientRecords
      <4>5. ClientsHaveJobs' BY <3>2, <4>2, <4>3, <2>1, <2>7 DEF ClientsHaveJobs, ClientRecords
      <4> QED BY <4>4, <4>5
    <3> QED BY <2>3, <3>1, <3>2
  <2>5. commands' \in 0 .. MaxCommands /\ schedulerSignal' \in BOOLEAN /\ port' \in [Ports -> PortRecords]
    BY <1>7, <1>c, <1>p DEF PauseOrResumeJob, GlobalTypes
  <2>6. DeleteTypes' /\ DeletersHaveJobs'
    BY <1>7 DEF PauseOrResumeJob, DeleteTypes, DeletersHaveJobs
  <2> QED BY <1>0, <1>7, <2>2, <2>4, <2>5, <2>6 DEF PauseOrResumeJob
<1>8. CASE PauseOrResumePort(c)
  <2> DEFINE p == client[c].port
             command == client[c].command
  <2>1. client[c].pc # "idle" BY <1>8 DEF PauseOrResumePort
  <2>2. JobTypes' BY <1>8 DEF PauseOrResumePort, ClientFrame, JobTypes
  <2>3. ClientGoesTo(c, "control") \/ ClientGoesTo(c, "log") BY <1>8 DEF PauseOrResumePort
  <2>4. client' \in [Clients -> ClientRecords] /\ ClientsHaveJobs'
    BY <2>1, <2>3, <1>c, ClientGoesToType DEF ClientPcs
  <2>5. port' \in [Ports -> PortRecords]
    <3>1. \/ port' = [port EXCEPT ![p].InCriticalSection = @ \cup {command}]
          \/ port' = [port EXCEPT ![p].InCriticalSection = @ \ {command}]
      BY <1>8 DEF PauseOrResumePort
    <3>2. command \in {"PAUSE", "RESUME"} BY <1>8 DEF PauseOrResumePort, ClientsHaveJobs
    <3>3. CASE p \in Ports
      <4> HIDE DEF p, command
      <4> QED BY <1>p, <3>1, <3>2, <3>3 DEF PortRecords
    <3>4. CASE p \notin Ports
      <4> HIDE DEF p, command
      <4> QED BY <1>p, <3>1, <3>4
    <3> QED BY <3>3, <3>4
  <2>6. commands' \in 0 .. MaxCommands /\ schedulerSignal' \in BOOLEAN
    BY <1>8, <1>c DEF PauseOrResumePort, GlobalTypes
  <2>7. DeleteTypes' /\ DeletersHaveJobs'
    BY <1>8 DEF PauseOrResumePort, DeleteTypes, DeletersHaveJobs
  <2> QED BY <1>0, <1>8, <2>2, <2>4, <2>5, <2>6, <2>7 DEF PauseOrResumePort
<1>9. CASE ControlPrintProcessor(c)
  <2> DEFINE p == client[c].port
             command == client[c].command
             h == CASE port[p].hProc = "running" /\ command = "PAUSE"  -> "paused"
                    [] port[p].hProc = "paused"  /\ command = "RESUME" -> "running"
                    [] OTHER -> port[p].hProc
             s == port[p].InCriticalSection \ {command}
             f == [port EXCEPT ![p].hProc = h]
  <2>1. client[c].pc # "idle" BY <1>9 DEF ControlPrintProcessor
  <2>2. JobTypes' BY <1>9 DEF ControlPrintProcessor, ClientFrame, JobTypes
  <2>3. client' \in [Clients -> ClientRecords] /\ ClientsHaveJobs'
    BY <1>9, <2>1, <1>c, ClientGoesToType DEF ControlPrintProcessor, ClientPcs
  <2>4. port' = [f EXCEPT ![p].InCriticalSection = s] BY <1>9 DEF ControlPrintProcessor
  <2>5. port' \in [Ports -> PortRecords]
    <3>1. CASE p \in Ports
      <4> HIDE DEF p, command
      <4>1. h \in {"closed", "running", "paused", "aborted"} BY <1>p, <3>1 DEF PortRecords
      <4>2. s \in SUBSET {"PAUSE", "RESUME", "CANCEL"} BY <1>p, <3>1 DEF PortRecords
      <4> HIDE DEF h, s
      <4>3. f \in [Ports -> PortRecords] BY <1>p, <3>1, <4>1 DEF PortRecords
      <4> HIDE DEF f
      <4> QED BY <2>4, <3>1, <4>2, <4>3 DEF PortRecords
    <3>2. CASE p \notin Ports
      <4> HIDE DEF p, command, h, s
      <4>1. f = port BY <1>p, <3>2
      <4> HIDE DEF f
      <4> QED BY <1>p, <2>4, <3>2, <4>1
    <3> QED BY <3>1, <3>2
  <2>6. commands' \in 0 .. MaxCommands /\ schedulerSignal' \in BOOLEAN
    BY <1>9, <1>c DEF ControlPrintProcessor, GlobalTypes
  <2>7. DeleteTypes' /\ DeletersHaveJobs'
    BY <1>9 DEF ControlPrintProcessor, DeleteTypes, DeletersHaveJobs
  <2> QED BY <1>0, <1>9, <2>2, <2>3, <2>5, <2>6, <2>7 DEF ControlPrintProcessor
<1>10. CASE PauseOrResumeLogged(c)
  <2>1. client[c].pc # "idle" BY <1>10 DEF PauseOrResumeLogged
  <2>2. JobTypes' BY <1>10, AddRefType DEF PauseOrResumeLogged, ClientFrame, JobTypes
  <2>3. client' \in [Clients -> ClientRecords] /\ ClientsHaveJobs'
    BY <2>1, <1>10, <1>c, ClientGoesToType DEF ClientPcs, PauseOrResumeLogged
  <2>4. commands' \in 0 .. MaxCommands /\ schedulerSignal' \in BOOLEAN /\ port' \in [Ports -> PortRecords]
    BY <1>10, <1>c, <1>p DEF PauseOrResumeLogged, GlobalTypes
  <2>5. DeleteTypes' /\ DeletersHaveJobs'
    BY <1>10, <1>t DEF PauseOrResumeLogged, DeleteTypes, DeletersHaveJobs
  <2> QED BY <1>0, <1>10, <2>2, <2>3, <2>4, <2>5 DEF PauseOrResumeLogged
<1>11. CASE RestartJob(c)
  <2> DEFINE j == client[c].job
             p == job[j].pIniPort
  <2>1. j \in Jobs /\ client[c].pc # "idle" BY <1>11 DEF RestartJob, ClientsHaveJobs
  <2>2. Status' \in [Jobs -> SUBSET Flags] BY <1>11 DEF RestartJob, JobTypes, Flags
  <2>3. JobTypes' BY <1>11, <2>2, AddRefType DEF RestartJob, ClientFrame, JobTypes
  <2>4. client' = [client EXCEPT ![c] = NoCall] \/ ClientGoesTo(c, "tail") BY <1>11 DEF RestartJob
  <2>5. client' \in [Clients -> ClientRecords] /\ ClientsHaveJobs'
    BY <2>1, <2>4, <1>c, ClientGoesToType, NoCallType DEF ClientPcs
  <2>6. port' = port \/ port' = [port EXCEPT ![p].InCriticalSection = {}]
    BY <1>11 DEF RestartJob
  <2>7. port' \in [Ports -> PortRecords] BY <2>6, <1>p DEF PortRecords
  <2>8. commands' \in 0 .. MaxCommands BY <1>11, <1>c DEF RestartJob
  <2>9. schedulerSignal' \in BOOLEAN BY <1>11 DEF RestartJob, GlobalTypes
  <2>10. DeleteJobCheckAndLeave(c, j) \/ (splSem' = c /\ UNCHANGED del) BY <1>11 DEF RestartJob
  <2>11. DeleteTypes' /\ DeletersHaveJobs'
    BY <2>1, <2>10, <1>t, DeleteJobCheckType DEF DeleteTypes, DeletersHaveJobs
  <2> QED BY <1>0, <1>11, <2>3, <2>5, <2>7, <2>8, <2>9, <2>11 DEF RestartJob
<1>12. CASE SetJobTail(c)
  <2> DEFINE j == client[c].job
  <2>1. j \in Jobs BY <1>12 DEF SetJobTail, ClientsHaveJobs
  <2>2. JobTypes' BY <1>12 DEF SetJobTail, ClientFrame, JobTypes
  <2>3. client' \in [Clients -> ClientRecords] /\ ClientsHaveJobs'
    BY <1>12, <1>c, NoCallType DEF SetJobTail
  <2>4. commands' \in 0 .. MaxCommands /\ schedulerSignal' \in BOOLEAN /\ port' \in [Ports -> PortRecords]
    BY <1>12, <1>c, <1>p DEF SetJobTail, GlobalTypes
  <2>5. DeleteJobCheckAndLeave(c, j) \/ (splSem' = NoThread /\ UNCHANGED del)
    BY <1>12 DEF SetJobTail
  <2>6. DeleteTypes' /\ DeletersHaveJobs'
    BY <2>1, <2>5, <1>t, DeleteJobCheckType DEF DeleteTypes, DeletersHaveJobs
  <2> QED BY <1>0, <1>12, <2>2, <2>3, <2>4, <2>6 DEF SetJobTail
<1> QED
  BY <1>1, <1>2, <1>3, <1>4, <1>5, <1>6, <1>7, <1>8, <1>9, <1>10, <1>11, <1>12 DEF Client
----------------------------------------------------------------------------
(* The port threads.                                                       *)

\* A port's thread that goes on to another place is well-typed.
LEMMA PortGoesToType ==
  ASSUME pt \in [Ports -> PtRecords], PortsHaveJobs, NEW p \in Ports, NEW pc \in PortPcs,
         PortGoesTo(p, pc), pc \in Jobless \/ pt[p].job \in Jobs
  PROVE  pt' \in [Ports -> PtRecords] /\ PortsHaveJobs'
BY DEF PortGoesTo, PtRecords, PortsHaveJobs

\* Taking the port's semaphore leaves a well-typed port.
LEMMA SemaphoreType ==
  ASSUME NEW f \in [Ports -> PortRecords], NEW p \in Ports
  PROVE  [f EXCEPT ![p].Semaphore = FALSE] \in [Ports -> PortRecords]
<1> DEFINE b == FALSE
<1>1. b \in BOOLEAN OBVIOUS
<1> HIDE DEF b
<1>2. [f EXCEPT ![p].Semaphore = b] \in [Ports -> PortRecords] BY <1>1 DEF PortRecords
<1> QED BY <1>2 DEF b

\* A job that was sent to the printer is deleted as any other is.
LEMMA DeleteSentJobType ==
  ASSUME DeleteTypes, DeletersHaveJobs, NEW p \in Threads, NEW j \in Jobs, DeleteSentJob(p, j)
  PROVE  del' \in [Threads -> DelRecords] /\ DeletersHaveJobs'
BY CallType DEF DeleteSentJob, DeleteTypes, DeletersHaveJobs

\* Every stretch of a port's thread keeps every type.
LEMMA PortThreadTypes ==
  ASSUME TypeInv, NEW p \in Ports, PortThread(p)
  PROVE  TypeInv'
<1> USE DEF TypeInv, TypeOK
<1>j. job \in [Jobs -> JobRecords] BY DEF JobTypes
<1>p. port \in [Ports -> PortRecords] BY DEF GlobalTypes
<1>a. pt \in [Ports -> PtRecords] /\ PortsHaveJobs BY DEF ThreadTypes
<1>h. pt[p].pc \notin Jobless => pt[p].job \in Jobs BY DEF PortsHaveJobs
<1>t. p \in Threads BY DEF Threads
<1>0. ASSUME PortFrame
      PROVE  ClientsHaveJobs' /\ (pt' \in [Ports -> PtRecords] => ThreadTypes')
  BY <1>0 DEF PortFrame, ThreadTypes, ClientsHaveJobs
<1>1. CASE PortThreadWaits(p)
  <2>1. JobTypes' BY <1>1 DEF PortThreadWaits, PortFrame, JobTypes
  <2>2. ListTypes' BY <1>1 DEF PortThreadWaits, listVars, ListTypes
  <2>3. GlobalTypes' BY <1>1 DEF PortThreadWaits, GlobalTypes, PortRecords
  <2>4. pt' \in [Ports -> PtRecords] /\ PortsHaveJobs'
    BY <1>1, <1>a, PortGoesToType DEF PortThreadWaits, PortPcs, Jobless
  <2>5. DeleteTypes' /\ DeletersHaveJobs'
    BY <1>1, <1>t DEF PortThreadWaits, DeleteTypes, DeletersHaveJobs
  <2> QED BY <1>0, <1>1, <2>1, <2>2, <2>3, <2>4, <2>5 DEF PortThreadWaits
<1>2. CASE PortThreadExits(p)
  <2>1. JobTypes' BY <1>2 DEF PortThreadExits, PortFrame, JobTypes
  <2>2. ListTypes' BY <1>2 DEF PortThreadExits, listVars, ListTypes
  <2>3. GlobalTypes'
    <3> DEFINE s == port[p].Status \ {"THREADRUNNING", "WAITING"}
               f == [port EXCEPT ![p].Status = s]
    <3>1. port' = [f EXCEPT ![p].Semaphore = FALSE] BY <1>2 DEF PortThreadExits
    <3>2. s \in SUBSET {"RUNTHREAD", "THREADRUNNING", "WAITING"} BY <1>p DEF PortRecords
    <3> HIDE DEF s
    <3>3. f \in [Ports -> PortRecords] BY <1>p, <3>2 DEF PortRecords
    <3> HIDE DEF f
    <3>4. port' \in [Ports -> PortRecords] BY <3>1, <3>3, SemaphoreType
    <3> QED BY <1>2, <3>4 DEF PortThreadExits, globalVars, GlobalTypes
  <2>4. pt' \in [Ports -> PtRecords] /\ PortsHaveJobs'
    BY <1>2, <1>a, PortGoesToType DEF PortThreadExits, PortPcs, Jobless
  <2>5. DeleteTypes' /\ DeletersHaveJobs'
    BY <1>2 DEF PortThreadExits, DeleteTypes, DeletersHaveJobs
  <2> QED BY <1>0, <1>2, <2>1, <2>2, <2>3, <2>4, <2>5 DEF PortThreadExits
<1>3. CASE PortThreadTakes(p)
  <2>1. JobTypes' BY <1>3, AddRefType DEF PortThreadTakes, PortFrame, JobTypes
  <2>2. ListTypes' BY <1>3 DEF PortThreadTakes, listVars, ListTypes
  <2>3. GlobalTypes'
    <3>1. port' \in [Ports -> PortRecords] BY <1>3, <1>p, SemaphoreType DEF PortThreadTakes
    <3> QED BY <1>3, <3>1 DEF PortThreadTakes, globalVars, GlobalTypes
  <2>4. pt' \in [Ports -> PtRecords] /\ PortsHaveJobs'
    <3>1. port[p].pIniJob \in Jobs BY <1>3, <1>p DEF PortThreadTakes, PortRecords
    <3> QED BY <1>3, <1>a, <3>1 DEF PortThreadTakes, PortThreadAt, PtRecords, PortPcs, PortsHaveJobs
  <2>5. DeleteTypes' /\ DeletersHaveJobs'
    BY <1>3 DEF PortThreadTakes, DeleteTypes, DeletersHaveJobs
  <2> QED BY <1>0, <1>3, <2>1, <2>2, <2>3, <2>4, <2>5 DEF PortThreadTakes
<1>4. CASE PortThreadBegins(p)
  <2>1. JobTypes'
    <3>1. Status' \in [Jobs -> SUBSET Flags] BY <1>4 DEF PortThreadBegins, JobTypes
    <3>2. cRef' \in [Jobs -> Int] BY <1>4, AddRefType DEF PortThreadBegins, JobTypes
    <3> QED BY <1>4, <3>1, <3>2 DEF PortThreadBegins, PortFrame, JobTypes
  <2>2. ListTypes' BY <1>4 DEF PortThreadBegins, listVars, ListTypes
  <2>3. GlobalTypes' BY <1>4 DEF PortThreadBegins, globalVars, GlobalTypes
  <2>4. pt' \in [Ports -> PtRecords] /\ PortsHaveJobs'
    BY <1>4, <1>a, <1>h, PortGoesToType DEF PortThreadBegins, PortAt, PortPcs, Jobless
  <2>5. DeleteTypes' /\ DeletersHaveJobs'
    BY <1>4 DEF PortThreadBegins, DeleteTypes, DeletersHaveJobs
  <2> QED BY <1>0, <1>4, <2>1, <2>2, <2>3, <2>4, <2>5 DEF PortThreadBegins
<1>5. CASE DevQueryPrint(p)
  <2>1. JobTypes' BY <1>5 DEF DevQueryPrint, PortFrame, JobTypes
  <2>2. ListTypes' BY <1>5 DEF DevQueryPrint, listVars, ListTypes
  <2>3. GlobalTypes' BY <1>5 DEF DevQueryPrint, globalVars, GlobalTypes
  <2>4. pt' \in [Ports -> PtRecords] /\ PortsHaveJobs'
    <3>1. pt[p].job \in Jobs BY <1>5, <1>h DEF DevQueryPrint, Jobless
    <3> DEFINE f == [pt EXCEPT ![p].pc = "post"]
    <3>2. CASE PortGoesTo(p, "open") BY <3>1, <3>2, <1>a, PortGoesToType DEF PortPcs
    <3>3. CASE pt' = [f EXCEPT ![p].devq = FALSE]
      <4>1. f \in [Ports -> PtRecords] /\ f[p].job \in Jobs /\ \A q \in Ports \ {p} : f[q] = pt[q]
        BY <1>a, <3>1 DEF PtRecords, PortPcs
      <4> HIDE DEF f
      <4>2. pt' \in [Ports -> PtRecords] BY <3>3, <4>1, ZenonT(60) DEF PtRecords
      <4>3. PortsHaveJobs' BY <1>a, <3>3, <4>1 DEF PortsHaveJobs, PtRecords
      <4> QED BY <4>2, <4>3
    <3> QED BY <1>5, <3>2, <3>3 DEF DevQueryPrint
  <2>5. DeleteTypes' /\ DeletersHaveJobs'
    BY <1>5 DEF DevQueryPrint, DeleteTypes, DeletersHaveJobs
  <2> QED BY <1>0, <1>5, <2>1, <2>2, <2>3, <2>4, <2>5 DEF DevQueryPrint
<1>6. CASE OpenPrintProcessor(p)
  <2>1. JobTypes' BY <1>6 DEF OpenPrintProcessor, PortFrame, JobTypes, Flags
  <2>2. ListTypes' BY <1>6 DEF OpenPrintProcessor, listVars, ListTypes
  <2>3. GlobalTypes' BY <1>6 DEF OpenPrintProcessor, globalVars, GlobalTypes, PortRecords
  <2>4. pt' \in [Ports -> PtRecords] /\ PortsHaveJobs'
    BY <1>6, <1>a, <1>h, PortGoesToType DEF OpenPrintProcessor, PortAt, PortPcs, Jobless
  <2>5. DeleteTypes' /\ DeletersHaveJobs'
    BY <1>6 DEF OpenPrintProcessor, DeleteTypes, DeletersHaveJobs
  <2> QED BY <1>0, <1>6, <2>1, <2>2, <2>3, <2>4, <2>5 DEF OpenPrintProcessor
<1>7. CASE PrintRawJob(p)
  <2>1. JobTypes'
    <3> DEFINE src == Source(pt[p].job)
    <3>1. job' = job \/ job' = [job EXCEPT ![src].unread = job[src].data]
      BY <1>7 DEF PrintRawJob
    <3>2. job' \in [Jobs -> JobRecords]
      <4> HIDE DEF src
      <4>1. src \in Jobs => job[src].data \in Nat
        BY <1>j DEF JobRecords, Sizes, MaxSize, dwFastPrintSlowDownThreshold
      <4>2. CASE src \in Jobs BY <1>j, <3>1, <4>1, <4>2 DEF JobRecords
      <4>3. CASE src \notin Jobs BY <1>j, <3>1, <4>3
      <4> QED BY <4>2, <4>3
    <3>3. AddRef(pt[p].job, 1) \/ UNCHANGED cRef BY <1>7 DEF PrintRawJob
    <3> QED BY <1>7, <3>2, <3>3, AddRefType DEF PrintRawJob, PortFrame, JobTypes
  <2>2. ListTypes' BY <1>7 DEF PrintRawJob, listVars, ListTypes
  <2>3. GlobalTypes' BY <1>7 DEF PrintRawJob, globalVars, GlobalTypes
  <2>4. pt' \in [Ports -> PtRecords] /\ PortsHaveJobs'
    <3>1. pt[p].job \in Jobs BY <1>7, <1>h DEF PrintRawJob, PortAt, Jobless
    <3> DEFINE f == [pt EXCEPT ![p].pc = "close"]
    <3>2. CASE PortGoesTo(p, "read") BY <3>1, <3>2, <1>a, PortGoesToType DEF PortPcs
    <3>3. CASE pt' = [f EXCEPT ![p].failed = TRUE]
      <4>1. f \in [Ports -> PtRecords] /\ f[p].job \in Jobs /\ \A q \in Ports \ {p} : f[q] = pt[q]
        BY <1>a, <3>1 DEF PtRecords, PortPcs
      <4> HIDE DEF f
      <4>2. pt' \in [Ports -> PtRecords] BY <3>3, <4>1, ZenonT(60) DEF PtRecords
      <4>3. PortsHaveJobs' BY <1>a, <3>3, <4>1 DEF PortsHaveJobs, PtRecords
      <4> QED BY <4>2, <4>3
    <3> QED BY <1>7, <3>2, <3>3 DEF PrintRawJob
  <2>5. DeleteTypes' /\ DeletersHaveJobs'
    BY <1>7 DEF PrintRawJob, DeleteTypes, DeletersHaveJobs
  <2> QED BY <1>0, <1>7, <2>1, <2>2, <2>3, <2>4, <2>5 DEF PrintRawJob
<1>8. CASE ReadPrinter(p)
  <2>1. JobTypes'
    <3> DEFINE j == pt[p].job
               src == Source(j)
    <3>1. \/ job' = job
          \/ job' = [job EXCEPT ![j].WaitForWrite = "reset"]
          \/ job' = [job EXCEPT ![src].unread = IF job[src].unread > 0 THEN job[src].unread - 1 ELSE 0]
      BY <1>8 DEF ReadPrinter
    <3>2. job' \in [Jobs -> JobRecords]
      <4> DEFINE n == IF job[src].unread > 0 THEN job[src].unread - 1 ELSE 0
      <4>1. src \in Jobs => n \in Nat
        <5> HIDE DEF src
        <5> QED BY <1>j DEF JobRecords
      <4>2. j \in Jobs BY <1>8, <1>h DEF ReadPrinter, PortAt, Jobless
      <4> HIDE DEF n, src, j
      <4>3. CASE src \in Jobs BY <1>j, <3>1, <4>1, <4>2, <4>3 DEF JobRecords, n
      <4>4. CASE src \notin Jobs BY <1>j, <3>1, <4>2, <4>4 DEF JobRecords
      <4> QED BY <4>3, <4>4
    <3>3. Status' \in [Jobs -> SUBSET Flags] BY <1>8 DEF ReadPrinter, JobTypes
    <3> QED BY <1>8, <3>2, <3>3 DEF ReadPrinter, PortFrame, JobTypes
  <2>2. ListTypes' BY <1>8 DEF ReadPrinter, listVars, ListTypes
  <2>3. GlobalTypes' BY <1>8 DEF ReadPrinter, globalVars, GlobalTypes
  <2>4. pt' \in [Ports -> PtRecords] /\ PortsHaveJobs'
    <3>1. pt[p].job \in Jobs BY <1>8, <1>h DEF ReadPrinter, PortAt, Jobless
    <3>2. \E pc \in {"closejob", "readwait", "write"} : PortGoesTo(p, pc)
      BY <1>8 DEF ReadPrinter
    <3> QED BY <3>1, <3>2, <1>a, PortGoesToType DEF PortPcs
  <2>5. DeleteTypes' /\ DeletersHaveJobs'
    BY <1>8 DEF ReadPrinter, DeleteTypes, DeletersHaveJobs
  <2> QED BY <1>0, <1>8, <2>1, <2>2, <2>3, <2>4, <2>5 DEF ReadPrinter
<1>9. CASE ReadPrinterWakes(p)
  <2>1. JobTypes' BY <1>9 DEF ReadPrinterWakes, PortFrame, JobTypes
  <2>2. ListTypes' BY <1>9 DEF ReadPrinterWakes, listVars, ListTypes
  <2>3. GlobalTypes' BY <1>9 DEF ReadPrinterWakes, globalVars, GlobalTypes
  <2>4. pt' \in [Ports -> PtRecords] /\ PortsHaveJobs'
    BY <1>9, <1>a, <1>h, PortGoesToType DEF ReadPrinterWakes, PortPcs, Jobless
  <2>5. DeleteTypes' /\ DeletersHaveJobs'
    BY <1>9 DEF ReadPrinterWakes, DeleteTypes, DeletersHaveJobs
  <2> QED BY <1>0, <1>9, <2>1, <2>2, <2>3, <2>4, <2>5 DEF ReadPrinterWakes
<1>10. CASE ReadPrinterTimesOut(p)
  <2>1. JobTypes'
    <3>0. \E flags \in {{"TIMEOUT"}, {"TIMEOUT", "ABANDON"}} :
            Status' = [Status EXCEPT ![pt[p].job] = @ \cup flags]
      BY <1>10 DEF ReadPrinterTimesOut
    <3>1. Status' \in [Jobs -> SUBSET Flags] BY <3>0 DEF JobTypes, Flags
    <3>2. job' = job \/ job' = [job EXCEPT ![pt[p].job].WaitForWrite = "null"]
      BY <1>10 DEF ReadPrinterTimesOut
    <3>3. job' \in [Jobs -> JobRecords] BY <1>j, <3>2 DEF JobRecords
    <3> QED BY <1>10, <3>1, <3>3 DEF ReadPrinterTimesOut, PortFrame, JobTypes
  <2>2. ListTypes' BY <1>10 DEF ReadPrinterTimesOut, listVars, ListTypes
  <2>3. GlobalTypes' BY <1>10 DEF ReadPrinterTimesOut, globalVars, GlobalTypes
  <2>4. pt' \in [Ports -> PtRecords] /\ PortsHaveJobs'
    BY <1>10, <1>a, <1>h, PortGoesToType DEF ReadPrinterTimesOut, PortAt, PortPcs, Jobless
  <2>5. DeleteTypes' /\ DeletersHaveJobs'
    BY <1>10 DEF ReadPrinterTimesOut, DeleteTypes, DeletersHaveJobs
  <2> QED BY <1>0, <1>10, <2>1, <2>2, <2>3, <2>4, <2>5 DEF ReadPrinterTimesOut
<1>11. CASE WritePort(p)
  <2>1. JobTypes' BY <1>11 DEF WritePort, PortFrame, JobTypes
  <2>2. ListTypes' BY <1>11 DEF WritePort, listVars, ListTypes
  <2>3. GlobalTypes' BY <1>11 DEF WritePort, globalVars, GlobalTypes
  <2>4. pt' \in [Ports -> PtRecords] /\ PortsHaveJobs'
    BY <1>11, <1>a, <1>h, PortGoesToType DEF WritePort, PortPcs, Jobless
  <2>5. DeleteTypes' /\ DeletersHaveJobs'
    BY <1>11 DEF WritePort, DeleteTypes, DeletersHaveJobs
  <2> QED BY <1>0, <1>11, <2>1, <2>2, <2>3, <2>4, <2>5 DEF WritePort
<1>12. CASE ClosePrinter(p)
  <2>1. JobTypes' BY <1>12, AddRefType DEF ClosePrinter, PortFrame, JobTypes
  <2>2. ListTypes' BY <1>12 DEF ClosePrinter, listVars, ListTypes
  <2>3. GlobalTypes' BY <1>12 DEF ClosePrinter, globalVars, GlobalTypes
  <2>4. pt' \in [Ports -> PtRecords] /\ PortsHaveJobs'
    BY <1>12, <1>a, <1>h, PortGoesToType DEF ClosePrinter, PortAt, PortPcs, Jobless
  <2>5. DeleteTypes' /\ DeletersHaveJobs'
    BY <1>12, <1>t, <1>h, DeleteJobCheckType DEF ClosePrinter, PortAt, Jobless
  <2> QED BY <1>0, <1>12, <2>1, <2>2, <2>3, <2>4, <2>5 DEF ClosePrinter
<1>13. CASE EndDocPort(p)
  <2>1. JobTypes'
    <3> DEFINE j == pt[p].job
               n == (job[j].dwJobControlsPending + 1) % DwordModulus
    <3>1. j \in Jobs BY <1>13, <1>h DEF EndDocPort, PortAt, Jobless
    <3>2. n \in 0 .. DwordModulus - 1
      BY <1>j, <3>1, ConstantsAssumption DEF JobRecords, ConstantsAssumption
    <3>3. job' = [job EXCEPT ![j].dwJobControlsPending = n] BY <1>13 DEF EndDocPort
    <3>4. job' \in [Jobs -> JobRecords]
      <4> HIDE DEF j, n
      <4> QED BY <1>j, <3>1, <3>2, <3>3 DEF JobRecords
    <3>5. Status' \in [Jobs -> SUBSET Flags] BY <1>13 DEF EndDocPort, JobTypes, Flags
    <3> QED BY <1>13, <3>4, <3>5, AddRefType DEF EndDocPort, PortFrame, JobTypes
  <2>2. ListTypes' BY <1>13 DEF EndDocPort, listVars, ListTypes
  <2>3. GlobalTypes' BY <1>13 DEF EndDocPort, globalVars, GlobalTypes
  <2>4. pt' \in [Ports -> PtRecords] /\ PortsHaveJobs'
    BY <1>13, <1>a, <1>h, PortGoesToType DEF EndDocPort, PortAt, PortPcs, Jobless
  <2>5. DeleteTypes' /\ DeletersHaveJobs'
    BY <1>13 DEF EndDocPort, DeleteTypes, DeletersHaveJobs
  <2> QED BY <1>0, <1>13, <2>1, <2>2, <2>3, <2>4, <2>5 DEF EndDocPort
<1>14. CASE SentToPrinter(p)
  <2> DEFINE j == pt[p].job
             n == (job[j].dwJobControlsPending - 1) % DwordModulus
  <2>0. j \in Jobs BY <1>14, <1>h DEF SentToPrinter, PortAt, Jobless
  <2>1. JobTypes'
    <3>1. n \in 0 .. DwordModulus - 1
      BY <1>j, <2>0, ConstantsAssumption DEF JobRecords, ConstantsAssumption
    <3>2. job' = [job EXCEPT ![j].dwJobControlsPending = n] BY <1>14 DEF SentToPrinter
    <3>3. job' \in [Jobs -> JobRecords]
      <4> HIDE DEF j, n
      <4> QED BY <1>j, <2>0, <3>1, <3>2 DEF JobRecords
    <3>4. Status' \in [Jobs -> SUBSET Flags] BY <1>14 DEF SentToPrinter, JobTypes, Flags
    <3>5. AddRef(j, 1) \/ UNCHANGED cRef BY <1>14 DEF SentToPrinter
    <3> QED BY <1>14, <3>3, <3>4, <3>5, AddRefType DEF SentToPrinter, PortFrame, JobTypes
  <2>2. ListTypes' BY <1>14 DEF SentToPrinter, listVars, ListTypes
  <2>3. GlobalTypes' BY <1>14 DEF SentToPrinter, globalVars, GlobalTypes
  <2>4. pt' \in [Ports -> PtRecords] /\ PortsHaveJobs'
    <3>1. PortGoesTo(p, "alert") \/ PortGoesTo(p, "tail") BY <1>14 DEF SentToPrinter
    <3> QED BY <2>0, <3>1, <1>a, PortGoesToType DEF PortPcs
  <2>5. DeleteTypes' /\ DeletersHaveJobs'
    <3>1. \/ UNCHANGED <<splSem, del>>
          \/ splSem' = p /\ (DeleteSentJob(p, j) \/ UNCHANGED del)
      BY <1>14 DEF SentToPrinter
    <3> QED BY <2>0, <3>1, <1>t, DeleteSentJobType DEF DeleteTypes, DeletersHaveJobs
  <2> QED BY <1>0, <1>14, <2>1, <2>2, <2>3, <2>4, <2>5 DEF SentToPrinter
<1>15. CASE SentToPrinterAlerted(p)
  <2>1. JobTypes'
    <3>1. Status' \in [Jobs -> SUBSET Flags] BY <1>15 DEF SentToPrinterAlerted, JobTypes
    <3>2. cRef' \in [Jobs -> Int] BY <1>15, AddRefType DEF SentToPrinterAlerted, JobTypes
    <3> QED BY <1>15, <3>1, <3>2 DEF SentToPrinterAlerted, PortFrame, JobTypes
  <2>2. ListTypes' BY <1>15 DEF SentToPrinterAlerted, listVars, ListTypes
  <2>3. GlobalTypes' BY <1>15 DEF SentToPrinterAlerted, globalVars, GlobalTypes
  <2>4. pt' \in [Ports -> PtRecords] /\ PortsHaveJobs'
    BY <1>15, <1>a, <1>h, PortGoesToType DEF SentToPrinterAlerted, PortAt, PortPcs, Jobless
  <2>5. DeleteTypes' /\ DeletersHaveJobs'
    BY <1>15, <1>t, <1>h, DeleteSentJobType DEF SentToPrinterAlerted, PortAt, Jobless, DeleteTypes
  <2> QED BY <1>0, <1>15, <2>1, <2>2, <2>3, <2>4, <2>5 DEF SentToPrinterAlerted
<1>16. CASE SentToPrinterTail(p)
  <2>1. JobTypes' BY <1>16 DEF SentToPrinterTail, PortFrame, JobTypes
  <2>2. ListTypes' BY <1>16 DEF SentToPrinterTail, listVars, ListTypes
  <2>3. GlobalTypes' BY <1>16 DEF SentToPrinterTail, GlobalTypes
  <2>4. pt' \in [Ports -> PtRecords] /\ PortsHaveJobs'
    BY <1>16, <1>a, <1>h, PortGoesToType DEF SentToPrinterTail, PortPcs, Jobless
  <2>5. DeleteTypes' /\ DeletersHaveJobs'
    <3>1. DeleteJobCheckAndLeave(p, pt[p].job) \/ (splSem' = NoThread /\ UNCHANGED del)
      BY <1>16 DEF SentToPrinterTail
    <3>2. pt[p].job \in Jobs BY <1>16, <1>h DEF SentToPrinterTail, Jobless
    <3> QED BY <3>1, <3>2, <1>t, DeleteJobCheckType DEF DeleteTypes, DeletersHaveJobs
  <2> QED BY <1>0, <1>16, <2>1, <2>2, <2>3, <2>4, <2>5 DEF SentToPrinterTail
<1>17. CASE EndDocPortDone(p)
  <2>1. JobTypes' BY <1>17, AddRefType DEF EndDocPortDone, PortFrame, JobTypes
  <2>2. ListTypes' BY <1>17 DEF EndDocPortDone, listVars, ListTypes
  <2>3. GlobalTypes' BY <1>17 DEF EndDocPortDone, globalVars, GlobalTypes
  <2>4. pt' \in [Ports -> PtRecords] /\ PortsHaveJobs'
    BY <1>17, <1>a, <1>h, PortGoesToType DEF EndDocPortDone, PortAt, PortPcs, Jobless
  <2>5. DeleteTypes' /\ DeletersHaveJobs'
    BY <1>17, <1>t, <1>h, DeleteJobCheckType DEF EndDocPortDone, PortAt, Jobless
  <2> QED BY <1>0, <1>17, <2>1, <2>2, <2>3, <2>4, <2>5 DEF EndDocPortDone
<1>18. CASE PrintDone(p)
  <2>1. JobTypes' BY <1>18 DEF PrintDone, PortFrame, JobTypes, Flags
  <2>2. ListTypes' BY <1>18 DEF PrintDone, listVars, ListTypes
  <2>3. GlobalTypes' BY <1>18 DEF PrintDone, globalVars, GlobalTypes
  <2>4. pt' \in [Ports -> PtRecords] /\ PortsHaveJobs'
    BY <1>18, <1>a, <1>h, PortGoesToType DEF PrintDone, PortAt, PortPcs, Jobless
  <2>5. DeleteTypes' /\ DeletersHaveJobs'
    BY <1>18 DEF PrintDone, DeleteTypes, DeletersHaveJobs
  <2> QED BY <1>0, <1>18, <2>1, <2>2, <2>3, <2>4, <2>5 DEF PrintDone
<1>19. CASE ClosePrintProcessor(p)
  <2>1. JobTypes' BY <1>19 DEF ClosePrintProcessor, PortFrame, JobTypes
  <2>2. ListTypes' BY <1>19 DEF ClosePrintProcessor, listVars, ListTypes
  <2>3. GlobalTypes' BY <1>19 DEF ClosePrintProcessor, globalVars, GlobalTypes, PortRecords
  <2>4. pt' \in [Ports -> PtRecords] /\ PortsHaveJobs'
    BY <1>19, <1>a, <1>h, PortGoesToType DEF ClosePrintProcessor, PortPcs, Jobless
  <2>5. DeleteTypes' /\ DeletersHaveJobs'
    BY <1>19 DEF ClosePrintProcessor, DeleteTypes, DeletersHaveJobs
  <2> QED BY <1>0, <1>19, <2>1, <2>2, <2>3, <2>4, <2>5 DEF ClosePrintProcessor
<1>20. CASE DiscardJobFromPortThread(p)
  <2>1. JobTypes' BY <1>20 DEF DiscardJobFromPortThread, PortFrame, JobTypes, Flags
  <2>2. ListTypes' BY <1>20 DEF DiscardJobFromPortThread, listVars, ListTypes
  <2>3. GlobalTypes' BY <1>20 DEF DiscardJobFromPortThread, globalVars, GlobalTypes
  <2>4. pt' \in [Ports -> PtRecords] /\ PortsHaveJobs'
    BY <1>20, <1>a, <1>h, PortGoesToType DEF DiscardJobFromPortThread, PortAt, PortPcs, Jobless
  <2>5. DeleteTypes' /\ DeletersHaveJobs'
    BY <1>20 DEF DiscardJobFromPortThread, DeleteTypes, DeletersHaveJobs
  <2> QED BY <1>0, <1>20, <2>1, <2>2, <2>3, <2>4, <2>5 DEF DiscardJobFromPortThread
<1>21. CASE PortThreadFinishes(p)
  <2> DEFINE j == pt[p].job
             next == NextInChain(j)
             pIniJob == IF next = NoJob THEN NoJob ELSE port[p].pIniJob
  <2>0. j \in Jobs BY <1>21, <1>h DEF PortThreadFinishes, PortAt, Jobless
  <2>n. next \in Jobs \cup {NoJob}
    BY QueuedType DEF NextInChain
  <2>1. JobTypes'
    <3>1. job' = [job EXCEPT ![j].pCurrentIniJob = next] BY <1>21 DEF PortThreadFinishes
    <3>2. job' \in [Jobs -> JobRecords]
      <4> HIDE DEF j, next
      <4> QED BY <1>j, <2>0, <2>n, <3>1 DEF JobRecords
    <3>3. Status' \in [Jobs -> SUBSET Flags] BY <1>21 DEF PortThreadFinishes, JobTypes, Flags
    <3>4. cRef' \in [Jobs -> Int]
      <4>1. \E n \in Int : AddRef(j, n)
        <5>1. ASSUME NEW a, NEW b PROVE (IF a THEN -1 ELSE 0) + (IF b THEN 1 ELSE 0) \in Int OBVIOUS
        <5> QED BY <1>21, <5>1 DEF PortThreadFinishes
      <4> QED BY <4>1, AddRefType DEF JobTypes
    <3> QED BY <1>21, <3>2, <3>3, <3>4 DEF PortThreadFinishes, PortFrame, JobTypes
  <2>2. ListTypes'
    <3>1. availMemory' \in 0 .. TotalMemoryForRendering
      BY <1>21, <2>0, ReleaseType DEF PortThreadFinishes, ListTypes
    <3> QED BY <1>21, <3>1 DEF PortThreadFinishes, ListTypes
  <2>3. GlobalTypes'
    <3>1. port' = [port EXCEPT ![p].pIniJob = pIniJob] BY <1>21 DEF PortThreadFinishes
    <3>2. pIniJob \in Jobs \cup {NoJob} BY <1>p DEF PortRecords
    <3> HIDE DEF pIniJob
    <3>3. port' \in [Ports -> PortRecords] BY <1>p, <3>1, <3>2 DEF PortRecords
    <3>4. cFullPrintingJobs' \in Int
      BY <1>21 DEF PortThreadFinishes, GlobalTypes
    <3>5. schedulerSignal' \in BOOLEAN BY <1>21 DEF PortThreadFinishes
    <3> QED BY <3>3, <3>4, <3>5 DEF GlobalTypes
  <2>4. pt' \in [Ports -> PtRecords] /\ PortsHaveJobs'
    <3>1. PortGoesTo(p, "log") \/ PortGoesTo(p, "keep") BY <1>21 DEF PortThreadFinishes
    <3> QED BY <2>0, <3>1, <1>a, PortGoesToType DEF PortPcs
  <2>5. DeleteTypes' /\ DeletersHaveJobs'
    BY <1>21, <1>t DEF PortThreadFinishes, DeleteTypes, DeletersHaveJobs
  <2> QED BY <1>0, <1>21, <2>1, <2>2, <2>3, <2>4, <2>5 DEF PortThreadFinishes
<1>22. CASE PortThreadKeeps(p)
  <2> DEFINE j == pt[p].job
             d == IF pt[p].pc = "log" THEN 1 ELSE 0
  <2>0. j \in Jobs BY <1>22, <1>h DEF PortThreadKeeps, PortAt, Jobless
  <2>1. JobTypes'
    <3>1. AddRef(j, 1 - d) \/ AddRef(j, 0 - d) BY <1>22 DEF PortThreadKeeps
    <3>2. cRef' \in [Jobs -> Int] BY <3>1, AddRefType DEF JobTypes
    <3>3. Status' \in [Jobs -> SUBSET Flags] BY <1>22, ZenonT(30) DEF PortThreadKeeps, JobTypes, Flags
    <3> QED BY <1>22, <3>2, <3>3 DEF PortThreadKeeps, PortFrame, JobTypes
  <2>2. ListTypes' BY <1>22 DEF PortThreadKeeps, listVars, ListTypes
  <2>3. GlobalTypes' BY <1>22 DEF PortThreadKeeps, globalVars, GlobalTypes
  <2>4. pt' \in [Ports -> PtRecords] /\ PortsHaveJobs'
    <3>1. PortGoesTo(p, "shadow") \/ PortGoesTo(p, "release") BY <1>22 DEF PortThreadKeeps
    <3> QED BY <2>0, <3>1, <1>a, PortGoesToType DEF PortPcs
  <2>5. DeleteTypes' /\ DeletersHaveJobs'
    BY <1>22, <1>t DEF PortThreadKeeps, DeleteTypes, DeletersHaveJobs
  <2> QED BY <1>0, <1>22, <2>1, <2>2, <2>3, <2>4, <2>5 DEF PortThreadKeeps
<1>23. CASE PortThreadReleases(p)
  <2> DEFINE j == pt[p].job
             d == IF pt[p].pc = "shadow" THEN 1 ELSE 0
  <2>0. j \in Jobs BY <1>23, <1>h DEF PortThreadReleases, PortAt, Jobless
  <2>1. JobTypes'
    <3>1. AddRef(j, 0 - 1 - d) BY <1>23 DEF PortThreadReleases
    <3>2. cRef' \in [Jobs -> Int] BY <3>1, AddRefType DEF JobTypes
    <3>3. Status' \in [Jobs -> SUBSET Flags]
      <4>1. PICK back \in Recreated(pt[p].pc = "shadow") :
              Status' = [Status EXCEPT ![j] =
                @ \ (back \cup (IF port[p].pIniJob # j THEN {"DESPOOLING"} ELSE {})
                     \cup (IF "RESTART" \in @ THEN {"PRINTED", "BLOCKED_DEVQ", "COMPLETE"} ELSE {}))]
        BY <1>23 DEF PortThreadReleases
      <4> QED BY <1>23, <2>0, <4>1 DEF JobTypes
    <3>4. job' = [job EXCEPT ![j].pIniPort = NoPort] BY <1>23 DEF PortThreadReleases
    <3>5. job' \in [Jobs -> JobRecords]
      <4> HIDE DEF j
      <4> QED BY <1>j, <2>0, <3>4 DEF JobRecords
    <3> QED BY <1>23, <3>2, <3>3, <3>5 DEF PortThreadReleases, PortFrame, JobTypes
  <2>2. ListTypes' BY <1>23 DEF PortThreadReleases, listVars, ListTypes
  <2>3. GlobalTypes'
    <3>1. port' \in [Ports -> PortRecords] BY <1>23, <1>p DEF PortThreadReleases, PortRecords
    <3> QED BY <1>23, <3>1 DEF PortThreadReleases, globalVars, GlobalTypes
  <2>4. pt' \in [Ports -> PtRecords] /\ PortsHaveJobs'
    BY <1>23, <1>a DEF PortThreadReleases, PortThreadAt, PtRecords, PortPcs, PortsHaveJobs, Jobless
  <2>5. DeleteTypes' /\ DeletersHaveJobs'
    BY <1>23, <1>t, <2>0, DeleteJobCheckType DEF PortThreadReleases
  <2> QED BY <1>0, <1>23, <2>1, <2>2, <2>3, <2>4, <2>5 DEF PortThreadReleases
<1> QED
  BY <1>1, <1>2, <1>3, <1>4, <1>5, <1>6, <1>7, <1>8, <1>9, <1>10, <1>11, <1>12, <1>13,
     <1>14, <1>15, <1>16, <1>17, <1>18, <1>19, <1>20, <1>21, <1>22, <1>23
  DEF PortThread

----------------------------------------------------------------------------
(* The scheduler's thread.                                                 *)

\* Giving a job to a port keeps the types of both.
LEMMA AssignJobType ==
  ASSUME TypeInv, NEW p \in Ports, NEW j \in Jobs, NEW d \in Int, AssignJob(p, j, d)
  PROVE  /\ Status' \in [Jobs -> SUBSET Flags] /\ cRef' \in [Jobs -> Int]
         /\ job' \in [Jobs -> JobRecords] /\ port' \in [Ports -> PortRecords]
         /\ cFullPrintingJobs' \in Int
<1>1. Status' \in [Jobs -> SUBSET Flags] BY DEF AssignJob, TypeInv, TypeOK, JobTypes, Flags
<1>2. cRef' \in [Jobs -> Int]
  <2>1. AddRef(j, 1 + d) BY DEF AssignJob
  <2> QED BY <2>1, AddRefType DEF TypeInv, TypeOK, JobTypes
<1>3. job' \in [Jobs -> JobRecords]
  <2> DEFINE current == IF job[j].pCurrentIniJob = NoJob /\ job[j].NextJobId # NoJob
                        THEN j ELSE job[j].pCurrentIniJob
             w == IF Has(j, {"SPOOLING"}) THEN "reset" ELSE "null"
             f == [job EXCEPT ![j].pIniPort = p]
             g == [f EXCEPT ![j].pCurrentIniJob = current]
  <2>1. job \in [Jobs -> JobRecords] BY DEF TypeInv, TypeOK, JobTypes
  <2>2. job' = [g EXCEPT ![j].WaitForWrite = w] BY DEF AssignJob
  <2>3. current \in Jobs \cup {NoJob} /\ w \in {"null", "reset", "set"} BY <2>1 DEF JobRecords
  <2>4. f \in [Jobs -> JobRecords] BY <2>1 DEF JobRecords
  <2> HIDE DEF f, current, w
  <2>5. g \in [Jobs -> JobRecords] BY <2>3, <2>4 DEF JobRecords
  <2> HIDE DEF g
  <2> QED BY <2>2, <2>3, <2>5 DEF JobRecords
<1>4. port' \in [Ports -> PortRecords]
  <2> DEFINE s == port[p].Status \ {"WAITING"}
             n == port[p].cJobs + (IF job[j].pIniPort = p THEN 0 ELSE 1)
             b == TRUE
             none == {}
             f1 == [port EXCEPT ![p].Status = s]
             f2 == [f1 EXCEPT ![p].pIniJob = j]
             f3 == [f2 EXCEPT ![p].Semaphore = b]
             f4 == [f3 EXCEPT ![p].InCriticalSection = none]
  <2>1. port \in [Ports -> PortRecords] BY DEF TypeInv, TypeOK, GlobalTypes
  <2>2. port' = [f4 EXCEPT ![p].cJobs = n] BY DEF AssignJob
  <2>3. s \in SUBSET {"RUNTHREAD", "THREADRUNNING", "WAITING"} BY <2>1 DEF PortRecords
  <2>4. n \in Int BY <2>1 DEF PortRecords
  <2>5. b \in BOOLEAN OBVIOUS
  <2>6. none \in SUBSET {"PAUSE", "RESUME", "CANCEL"} OBVIOUS
  <2> HIDE DEF s, n, b, none
  <2>7. f1 \in [Ports -> PortRecords] BY <2>1, <2>3 DEF PortRecords
  <2> HIDE DEF f1
  <2>8. f2 \in [Ports -> PortRecords] BY <2>7 DEF PortRecords
  <2> HIDE DEF f2
  <2>9. f3 \in [Ports -> PortRecords] BY <2>5, <2>8 DEF PortRecords
  <2> HIDE DEF f3
  <2>10. f4 \in [Ports -> PortRecords] BY <2>6, <2>9 DEF PortRecords
  <2> HIDE DEF f4
  <2> QED BY <2>2, <2>4, <2>10 DEF PortRecords
<1>5. cFullPrintingJobs' \in Int BY DEF AssignJob, TypeInv, TypeOK, GlobalTypes
<1> QED BY <1>1, <1>2, <1>3, <1>4, <1>5

\* Putting a job on the schedule list keeps the types of the list and the memory.
LEMMA AddToScheduleListType ==
  ASSUME ListTypes, NEW j \in Jobs, AddToScheduleList(j)
  PROVE  scheduleList' \in SUBSET Jobs /\ availMemory' \in 0 .. TotalMemoryForRendering
BY ReserveType DEF AddToScheduleList, ListTypes

\* Moving a job from the waiting list to a port keeps every type.
LEMMA ScheduleFromWaitingListType ==
  ASSUME TypeInv, NEW p \in Ports, NEW j \in Jobs, ScheduleFromWaitingList(j, p)
  PROVE  JobTypes' /\ ListTypes' /\ GlobalTypes'
<1>1. UNCHANGED <<queue, schedulerSignal>> BY DEF ScheduleFromWaitingList, SchedulerFrame
<1>2. \E d \in Int : AssignJob(p, j, d) BY DEF ScheduleFromWaitingList
<1>3. JobTypes' BY <1>1, <1>2, AssignJobType DEF TypeInv, TypeOK, JobTypes
<1>4. GlobalTypes' BY <1>1, <1>2, AssignJobType DEF TypeInv, TypeOK, GlobalTypes
<1>5. waitingList' \in Seq(Jobs)
  BY WithoutType DEF ScheduleFromWaitingList, TypeInv, TypeOK, ListTypes
<1>6. ListTypes'
  BY <1>5, AddToScheduleListType DEF ScheduleFromWaitingList, TypeInv, TypeOK, ListTypes
<1> QED BY <1>3, <1>4, <1>6

\* The jobs the scheduler chooses from are jobs.
LEMMA ChoiceType ==
  ASSUME TypeInv
  PROVE  /\ AssignFreeJobToFreePort \subseteq Eligible /\ Eligible \subseteq Jobs
         /\ \A p \in Ports : Candidate(p) \subseteq Jobs
         /\ FirstFromWaitingList(Jobs) \subseteq Jobs
         /\ FirstFromWaitingList(Fitting) \subseteq Jobs
<1>1. AssignFreeJobToFreePort \subseteq Eligible
  <2>1. EligibleComplete \subseteq Eligible /\ EligibleSpooling \subseteq Eligible
    BY DEF EligibleComplete, EligibleSpooling
  <2>2. \A S : HighestPriority(S) \subseteq S BY DEF HighestPriority
  <2>3. TopSpooling \subseteq EligibleSpooling
    <3>1. CASE "DO_COMPLETE_FIRST" \in Attributes
      BY <3>1, <2>2 DEF TopSpooling
    <3>2. CASE "DO_COMPLETE_FIRST" \notin Attributes
      BY <3>2, <2>2 DEF TopSpooling
    <3> QED BY <3>1, <3>2
  <2> QED BY <2>1, <2>2, <2>3 DEF AssignFreeJobToFreePort
<1>2. Eligible \subseteq Jobs BY QueuedType DEF Eligible, TypeInv, TypeOK
<1>3. \A p \in Ports : Candidate(p) \subseteq Jobs
  <2>1. \A p \in Ports : port[p].pIniJob \in Jobs \cup {NoJob}
    BY DEF TypeInv, TypeOK, GlobalTypes, PortRecords
  <2> QED BY <1>1, <1>2, <2>1 DEF Candidate
<1>4. \A i \in DOMAIN waitingList : waitingList[i] \in Jobs
  BY DEF TypeInv, TypeOK, ListTypes
<1>5. FirstFromWaitingList(Jobs) \subseteq Jobs BY <1>4 DEF FirstFromWaitingList
<1>6. FirstFromWaitingList(Fitting) \subseteq Jobs BY <1>4 DEF FirstFromWaitingList
<1> QED BY <1>1, <1>2, <1>3, <1>5, <1>6

\* Every stretch of the scheduler thread keeps every type.
LEMMA SchedulerTypes ==
  ASSUME TypeInv, SchedulerThread
  PROVE  TypeInv'
<1> USE DEF TypeInv, TypeOK
<1>j. job \in [Jobs -> JobRecords] BY DEF JobTypes
<1>p. port \in [Ports -> PortRecords] BY DEF GlobalTypes
<1>a. pt \in [Ports -> PtRecords] BY DEF ThreadTypes
<1>s. sched \in SchedRecords BY DEF ThreadTypes
<1>t. Scheduler \in Threads BY DEF Threads
\* What the scheduler leaves alone, and what it leaves alone in most steps.
<1>0. ASSUME SchedulerFrame
      PROVE  /\ splSem' \in Threads \cup {NoThread} => DeleteTypes'
             /\ DeletersHaveJobs' /\ ClientsHaveJobs'
             /\ UNCHANGED pt => PortsHaveJobs'
             /\ pt' \in [Ports -> PtRecords] /\ sched' \in SchedRecords => ThreadTypes'
  BY <1>0 DEF SchedulerFrame, DeleteTypes, DeletersHaveJobs, ClientsHaveJobs, PortsHaveJobs, ThreadTypes
<1>f. UNCHANGED <<queue, Status, cRef, job>> => JobTypes' BY DEF JobTypes
<1>l. UNCHANGED listVars => ListTypes' BY DEF listVars, ListTypes
<1>g. UNCHANGED <<port, globalVars>> => GlobalTypes' BY DEF globalVars, GlobalTypes
<1>u. UNCHANGED splSem => splSem' \in Threads \cup {NoThread} BY DEF DeleteTypes
<1>n. ASSUME NEW p \in Ports
      PROVE  NextPort(p) \in SchedRecords
  BY <1>s DEF NextPort, SchedRecords
<1>1. CASE SchedulerWakes
  <2>1. sched' \in SchedRecords BY <1>1, <1>s DEF SchedulerWakes, SchedRecords, SchedPcs
  <2>2. GlobalTypes' BY <1>1 DEF SchedulerWakes, GlobalTypes
  <2>3. splSem' \in Threads \cup {NoThread} BY <1>1, <1>t DEF SchedulerWakes
  <2>4. JobTypes' /\ ListTypes' BY <1>1, <1>f, <1>l DEF SchedulerWakes, SchedulerFrame
  <2> QED BY <1>0, <1>1, <1>a, <2>1, <2>2, <2>3, <2>4 DEF SchedulerWakes
<1>2. ASSUME NEW j \in Jobs, JobExpires(j)
      PROVE  TypeInv'
  <2>1. JobTypes' BY <1>2, AddRefType DEF JobExpires, SchedulerFrame, JobTypes
  <2>2. ListTypes' BY <1>2, ReleaseType DEF JobExpires, ListTypes
  <2>3. GlobalTypes' BY <1>2 DEF JobExpires, GlobalTypes
  <2> QED BY <1>0, <1>2, <1>a, <1>s, <1>u, <2>1, <2>2, <2>3 DEF JobExpires
<1>3. ASSUME NEW j \in Jobs, DropWaitingJob(j)
      PROVE  TypeInv'
  <2>1. JobTypes' BY <1>3, AddRefType DEF DropWaitingJob, SchedulerFrame, JobTypes
  <2>2. ListTypes' BY <1>3, WithoutType DEF DropWaitingJob, ListTypes
  <2>3. GlobalTypes' BY <1>3, <1>g DEF DropWaitingJob
  <2> QED BY <1>0, <1>3, <1>a, <1>s, <1>u, <2>1, <2>2, <2>3 DEF DropWaitingJob
<1>4. CASE UpdateJobList
  <2>1. sched' \in SchedRecords BY <1>4, <1>s DEF UpdateJobList, SchedRecords, SchedPcs
  <2> QED BY <1>0, <1>4, <1>a, <1>f, <1>l, <1>g, <1>u, <2>1 DEF UpdateJobList, SchedulerFrame
<1>5. CASE NoFirstJob
  <2>1. sched' \in SchedRecords BY <1>5, <1>s DEF NoFirstJob, SchedRecords, SchedPcs
  <2> QED BY <1>0, <1>5, <1>a, <1>f, <1>l, <1>g, <1>u, <2>1 DEF NoFirstJob, SchedulerFrame
<1>6. ASSUME NEW p \in Ports, ScheduleFirstJob(p)
      PROVE  TypeInv'
  <2>1. sched' \in SchedRecords BY <1>6, <1>s DEF ScheduleFirstJob, SchedRecords, SchedPcs
  <2>2. PICK j \in Jobs : ScheduleFromWaitingList(j, p)
    BY <1>6, ChoiceType DEF ScheduleFirstJob
  <2>3. JobTypes' /\ ListTypes' /\ GlobalTypes' BY <2>2, ScheduleFromWaitingListType
  <2> QED BY <1>0, <1>a, <1>u, <2>1, <2>2, <2>3 DEF ScheduleFromWaitingList
<1>7. ASSUME NEW p \in Ports, ScheduleByMemory(p)
      PROVE  TypeInv'
  <2>1. PICK j \in Jobs : ScheduleFromWaitingList(j, p)
    BY <1>7, ChoiceType DEF ScheduleByMemory
  <2>2. JobTypes' /\ ListTypes' /\ GlobalTypes' BY <2>1, ScheduleFromWaitingListType
  <2>3. UNCHANGED sched BY <1>7 DEF ScheduleByMemory
  <2> QED BY <1>0, <1>a, <1>s, <1>u, <2>1, <2>2, <2>3 DEF ScheduleFromWaitingList
<1>8. CASE NoMoreByMemory
  <2> DEFINE s == [sched EXCEPT !.pc = "ports"]
  <2>1. sched' = [s EXCEPT !.todo = Ports] BY <1>8 DEF NoMoreByMemory
  <2>2. s \in SchedRecords BY <1>s DEF SchedRecords, SchedPcs
  <2> HIDE DEF s
  <2>3. sched' \in SchedRecords BY <2>1, <2>2 DEF SchedRecords
  <2> QED BY <1>0, <1>8, <1>a, <1>f, <1>l, <1>g, <1>u, <2>3 DEF NoMoreByMemory, SchedulerFrame
<1>9. ASSUME NEW p \in Ports, AbandonJob(p)
      PROVE  TypeInv'
  <2> DEFINE j == port[p].pIniJob
             r == NextPort(p)
             s == [r EXCEPT !.pc = "abandon"]
  <2>1. Status' \in [Jobs -> SUBSET Flags] BY <1>9 DEF AbandonJob, JobTypes, Flags
  <2>2. cRef' \in [Jobs -> Int] BY <1>9, AddRefType DEF AbandonJob, JobTypes
  <2>3. JobTypes' BY <1>9, <2>1, <2>2 DEF AbandonJob, SchedulerFrame, JobTypes
  <2>4. sched' = [s EXCEPT !.job = j] BY <1>9 DEF AbandonJob
  <2>5. j \in Jobs \cup {NoJob} BY <1>p DEF PortRecords
  <2>6. r \in SchedRecords BY <1>n
  <2> HIDE DEF r, j
  <2>7. s \in SchedRecords BY <2>6 DEF SchedRecords, SchedPcs
  <2> HIDE DEF s
  <2>8. sched' \in SchedRecords BY <2>4, <2>5, <2>7 DEF SchedRecords
  <2> QED BY <1>0, <1>9, <1>a, <1>l, <1>g, <2>3, <2>8 DEF AbandonJob
<1>10. CASE AbandonLogged
  <2> DEFINE j == sched.job
             w == IF job[j].WaitForWrite = "null" THEN "null" ELSE "set"
             s == [sched EXCEPT !.pc = "ports"]
  <2>1. job' = [job EXCEPT ![j].WaitForWrite = w] /\ sched' = [s EXCEPT !.job = NoJob]
    BY <1>10 DEF AbandonLogged
  <2>2. s \in SchedRecords BY <1>s DEF SchedRecords, SchedPcs
  <2>3. w \in {"null", "reset", "set"} OBVIOUS
  <2> HIDE DEF j, s, w
  <2>4. sched' \in SchedRecords BY <2>1, <2>2 DEF SchedRecords
  <2>5. job' \in [Jobs -> JobRecords]
    <3>1. CASE j \in Jobs BY <1>j, <2>1, <2>3, <3>1 DEF JobRecords
    <3>2. CASE j \notin Jobs BY <1>j, <2>1, <3>2
    <3> QED BY <3>1, <3>2
  <2>6. cRef' \in [Jobs -> Int] BY <1>10, AddRefType DEF AbandonLogged, JobTypes
  <2>7. JobTypes' BY <1>10, <2>5, <2>6 DEF AbandonLogged, SchedulerFrame, JobTypes
  <2> QED BY <1>0, <1>10, <1>a, <1>l, <1>g, <1>t, <2>4, <2>7 DEF AbandonLogged
<1>11. ASSUME NEW p \in Ports, SchedulePort(p)
       PROVE  TypeInv'
  <2>1. PICK j \in Jobs : AddToScheduleList(j) /\ \E d \in Int : AssignJob(p, j, d)
    BY <1>11, ChoiceType DEF SchedulePort
  <2>2. JobTypes' /\ GlobalTypes'
    BY <1>11, <2>1, AssignJobType DEF SchedulePort, SchedulerFrame, JobTypes, GlobalTypes
  <2>3. ListTypes' BY <1>11, <2>1, AddToScheduleListType DEF SchedulePort, ListTypes
  <2>4. sched' \in SchedRecords BY <1>11, <1>n DEF SchedulePort
  <2> QED BY <1>0, <1>11, <1>a, <1>u, <2>2, <2>3, <2>4 DEF SchedulePort
<1>12. ASSUME NEW p \in Ports, DestroyPortThread(p)
       PROVE  TypeInv'
  <2> DEFINE waiter == {j \in Candidate(p) : ~ OnWaitingList(j)}
  <2>1. waiter \subseteq Jobs BY ChoiceType
  <2>2. waitingList' \in Seq(Jobs)
    <3>1. waitingList' = IF waiter = {} THEN waitingList
                         ELSE Append(waitingList, CHOOSE j \in waiter : TRUE)
      BY <1>12 DEF DestroyPortThread
    <3> HIDE DEF waiter
    <3>2. waiter # {} => (CHOOSE j \in waiter : TRUE) \in Jobs BY <2>1
    <3> QED BY <3>1, <3>2 DEF ListTypes
  <2>3. cRef' \in [Jobs -> Int]
    <3>1. cRef' = [j \in Jobs |-> IF j \in waiter THEN cRef[j] + 1 ELSE cRef[j]]
      BY <1>12 DEF DestroyPortThread
    <3> HIDE DEF waiter
    <3> QED BY <3>1 DEF JobTypes
  <2>4. port' \in [Ports -> PortRecords]
    <3> DEFINE rest == port[p].Status \ {"RUNTHREAD"}
               b == TRUE
               f == [port EXCEPT ![p].Status = rest]
    <3>1. port' = [f EXCEPT ![p].Semaphore = b] BY <1>12 DEF DestroyPortThread
    <3>2. rest \in SUBSET {"RUNTHREAD", "THREADRUNNING", "WAITING"} BY <1>p DEF PortRecords
    <3>3. b \in BOOLEAN OBVIOUS
    <3> HIDE DEF rest, b
    <3>4. f \in [Ports -> PortRecords] BY <1>p, <3>2 DEF PortRecords
    <3> HIDE DEF f
    <3> QED BY <3>1, <3>3, <3>4 DEF PortRecords
  <2>5. sched' \in SchedRecords
    <3> DEFINE r == NextPort(p)
               s == [r EXCEPT !.pc = "destroy"]
    <3>1. sched' = [s EXCEPT !.port = p] BY <1>12 DEF DestroyPortThread
    <3>2. r \in SchedRecords BY <1>n
    <3> HIDE DEF r
    <3>3. s \in SchedRecords BY <3>2 DEF SchedRecords, SchedPcs
    <3> HIDE DEF s
    <3> QED BY <3>1, <3>3 DEF SchedRecords
  <2>6. JobTypes' BY <1>12, <2>3 DEF DestroyPortThread, SchedulerFrame, JobTypes
  <2>7. ListTypes' BY <1>12, <2>2 DEF DestroyPortThread, ListTypes
  <2>8. GlobalTypes' BY <1>12, <2>4 DEF DestroyPortThread, GlobalTypes, globalVars
  <2> QED BY <1>0, <1>12, <1>a, <2>5, <2>6, <2>7, <2>8 DEF DestroyPortThread
<1>13. CASE PortThreadGone
  <2> DEFINE p == sched.port
             s == [sched EXCEPT !.pc = "ports"]
  <2>1. /\ port' = [port EXCEPT ![p].Status = @ \ {"WAITING"}]
        /\ sched' = [s EXCEPT !.port = NoPort]
    BY <1>13 DEF PortThreadGone
  <2>2. s \in SchedRecords BY <1>s DEF SchedRecords, SchedPcs
  <2> HIDE DEF p, s
  <2>3. sched' \in SchedRecords BY <2>1, <2>2 DEF SchedRecords
  <2>4. port' \in [Ports -> PortRecords]
    <3>1. CASE p \in Ports BY <1>p, <2>1, <3>1 DEF PortRecords
    <3>2. CASE p \notin Ports BY <1>p, <2>1, <3>2
    <3> QED BY <3>1, <3>2
  <2>5. GlobalTypes' BY <1>13, <2>4 DEF PortThreadGone, GlobalTypes, globalVars
  <2> QED BY <1>0, <1>13, <1>a, <1>f, <1>l, <1>t, <2>3, <2>5 DEF PortThreadGone, SchedulerFrame
<1>14. ASSUME NEW p \in Ports, CreatePortThread(p)
       PROVE  TypeInv'
  <2>1. pt' \in [Ports -> PtRecords] /\ PortsHaveJobs'
    BY <1>14, <1>a DEF CreatePortThread, PtRecords, PortPcs, PortsHaveJobs, Jobless
  <2>2. port' \in [Ports -> PortRecords]
    <3>1. port' = [port EXCEPT ![p].Status = @ \cup {"RUNTHREAD"}] BY <1>14 DEF CreatePortThread
    <3> QED BY <1>p, <3>1 DEF PortRecords
  <2>3. sched' \in SchedRecords
    <3> DEFINE r == NextPort(p)
               s == [r EXCEPT !.pc = "create"]
    <3>1. sched' = [s EXCEPT !.port = p] BY <1>14 DEF CreatePortThread
    <3>2. r \in SchedRecords BY <1>n
    <3> HIDE DEF r
    <3>3. s \in SchedRecords BY <3>2 DEF SchedRecords, SchedPcs
    <3> HIDE DEF s
    <3> QED BY <3>1, <3>3 DEF SchedRecords
  <2>4. GlobalTypes' BY <1>14, <2>2 DEF CreatePortThread, GlobalTypes, globalVars
  <2> QED BY <1>0, <1>14, <1>f, <1>l, <2>1, <2>3, <2>4 DEF CreatePortThread, SchedulerFrame
<1>15. CASE PortThreadReady
  <2> DEFINE p == sched.port
             s == [sched EXCEPT !.pc = "ports"]
  <2>1. /\ port' = [port EXCEPT ![p].Status = @ \cup {"THREADRUNNING"}]
        /\ sched' = [s EXCEPT !.port = NoPort]
    BY <1>15 DEF PortThreadReady
  <2>2. s \in SchedRecords BY <1>s DEF SchedRecords, SchedPcs
  <2> HIDE DEF p, s
  <2>3. sched' \in SchedRecords BY <2>1, <2>2 DEF SchedRecords
  <2>4. port' \in [Ports -> PortRecords]
    <3>1. CASE p \in Ports BY <1>p, <2>1, <3>1 DEF PortRecords
    <3>2. CASE p \notin Ports BY <1>p, <2>1, <3>2
    <3> QED BY <3>1, <3>2
  <2>5. GlobalTypes' BY <1>15, <2>4 DEF PortThreadReady, GlobalTypes, globalVars
  <2> QED BY <1>0, <1>15, <1>a, <1>f, <1>l, <1>t, <2>3, <2>5 DEF PortThreadReady, SchedulerFrame
<1>16. ASSUME NEW p \in Ports, SkipPort(p)
       PROVE  TypeInv'
  <2>1. sched' \in SchedRecords BY <1>16, <1>n DEF SkipPort
  <2> QED BY <1>0, <1>16, <1>a, <1>f, <1>l, <1>g, <1>u, <2>1 DEF SkipPort, SchedulerFrame
<1>17. CASE SchedulerSleeps
  <2>1. sched' \in SchedRecords BY <1>17, <1>s DEF SchedulerSleeps, SchedRecords, SchedPcs
  <2> QED BY <1>0, <1>17, <1>a, <1>f, <1>l, <1>g, <2>1 DEF SchedulerSleeps, SchedulerFrame
<1> QED
  BY <1>1, <1>2, <1>3, <1>4, <1>5, <1>6, <1>7, <1>8, <1>9, <1>10, <1>11, <1>12, <1>13, <1>14,
     <1>15, <1>16, <1>17
  DEF SchedulerThread

----------------------------------------------------------------------------
\* A step that changes nothing keeps every type.
LEMMA StutterTypes == ASSUME TypeInv, UNCHANGED vars PROVE TypeInv'
<1> USE DEF vars, jobVars, listVars, globalVars
<1>1. JobTypes' /\ ListTypes' /\ GlobalTypes'
  BY DEF TypeInv, TypeOK, JobTypes, ListTypes, GlobalTypes
<1>2. ThreadTypes' /\ DeleteTypes' BY DEF TypeInv, TypeOK, ThreadTypes, DeleteTypes
<1>3. DeletersHaveJobs' /\ ClientsHaveJobs' /\ PortsHaveJobs'
  BY DEF TypeInv, DeletersHaveJobs, ClientsHaveJobs, PortsHaveJobs
<1> QED BY <1>1, <1>2, <1>3 DEF TypeInv, TypeOK

\* Every step keeps the types and leaves no thread at work without a job.
LEMMA NextTypes == ASSUME TypeInv, [Next]_vars PROVE TypeInv'
BY DeleteJobTypes, ApplicationTypes, ClientTypes, PortThreadTypes, SchedulerTypes, StutterTypes
   DEF Next

\* In every state of the spooler each variable has its type, and each thread
\* inside DeleteJob, SetJob or PortThread has a job to work on.
THEOREM TypesAlways == Spec => []TypeInv
<1>1. Init => TypeInv BY InitTypes
<1>2. TypeInv /\ [Next]_vars => TypeInv' BY NextTypes
<1> QED BY <1>1, <1>2, PTL DEF Spec

\* The type invariant of the spooler.
THEOREM TypeCorrect == Spec => []TypeOK
<1>1. TypeInv => TypeOK BY DEF TypeInv
<1> QED BY <1>1, TypesAlways, PTL

=============================================================================
