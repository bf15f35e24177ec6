------------------------- MODULE LocalSpoolerProofs -------------------------
(***************************************************************************)
(* Two safety properties of LocalSpooler, for every number of jobs, ports  *)
(* and clients: a job is never to be deleted and restarted at once, and no *)
(* job is ever printed on two ports.                                       *)
(***************************************************************************)
EXTENDS LocalSpoolerTypes

\* What the proofs below need of the types.
LEMMA StatusType == ASSUME TypeInv PROVE Status \in [Jobs -> SUBSET Flags]
BY DEF TypeInv, TypeOK, JobTypes

\* All that the end of WriteShadowJob takes from Status is SHADOW_DELETED.
LEMMA OnlyMarkGoes ==
  ASSUME NEW wrote \in BOOLEAN, NEW back \in Recreated(wrote) PROVE back \subseteq {"SHADOW_DELETED"}
BY DEF Recreated

\* What EndDocPrinter takes from Status at its end.
LEMMA EndDocTakes ==
  ASSUME TypeInv, NEW j \in Jobs, EndDocRelease(j)
  PROVE  /\ \A k \in Jobs \ {j} : Status'[k] = Status[k]
         /\ Status'[j] \subseteq Status[j]
         /\ Status[j] \subseteq Status'[j] \cup {"SHADOW_DELETED", "TIMEOUT", "ABANDON"}
<1>1. PICK back \in Recreated(~ Hold(j)) :
        Status' = [Status EXCEPT ![j] =
          @ \ (back \cup (IF "TIMEOUT" \in @ /\ "PENDING_DELETION" \notin @
                          THEN {"TIMEOUT", "ABANDON"} ELSE {}))]
  BY DEF EndDocRelease
<1>2. back \subseteq {"SHADOW_DELETED"} BY OnlyMarkGoes
<1> QED BY <1>1, <1>2, StatusType

\* What a port thread takes from Status when it lets go of a job.
LEMMA ReleaseTakes ==
  ASSUME TypeInv, NEW p \in Ports, PortThreadReleases(p), NEW k \in Jobs
  PROVE  /\ Status'[k] \subseteq Status[k]
         /\ Status[k] \subseteq
              Status'[k] \cup {"SHADOW_DELETED", "DESPOOLING", "PRINTED", "BLOCKED_DEVQ", "COMPLETE"}
         /\ k # pt[p].job \/ port[p].pIniJob = k =>
              ("DESPOOLING" \in Status[k] => "DESPOOLING" \in Status'[k])
<1> DEFINE j == pt[p].job
<1>1. PICK back \in Recreated(pt[p].pc = "shadow") :
        Status' = [Status EXCEPT ![j] =
          @ \ (back \cup (IF port[p].pIniJob # j THEN {"DESPOOLING"} ELSE {})
               \cup (IF "RESTART" \in @ THEN {"PRINTED", "BLOCKED_DEVQ", "COMPLETE"} ELSE {}))]
  BY DEF PortThreadReleases
<1>2. back \subseteq {"SHADOW_DELETED"} BY OnlyMarkGoes
<1> QED BY <1>1, <1>2, StatusType

----------------------------------------------------------------------------
(* DeletingNotRestarting is inductive: whoever sets JOB_PENDING_DELETION    *)
(* looks at or clears JOB_RESTART under the same hold of SplSem, and the    *)
(* other way round.                                                         *)

\* DeleteJob looks at JOB_RESTART where it sets JOB_PENDING_DELETION.
LEMMA DeleteJobNotRestarting ==
  ASSUME TypeInv, DeletingNotRestarting, NEW t \in Threads, DeleteJob(t)
  PROVE  DeletingNotRestarting'
<1> USE StatusType DEF DeletingNotRestarting
<1>1. CASE DeleteJobStart(t) BY <1>1, SMTT(30) DEF DeleteJobStart, Restarting, Has
<1>2. CASE DeleteJobReferenced(t) BY <1>2 DEF DeleteJobReferenced
<1>3. CASE UNCHANGED Status BY <1>3
<1> QED
  BY <1>1, <1>2, <1>3
  DEF DeleteJob, DeleteJobCancel, DeleteJobControl, DeleteJobShadow, DeleteJobUnlink,
      DeleteJobLogged, DeleteJobFree, DeleteJobFiles, DeleteJobTraced

\* LocalAbortPrinter clears JOB_RESTART where it sets JOB_PENDING_DELETION.
LEMMA ApplicationNotRestarting ==
  ASSUME TypeInv, DeletingNotRestarting, NEW j \in Jobs, Application(j)
  PROVE  DeletingNotRestarting'
<1> USE StatusType DEF DeletingNotRestarting
<1>1. CASE StartDocPrinter(j) BY <1>1 DEF StartDocPrinter
<1>2. CASE AbortPrinter(j) BY <1>2 DEF AbortPrinter
<1>3. CASE EndDocPrinter(j) BY <1>3 DEF EndDocPrinter
<1>4. CASE EndDocRelease(j) BY <1>4 DEF EndDocRelease
<1>5. CASE UNCHANGED Status BY <1>5
<1> QED BY <1>1, <1>2, <1>3, <1>4, <1>5 DEF Application, WritePrinter, EndDocLogged

\* RestartJob looks at JOB_PENDING_DELETION where it sets JOB_RESTART.
LEMMA ClientNotRestarting ==
  ASSUME TypeInv, DeletingNotRestarting, NEW c \in Clients, Client(c)
  PROVE  DeletingNotRestarting'
<1> USE StatusType DEF DeletingNotRestarting
<1>1. ASSUME NEW j \in Jobs, SetJobDelete(c, j) PROVE DeletingNotRestarting'
  BY <1>1 DEF SetJobDelete
<1>2. ASSUME NEW j \in Jobs, SetJobCancel(c, j) PROVE DeletingNotRestarting'
  BY <1>2 DEF SetJobCancel
<1>3. ASSUME NEW j \in Jobs, NEW n \in Jobs, SetJobChain(c, j, n) PROVE DeletingNotRestarting'
  BY <1>3 DEF SetJobChain
<1>4. CASE SetPrinterUnblock(c) BY <1>4 DEF SetPrinterUnblock
<1>5. CASE SetJobAlerted(c) BY <1>5 DEF SetJobAlerted
<1>6. CASE PauseOrResumeJob(c) BY <1>6 DEF PauseOrResumeJob
<1>7. CASE RestartJob(c) BY <1>7 DEF RestartJob, Has
<1>8. CASE UNCHANGED Status BY <1>8
<1> QED
  BY <1>1, <1>2, <1>3, <1>4, <1>5, <1>6, <1>7, <1>8
  DEF Client, SetJobTrace, PauseOrResumePort, ControlPrintProcessor, PauseOrResumeLogged, SetJobTail

\* DiscardJobFromPortThread looks at JOB_RESTART as DeleteJob does.
LEMMA PortThreadNotRestarting ==
  ASSUME TypeInv, DeletingNotRestarting, NEW p \in Ports, PortThread(p)
  PROVE  DeletingNotRestarting'
<1> USE StatusType DEF DeletingNotRestarting
<1>1. CASE PortThreadBegins(p) BY <1>1 DEF PortThreadBegins
<1>2. CASE OpenPrintProcessor(p) BY <1>2 DEF OpenPrintProcessor
<1>3. CASE ReadPrinter(p) BY <1>3 DEF ReadPrinter
<1>4. CASE ReadPrinterTimesOut(p) BY <1>4 DEF ReadPrinterTimesOut
<1>5. CASE EndDocPort(p) BY <1>5 DEF EndDocPort
<1>6. CASE SentToPrinter(p) BY <1>6 DEF SentToPrinter
<1>7. CASE SentToPrinterAlerted(p) BY <1>7 DEF SentToPrinterAlerted
<1>8. CASE PrintDone(p) BY <1>8 DEF PrintDone
<1>9. CASE DiscardJobFromPortThread(p) BY <1>9 DEF DiscardJobFromPortThread, Restarting, Has
<1>10. CASE PortThreadFinishes(p) BY <1>10 DEF PortThreadFinishes
<1>11. CASE PortThreadKeeps(p) BY <1>11 DEF PortThreadKeeps
<1>12. CASE PortThreadReleases(p) BY <1>12 DEF PortThreadReleases
<1>13. CASE UNCHANGED Status BY <1>13
<1> QED
  BY <1>1, <1>2, <1>3, <1>4, <1>5, <1>6, <1>7, <1>8, <1>9, <1>10, <1>11, <1>12, <1>13
  DEF PortThread, PortThreadWaits, PortThreadExits, PortThreadTakes, DevQueryPrint, PrintRawJob,
      ReadPrinterWakes, WritePort, ClosePrinter, SentToPrinterTail, EndDocPortDone,
      ClosePrintProcessor

\* The scheduler sets neither flag.
LEMMA SchedulerNotRestarting ==
  ASSUME TypeInv, DeletingNotRestarting, SchedulerThread
  PROVE  DeletingNotRestarting'
<1> USE StatusType DEF DeletingNotRestarting
<1>1. ASSUME NEW j, NEW p, NEW d, AssignJob(p, j, d) PROVE DeletingNotRestarting'
  BY <1>1 DEF AssignJob
<1>2. ASSUME NEW p \in Ports, ScheduleFirstJob(p) PROVE DeletingNotRestarting'
  BY <1>1, <1>2 DEF ScheduleFirstJob, ScheduleFromWaitingList
<1>3. ASSUME NEW p \in Ports, ScheduleByMemory(p) PROVE DeletingNotRestarting'
  BY <1>1, <1>3 DEF ScheduleByMemory, ScheduleFromWaitingList
<1>4. ASSUME NEW p \in Ports, SchedulePort(p) PROVE DeletingNotRestarting'
  BY <1>1, <1>4 DEF SchedulePort
<1>5. ASSUME NEW p \in Ports, AbandonJob(p) PROVE DeletingNotRestarting'
  BY <1>5 DEF AbandonJob
<1>6. CASE UNCHANGED Status BY <1>6
<1> QED
  BY <1>2, <1>3, <1>4, <1>5, <1>6
  DEF SchedulerThread, SchedulerWakes, UpdateJobList, NoFirstJob, NoMoreByMemory, AbandonLogged,
      PortThreadGone, PortThreadReady, SchedulerSleeps, JobExpires, DropWaitingJob,
      DestroyPortThread, CreatePortThread, SkipPort

\* No job is ever pending deletion and to be restarted at once, whatever the
\* applications, the clients and the port threads do to it, in whatever order
\* (a job in both states would stay in the queue forever, spooler.c 2626).
THEOREM NeverDeletingAndRestarting == Spec => []DeletingNotRestarting
<1>1. Init => DeletingNotRestarting BY DEF Init, DeletingNotRestarting
<1>2. TypeInv /\ DeletingNotRestarting /\ [Next]_vars => DeletingNotRestarting'
  <2> SUFFICES ASSUME TypeInv, DeletingNotRestarting, [Next]_vars
               PROVE  DeletingNotRestarting'
    OBVIOUS
  <2>1. CASE Next
    BY <2>1, DeleteJobNotRestarting, ApplicationNotRestarting, ClientNotRestarting,
       PortThreadNotRestarting, SchedulerNotRestarting DEF Next
  <2>2. CASE UNCHANGED vars BY <2>2 DEF vars, jobVars, DeletingNotRestarting
  <2> QED BY <2>1, <2>2
<1> QED BY <1>1, <1>2, TypesAlways, PTL DEF Spec

----------------------------------------------------------------------------
(* OnePortPerJob holds because a job keeps JOB_DESPOOLING while a port has  *)
(* it (ClaimedJobsDespool) and because a port is given a job only while its *)
(* thread waits without one (PortHandshake).  The three are inductive       *)
(* together.                                                                *)

Ownership == OnePortPerJob /\ ClaimedJobsDespool /\ PortHandshake

\* A step that neither gives a job to a port nor takes it away.
Quiet ==
  /\ \A j \in Jobs : /\ "DESPOOLING" \in Status[j] => "DESPOOLING" \in Status'[j]
                     /\ app[j] # "idle" => app'[j] # "idle"
                     /\ j \in Queued' \/ OnWaitingList(j)' => j \in Queued \/ OnWaitingList(j)
  /\ \A p \in Ports : /\ port'[p].Status = port[p].Status
                      /\ port'[p].pIniJob = port[p].pIniJob
                      /\ port'[p].Semaphore = port[p].Semaphore
                      /\ pt'[p].job = pt[p].job
                      /\ \/ pt'[p].pc = pt[p].pc
                         \/ pt[p].pc \notin Jobless /\ pt'[p].pc \notin Jobless
  /\ sched.pc = "create" => sched'.pc = "create" /\ sched'.port = sched.port

\* Such a step leaves every port's jobs as they are.
LEMMA QuietOwnership ==
  ASSUME TypeInv, Ownership, Quiet
  PROVE  Ownership'
<1>1. \A p \in Ports : Claimed(p)' = Claimed(p) BY DEF Claimed, Quiet
<1>2. OnePortPerJob' BY <1>1 DEF OnePortPerJob, Ownership
<1>3. \A p \in Ports : Claimed(p) \subseteq Jobs
  BY DEF Claimed, TypeInv, TypeOK, GlobalTypes, ThreadTypes, PortRecords, PtRecords
<1>4. ClaimedJobsDespool' BY <1>1, <1>3 DEF ClaimedJobsDespool, Ownership, Quiet
<1>5. PortHandshake' BY DEF PortHandshake, Ownership, Quiet, Jobless
<1> QED BY <1>2, <1>4, <1>5 DEF Ownership

\* The parts of Quiet that an action settles by what it leaves alone.
LEMMA Unmoved ==
  ASSUME TypeInv
  PROVE  /\ UNCHANGED port => \A p \in Ports :
              /\ port'[p].Status = port[p].Status /\ port'[p].pIniJob = port[p].pIniJob
              /\ port'[p].Semaphore = port[p].Semaphore
         /\ UNCHANGED pt => \A p \in Ports : pt'[p].job = pt[p].job /\ pt'[p].pc = pt[p].pc
         /\ UNCHANGED queue => Queued' = Queued
         /\ UNCHANGED waitingList => \A j \in Jobs : OnWaitingList(j)' = OnWaitingList(j)
BY DEF Queued, OnWaitingList

\* Unlinking a job from the queue brings no other one in.
LEMMA WithoutQueued ==
  ASSUME TypeInv, NEW j, queue' = Without(queue, j)
  PROVE  Queued' \subseteq Queued
<1>1. queue \in Seq(Queued) BY DEF Queued, TypeInv, TypeOK, JobTypes
<1>2. queue' \in Seq(Queued) BY <1>1, WithoutType
<1> QED BY <1>2 DEF Queued

\* Nor does dropping one from the waiting list.
LEMMA WithoutWaiting ==
  ASSUME TypeInv, NEW j, waitingList' = Without(waitingList, j)
  PROVE  \A k : OnWaitingList(k)' => OnWaitingList(k)
<1> DEFINE W == {waitingList[i] : i \in DOMAIN waitingList}
<1>1. waitingList \in Seq(W) BY DEF TypeInv, TypeOK, ListTypes
<1>2. waitingList' \in Seq(W) BY <1>1, WithoutType
<1> QED BY <1>2 DEF OnWaitingList

\* DeleteJob never takes a job from a port: it leaves JOB_DESPOOLING alone.
LEMMA DeleteJobOwnership ==
  ASSUME TypeInv, Ownership, NEW t \in Threads, DeleteJob(t)
  PROVE  Ownership'
<1>1. UNCHANGED <<app, pt, sched, waitingList>>
  BY DEF DeleteJob, DeleteJobStart, DeleteJobCancel, DeleteJobControl, DeleteJobReferenced,
         DeleteJobShadow, DeleteJobUnlink, DeleteJobLogged, DeleteJobFree, DeleteJobFiles,
         DeleteJobTraced, Frame, listVars
<1>2. \A j \in Jobs : "DESPOOLING" \in Status[j] => "DESPOOLING" \in Status'[j]
  BY StatusType
  DEF DeleteJob, DeleteJobStart, DeleteJobCancel, DeleteJobControl, DeleteJobReferenced,
      DeleteJobShadow, DeleteJobUnlink, DeleteJobLogged, DeleteJobFree, DeleteJobFiles,
      DeleteJobTraced
<1>3. Queued' \subseteq Queued
  <2>1. UNCHANGED queue \/ \E j : queue' = Without(queue, j)
    BY DEF DeleteJob, DeleteJobStart, DeleteJobCancel, DeleteJobControl, DeleteJobReferenced,
           DeleteJobShadow, DeleteJobUnlink, DeleteJobLogged, DeleteJobFree, DeleteJobFiles,
           DeleteJobTraced
  <2> QED BY <2>1, WithoutQueued, Unmoved
<1>4. \A p \in Ports :
        /\ port'[p].Status = port[p].Status /\ port'[p].pIniJob = port[p].pIniJob
        /\ port'[p].Semaphore = port[p].Semaphore
  <2>0. port \in [Ports -> PortRecords] BY DEF TypeInv, TypeOK, GlobalTypes
  <2>1. CASE DeleteJobCancel(t) BY <2>0, <2>1 DEF DeleteJobCancel, PortRecords
  <2>2. CASE DeleteJobControl(t) BY <2>0, <2>2 DEF DeleteJobControl, PortRecords
  <2>3. CASE UNCHANGED port BY <2>3
  <2> QED
    BY <2>1, <2>2, <2>3
    DEF DeleteJob, DeleteJobStart, DeleteJobReferenced, DeleteJobShadow, DeleteJobUnlink,
        DeleteJobLogged, DeleteJobFree, DeleteJobFiles, DeleteJobTraced
<1>5. Quiet BY <1>1, <1>2, <1>3, <1>4, Unmoved DEF Quiet
<1> QED BY <1>5, QuietOwnership

\* No port has the job that StartDocPrinter creates; the other calls are quiet.
LEMMA ApplicationOwnership ==
  ASSUME TypeInv, Ownership, NEW j \in Jobs, Application(j)
  PROVE  Ownership'
<1>1. UNCHANGED <<port, pt, sched, waitingList>>
  BY DEF Application, StartDocPrinter, WritePrinter, AbortPrinter, EndDocPrinter, EndDocRelease,
         EndDocLogged, AppFrame, listVars
<1>a. app \in [Jobs -> AppPcs] BY DEF TypeInv, TypeOK, ThreadTypes
<1>2. CASE StartDocPrinter(j)
  <2>1. app[j] = "idle" /\ app' = [app EXCEPT ![j] = "spooling"]
        /\ Status' = [Status EXCEPT ![j] = {"SPOOLING"}] /\ queue' = Append(queue, j)
    BY <1>2 DEF StartDocPrinter
  <2>2. \A p \in Ports : Claimed(p)' = Claimed(p) BY <1>1 DEF Claimed
  <2>3. OnePortPerJob' BY <2>2 DEF OnePortPerJob, Ownership
  <2>4. PortHandshake' BY <1>1 DEF PortHandshake, Ownership
  <2>5. \A p \in Ports : Claimed(p) \subseteq Jobs \ {j}
    <3>1. \A p \in Ports : j \notin Claimed(p) BY <2>1 DEF Ownership, ClaimedJobsDespool
    <3> QED BY <3>1 DEF Claimed, TypeInv, TypeOK, GlobalTypes, ThreadTypes, PortRecords, PtRecords
  <2>6. \A p \in Ports : \A k \in Claimed(p)' : "DESPOOLING" \in Status'[k] /\ app'[k] # "idle"
    BY <1>a, <2>1, <2>2, <2>5, StatusType DEF Ownership, ClaimedJobsDespool
  <2>7. \A k \in Jobs : k \in Queued' => k = j \/ k \in Queued
    BY <2>1 DEF Queued, TypeInv, TypeOK, JobTypes
  <2>8. \A k \in Jobs : k \in Queued' \/ OnWaitingList(k)' => app'[k] # "idle"
    BY <1>1, <1>a, <2>1, <2>7, Unmoved DEF Ownership, ClaimedJobsDespool
  <2> QED BY <2>3, <2>4, <2>6, <2>8 DEF Ownership, ClaimedJobsDespool
<1>3. CASE ~ StartDocPrinter(j)
  <2>1. UNCHANGED queue
    BY <1>3 DEF Application, WritePrinter, AbortPrinter, EndDocPrinter, EndDocRelease, EndDocLogged
  <2>2. \A k \in Jobs : app[k] # "idle" => app'[k] # "idle"
    BY <1>3, <1>a DEF Application, WritePrinter, AbortPrinter, EndDocPrinter, EndDocRelease,
                      EndDocLogged
  <2>3. \A k \in Jobs : "DESPOOLING" \in Status[k] => "DESPOOLING" \in Status'[k]
    <3>1. CASE EndDocRelease(j) BY <3>1, EndDocTakes
    <3> QED
      BY <1>3, <3>1, StatusType
      DEF Application, WritePrinter, AbortPrinter, EndDocPrinter, EndDocLogged
  <2>4. Quiet BY <1>1, <2>1, <2>2, <2>3, Unmoved DEF Quiet
  <2> QED BY <2>4, QuietOwnership
<1> QED BY <1>2, <1>3

\* No command of a client gives a job to a port or takes one away.
LEMMA ClientOwnership ==
  ASSUME TypeInv, Ownership, NEW c \in Clients, Client(c)
  PROVE  Ownership'
<1> USE DEF SetJobTrace, SetJobDelete, SetJobCancel, SetJobChain, SetJob, SetPrinterUnblock,
            SetJobAlerted, PauseOrResumeJob, PauseOrResumePort, ControlPrintProcessor,
            PauseOrResumeLogged, RestartJob, SetJobTail
<1>1. UNCHANGED <<queue, app, pt, sched, waitingList>>
  BY DEF Client, ClientFrame, listVars
<1>2. \A j \in Jobs : "DESPOOLING" \in Status[j] => "DESPOOLING" \in Status'[j]
  <2> USE StatusType
  <2>1. ASSUME NEW j \in Jobs, SetJobDelete(c, j) \/ SetJobCancel(c, j)
        PROVE  \A k \in Jobs : "DESPOOLING" \in Status[k] => "DESPOOLING" \in Status'[k]
    BY <2>1
  <2>2. ASSUME NEW j \in Jobs, NEW n \in Jobs, SetJobChain(c, j, n)
        PROVE  \A k \in Jobs : "DESPOOLING" \in Status[k] => "DESPOOLING" \in Status'[k]
    BY <2>2
  <2>3. CASE SetPrinterUnblock(c) \/ SetJobAlerted(c) \/ PauseOrResumeJob(c) BY <2>3
  <2>4. CASE RestartJob(c) BY <2>4 DEF Has
  <2>5. CASE UNCHANGED Status BY <2>5
  <2> QED BY <2>1, <2>2, <2>3, <2>4, <2>5, ZenonT(60) DEF Client
<1>3. \A p \in Ports :
        /\ port'[p].Status = port[p].Status /\ port'[p].pIniJob = port[p].pIniJob
        /\ port'[p].Semaphore = port[p].Semaphore
  <2>0. port \in [Ports -> PortRecords] BY DEF TypeInv, TypeOK, GlobalTypes
  <2>1. CASE PauseOrResumePort(c) BY <2>0, <2>1 DEF PortRecords
  <2>2. CASE ControlPrintProcessor(c)
    <3> DEFINE q == client[c].port
    <3>1. PICK proc, section :
            port' = [port EXCEPT ![q].hProc = proc, ![q].InCriticalSection = section]
      BY <2>2
    <3>2. ASSUME NEW p \in Ports, NEW r, r = [port[p] EXCEPT !.hProc = proc],
                 port'[p] = [r EXCEPT !.InCriticalSection = section]
          PROVE  /\ port'[p].Status = port[p].Status /\ port'[p].pIniJob = port[p].pIniJob
                 /\ port'[p].Semaphore = port[p].Semaphore
      <4>1. port[p] \in PortRecords BY <2>0
      <4>2. /\ r.Status = port[p].Status /\ r.pIniJob = port[p].pIniJob
            /\ r.Semaphore = port[p].Semaphore
        BY <3>2, <4>1 DEF PortRecords
      <4>3. DOMAIN r = DOMAIN port[p] BY <3>2
      <4> QED BY <3>2, <4>1, <4>2, <4>3 DEF PortRecords
    <3>3. ASSUME NEW p \in Ports, p = q
          PROVE  port'[p] = [[port[p] EXCEPT !.hProc = proc] EXCEPT !.InCriticalSection = section]
      BY <2>0, <3>1, <3>3
    <3>4. ASSUME NEW p \in Ports, p # q PROVE port'[p] = port[p] BY <2>0, <3>1, <3>4
    <3> QED BY <3>2, <3>3, <3>4
  <2>3. CASE RestartJob(c) BY <2>0, <2>3 DEF PortRecords
  <2>4. CASE UNCHANGED port BY <2>4
  <2> QED BY <2>1, <2>2, <2>3, <2>4 DEF Client
<1>4. Quiet BY <1>1, <1>2, <1>3, Unmoved DEF Quiet
<1> QED BY <1>4, QuietOwnership

\* A step that takes no port more than it has, and leaves what is claimed alone.
LEMMA FewerClaims ==
  ASSUME TypeInv, Ownership,
         \A p \in Ports : Claimed(p)' \subseteq Claimed(p),
         \A p \in Ports : \A j \in Claimed(p)' :
           "DESPOOLING" \in Status[j] => "DESPOOLING" \in Status'[j],
         UNCHANGED <<app, queue, waitingList>>
  PROVE  OnePortPerJob' /\ ClaimedJobsDespool'
<1>1. OnePortPerJob' BY DEF OnePortPerJob, Ownership
<1>2. ClaimedJobsDespool' BY DEF ClaimedJobsDespool, Ownership, Queued, OnWaitingList
<1> QED BY <1>1, <1>2

\* The actions of a port's thread that neither wait for, take nor give up a job.
PrintsOn(p) ==
  \/ PortThreadBegins(p) \/ DevQueryPrint(p) \/ OpenPrintProcessor(p)
  \/ PrintRawJob(p) \/ ReadPrinter(p) \/ ReadPrinterWakes(p)
  \/ ReadPrinterTimesOut(p) \/ WritePort(p) \/ ClosePrinter(p)
  \/ EndDocPort(p) \/ SentToPrinter(p) \/ SentToPrinterAlerted(p)
  \/ SentToPrinterTail(p) \/ EndDocPortDone(p) \/ PrintDone(p)
  \/ ClosePrintProcessor(p) \/ DiscardJobFromPortThread(p) \/ PortThreadKeeps(p)

\* While a thread prints its job, what the ports have stays the same.
LEMMA PrintsOnQuiet ==
  ASSUME TypeInv, NEW p \in Ports, PrintsOn(p)
  PROVE  Quiet
<1> USE DEF PortThreadBegins, DevQueryPrint, OpenPrintProcessor, PrintRawJob, ReadPrinter,
            ReadPrinterWakes, ReadPrinterTimesOut, WritePort, ClosePrinter, EndDocPort,
            SentToPrinter, SentToPrinterAlerted, SentToPrinterTail, EndDocPortDone, PrintDone,
            ClosePrintProcessor, DiscardJobFromPortThread, PortThreadKeeps
<1>1. UNCHANGED <<queue, app, sched, waitingList>> BY DEF PrintsOn, PortFrame, listVars
<1>2. \A j \in Jobs : "DESPOOLING" \in Status[j] => "DESPOOLING" \in Status'[j]
  BY StatusType, ZenonT(30) DEF PrintsOn
<1>3. \A q \in Ports :
        /\ port'[q].Status = port[q].Status /\ port'[q].pIniJob = port[q].pIniJob
        /\ port'[q].Semaphore = port[q].Semaphore
  <2>0. port \in [Ports -> PortRecords] BY DEF TypeInv, TypeOK, GlobalTypes
  <2>1. CASE OpenPrintProcessor(p) BY <2>0, <2>1 DEF PortRecords
  <2>2. CASE ClosePrintProcessor(p) BY <2>0, <2>2 DEF PortRecords
  <2>3. CASE UNCHANGED port BY <2>3
  <2> QED BY <2>1, <2>2, <2>3 DEF PrintsOn
<1>4. \A q \in Ports :
        /\ pt'[q].job = pt[q].job
        /\ pt'[q].pc = pt[q].pc \/ (pt[q].pc \notin Jobless /\ pt'[q].pc \notin Jobless)
  <2> USE DEF Jobless
  <2>0. pt \in [Ports -> PtRecords] BY DEF TypeInv, TypeOK, ThreadTypes
  <2>1. ASSUME NEW pc \in PortPcs \ Jobless, PortGoesTo(p, pc), pt[p].pc \notin Jobless
        PROVE  \A q \in Ports :
                 /\ pt'[q].job = pt[q].job
                 /\ pt'[q].pc = pt[q].pc \/ (pt[q].pc \notin Jobless /\ pt'[q].pc \notin Jobless)
    BY <2>0, <2>1 DEF PortGoesTo, PtRecords
  <2>2. CASE DevQueryPrint(p) BY <2>0, <2>2 DEF PortGoesTo, PtRecords
  <2>3. CASE PrintRawJob(p) BY <2>0, <2>3 DEF PortGoesTo, PtRecords, PortAt
  <2>4. CASE ~ DevQueryPrint(p) /\ ~ PrintRawJob(p)
    <3>1. \E pc \in PortPcs \ Jobless : PortGoesTo(p, pc)
      BY <2>4 DEF PrintsOn, PortPcs
    <3>2. pt[p].pc \notin Jobless BY <2>4 DEF PrintsOn, PortAt, Hold
    <3> QED BY <2>1, <3>1, <3>2
  <2> QED BY <2>2, <2>3, <2>4
<1> QED BY <1>1, <1>2, <1>3, <1>4, Unmoved DEF Quiet

\* A port's thread takes only what the scheduler gave its port, and clears
\* JOB_DESPOOLING only when its port does not keep the job for its chain.
LEMMA PortThreadOwnership ==
  ASSUME TypeInv, Ownership, NEW p \in Ports, PortThread(p)
  PROVE  Ownership'
<1>p. port \in [Ports -> PortRecords] BY DEF TypeInv, TypeOK, GlobalTypes
<1>t. pt \in [Ports -> PtRecords] BY DEF TypeInv, TypeOK, ThreadTypes
<1>h. PortHandshake BY DEF Ownership
<1>1. CASE PortThreadWaits(p)
  <2>1. /\ port' = [port EXCEPT ![p].Status = @ \cup {"WAITING"}]
        /\ pt' = [pt EXCEPT ![p].pc = "wait"]
        /\ UNCHANGED <<app, queue, waitingList, Status, sched>>
        /\ pt[p].pc \in {"started", "top"}
    BY <1>1 DEF PortThreadWaits, PortGoesTo, PortFrame, PortAt, Hold, listVars
  <2>2. \A q \in Ports : Claimed(q)' = Claimed(q)
    BY <1>p, <1>t, <2>1 DEF Claimed, PortRecords, PtRecords
  <2>3. PortHandshake'
    BY <1>p, <1>t, <1>h, <2>1 DEF PortHandshake, PortRecords, PtRecords, Jobless
  <2> QED BY <2>1, <2>2, <2>3, FewerClaims DEF Ownership
<1>2. CASE PortThreadExits(p)
  <2> DEFINE stopped == [port EXCEPT ![p].Status = @ \ {"THREADRUNNING", "WAITING"}]
  <2>1. /\ port' = [stopped EXCEPT ![p].Semaphore = FALSE]
        /\ pt' = [pt EXCEPT ![p].pc = "none"]
        /\ UNCHANGED <<app, queue, waitingList, Status, sched>>
        /\ pt[p].pc = "wait"
    BY <1>p, <1>2 DEF PortThreadExits, PortGoesTo, PortFrame, PortAt, listVars, PortRecords
  <2>2. stopped \in [Ports -> PortRecords] BY <1>p DEF PortRecords
  <2>3. \A q \in Ports : /\ stopped[q].pIniJob = port[q].pIniJob
                         /\ stopped[q].Semaphore = port[q].Semaphore
                         /\ q # p => stopped[q] = port[q]
    BY <1>p DEF PortRecords
  <2>4. stopped[p].Status = port[p].Status \ {"THREADRUNNING", "WAITING"} BY <1>p DEF PortRecords
  <2> HIDE DEF stopped
  <2>5. \A q \in Ports : Claimed(q)' = Claimed(q)
    BY <1>t, <2>1, <2>2, <2>3 DEF Claimed, PortRecords, PtRecords
  <2>6. PortHandshake'
    BY <1>t, <1>h, <2>1, <2>2, <2>3, <2>4 DEF PortHandshake, PortRecords, PtRecords, Jobless
  <2> QED BY <2>1, <2>5, <2>6, FewerClaims DEF Ownership
<1>3. CASE PortThreadTakes(p)
  <2>1. /\ port' = [port EXCEPT ![p].Semaphore = FALSE]
        /\ pt' = [pt EXCEPT ![p] = PortThreadAt("taken", port[p].pIniJob)]
        /\ UNCHANGED <<app, queue, waitingList, Status, sched>>
        /\ pt[p].pc = "wait" /\ port[p].Semaphore /\ "RUNTHREAD" \in port[p].Status
    BY <1>3 DEF PortThreadTakes, PortFrame, PortAt, listVars
  <2>2. pt'[p].pc = "taken" /\ pt'[p].job = port[p].pIniJob
        /\ \A q \in Ports : q # p => pt'[q] = pt[q]
    BY <1>t, <2>1 DEF PortThreadAt
  <2>3. \A q \in Ports : Claimed(q)' \subseteq Claimed(q)
    BY <1>p, <2>1, <2>2 DEF Claimed, PortRecords
  <2>4. PortHandshake'
    BY <1>p, <1>h, <2>1, <2>2 DEF PortHandshake, PortRecords, Jobless
  <2> QED BY <2>1, <2>3, <2>4, FewerClaims DEF Ownership
<1>4. CASE PortThreadFinishes(p)
  <2>1. /\ UNCHANGED <<app, queue, waitingList, sched>>
        /\ \E j \in {NoJob, port[p].pIniJob} : port' = [port EXCEPT ![p].pIniJob = j]
        /\ \E pc \in {"log", "keep"} : pt' = [pt EXCEPT ![p].pc = pc]
        /\ pt[p].pc = "post"
    BY <1>4 DEF PortThreadFinishes, PortGoesTo, PortFrame, PortAt
  <2>2. \A j \in Jobs : "DESPOOLING" \in Status[j] => "DESPOOLING" \in Status'[j]
    BY <1>4, StatusType DEF PortThreadFinishes
  <2>3. \A q \in Ports : Claimed(q)' \subseteq Claimed(q)
    BY <1>p, <1>t, <2>1 DEF Claimed, PortRecords, PtRecords
  <2>4. \A q \in Ports : Claimed(q) \subseteq Jobs
    BY <1>p, <1>t DEF Claimed, PortRecords, PtRecords
  <2>5. PortHandshake'
    BY <1>p, <1>t, <1>h, <2>1 DEF PortHandshake, PortRecords, PtRecords, Jobless
  <2> QED BY <2>1, <2>2, <2>3, <2>4, <2>5, FewerClaims DEF Ownership
<1>5. CASE PortThreadReleases(p)
  <2>1. /\ UNCHANGED <<app, queue, waitingList, sched>>
        /\ port' = [port EXCEPT ![p].cJobs = @ - 1]
        /\ pt' = [pt EXCEPT ![p] = PortThreadAt("top", NoJob)]
        /\ pt[p].pc \in {"shadow", "release"}
    BY <1>5 DEF PortThreadReleases, PortFrame, PortAt, listVars
  <2>2. pt'[p].pc = "top" /\ pt'[p].job = NoJob /\ \A q \in Ports : q # p => pt'[q] = pt[q]
    BY <1>t, <2>1 DEF PortThreadAt
  <2>3. \A q \in Ports : /\ port'[q].Status = port[q].Status /\ port'[q].pIniJob = port[q].pIniJob
                         /\ port'[q].Semaphore = port[q].Semaphore
    BY <1>p, <2>1 DEF PortRecords
  <2>4. \A q \in Ports : Claimed(q)' \subseteq Claimed(q) BY <2>2, <2>3 DEF Claimed
  <2>5. \A j \in Jobs : /\ "DESPOOLING" \in Status[j]
                        /\ j # pt[p].job \/ port[p].pIniJob = j
                        => "DESPOOLING" \in Status'[j]
    BY <1>5, ReleaseTakes
  <2>6. \A q \in Ports : Claimed(q) \subseteq Jobs
    BY <1>p, <1>t DEF Claimed, PortRecords, PtRecords
  <2>7. \A q \in Ports : \A j \in Claimed(q)' : j # pt[p].job \/ port[p].pIniJob = j
    BY <2>2, <2>3, <2>4, ZenonT(30) DEF Claimed, Ownership, OnePortPerJob
  <2>8. PortHandshake'
    BY <1>h, <2>1, <2>2, <2>3 DEF PortHandshake, Jobless
  <2> QED BY <2>1, <2>4, <2>5, <2>6, <2>7, <2>8, FewerClaims DEF Ownership
<1>6. CASE PrintsOn(p) BY <1>6, PrintsOnQuiet, QuietOwnership
<1> QED BY <1>1, <1>2, <1>3, <1>4, <1>5, <1>6 DEF PortThread, PrintsOn

\* What the scheduler does to a port when it gives it a job.
LEMMA AssignJobPort ==
  ASSUME TypeInv, NEW p \in Ports, NEW j \in Jobs, NEW d, AssignJob(p, j, d)
  PROVE  /\ port'[p].Status = port[p].Status \ {"WAITING"}
         /\ port'[p].pIniJob = j /\ port'[p].Semaphore
         /\ \A q \in Ports : q # p => port'[q] = port[q]
         /\ "DESPOOLING" \in Status'[j]
         /\ \A k \in Jobs : "DESPOOLING" \in Status[k] => "DESPOOLING" \in Status'[k]
<1>1. port \in [Ports -> PortRecords] BY DEF TypeInv, TypeOK, GlobalTypes
<1>2. /\ port'[p].Status = port[p].Status \ {"WAITING"}
      /\ port'[p].pIniJob = j /\ port'[p].Semaphore
      /\ \A q \in Ports : q # p => port'[q] = port[q]
  BY <1>1 DEF AssignJob, PortRecords
<1>3. /\ "DESPOOLING" \in Status'[j]
      /\ \A k \in Jobs : "DESPOOLING" \in Status[k] => "DESPOOLING" \in Status'[k]
  BY StatusType DEF AssignJob
<1> QED BY <1>2, <1>3

\* A port is given a job while its thread waits: a job no port has, or the one
\* it has already (the rest of a chain).
LEMMA AssignOwnership ==
  ASSUME TypeInv, Ownership, NEW p \in Ports, NEW j \in Jobs, NEW d, AssignJob(p, j, d),
         Ready(p), sched.pc # "create", app[j] # "idle",
         Schedulable(j) \/ port[p].pIniJob = j,
         UNCHANGED <<app, queue, pt>>,
         \A k : OnWaitingList(k)' => OnWaitingList(k)
  PROVE  Ownership'
<1>1. pt[p].pc = "wait" /\ pt[p].job = NoJob
  BY DEF Ready, Ownership, PortHandshake, Jobless
<1>2. Claimed(p)' = {j} BY <1>1, AssignJobPort, ConstantsAssumption DEF Claimed
<1>3. \A q \in Ports : q # p => Claimed(q)' = Claimed(q) BY AssignJobPort DEF Claimed
<1>4. \A q \in Ports : q # p => j \notin Claimed(q)
  <2>1. CASE Schedulable(j)
    BY <2>1 DEF Schedulable, Has, NotSchedulable, Ownership, ClaimedJobsDespool
  <2>2. CASE port[p].pIniJob = j
    BY <2>2, ConstantsAssumption DEF Ownership, OnePortPerJob, Claimed
  <2> QED BY <2>1, <2>2
<1>5. OnePortPerJob' BY <1>2, <1>3, <1>4 DEF Ownership, OnePortPerJob
<1>6. \A q \in Ports : Claimed(q) \subseteq Jobs
  BY DEF Claimed, TypeInv, TypeOK, GlobalTypes, ThreadTypes, PortRecords, PtRecords
<1>7. ClaimedJobsDespool'
  <2>1. \A q \in Ports : \A k \in Claimed(q)' : "DESPOOLING" \in Status'[k] /\ app'[k] # "idle"
    BY <1>2, <1>3, <1>6, AssignJobPort DEF Ownership, ClaimedJobsDespool
  <2>2. \A k \in Jobs : k \in Queued' \/ OnWaitingList(k)' => app'[k] # "idle"
    BY Unmoved DEF Ownership, ClaimedJobsDespool
  <2> QED BY <2>1, <2>2 DEF ClaimedJobsDespool
<1>8. PortHandshake'
  BY <1>1, AssignJobPort DEF Ownership, PortHandshake, Ready, Jobless
<1> QED BY <1>5, <1>7, <1>8 DEF Ownership

\* The same for a job that has waited for memory.
LEMMA ScheduleFromWaitingListOwnership ==
  ASSUME TypeInv, Ownership, NEW p \in Ports, NEW j \in Jobs, ScheduleFromWaitingList(j, p),
         OnWaitingList(j), sched.pc # "create"
  PROVE  Ownership'
<1>1. Ready(p) /\ Schedulable(j) BY DEF ScheduleFromWaitingList, Assignable, Ready
<1>2. \E d : AssignJob(p, j, d) BY DEF ScheduleFromWaitingList
<1>3. UNCHANGED <<app, queue, pt>> BY DEF ScheduleFromWaitingList, SchedulerFrame
<1>4. \A k : OnWaitingList(k)' => OnWaitingList(k) BY WithoutWaiting DEF ScheduleFromWaitingList
<1>5. app[j] # "idle" BY DEF Ownership, ClaimedJobsDespool
<1> QED BY <1>1, <1>2, <1>3, <1>4, <1>5, AssignOwnership

\* The jobs the scheduler chooses from exist, and are free or the port's own.
LEMMA ChosenJobs ==
  ASSUME TypeInv, Ownership
  PROVE  /\ \A p \in Ports : \A j \in Candidate(p) :
              j \in Jobs /\ app[j] # "idle" /\ (Schedulable(j) \/ port[p].pIniJob = j)
         /\ \A j \in FirstFromWaitingList(Jobs) : j \in Jobs /\ OnWaitingList(j)
         /\ \A j \in FirstFromWaitingList(Fitting) : j \in Jobs /\ OnWaitingList(j)
<1>1. ASSUME NEW p \in Ports, NEW j \in Candidate(p)
      PROVE  j \in Jobs /\ app[j] # "idle" /\ (Schedulable(j) \/ port[p].pIniJob = j)
  <2>0. j \in Jobs BY ChoiceType
  <2>1. CASE port[p].pIniJob # NoJob
    <3>1. j = port[p].pIniJob /\ j \in Claimed(p) BY <2>1 DEF Candidate, Claimed
    <3> QED BY <2>0, <3>1 DEF Ownership, ClaimedJobsDespool
  <2>2. CASE port[p].pIniJob = NoJob
    <3>1. j \in Eligible BY <2>2, ChoiceType DEF Candidate
    <3> QED BY <2>0, <3>1 DEF Eligible, Ownership, ClaimedJobsDespool
  <2> QED BY <2>1, <2>2
<1>2. \A j \in FirstFromWaitingList(Jobs) : OnWaitingList(j)
  BY DEF FirstFromWaitingList, OnWaitingList
<1>3. \A j \in FirstFromWaitingList(Fitting) : OnWaitingList(j)
  BY DEF FirstFromWaitingList, OnWaitingList
<1> QED BY <1>1, <1>2, <1>3, ChoiceType

\* The scheduler's actions that leave every port alone.
LooksOn ==
  \/ SchedulerWakes \/ UpdateJobList \/ NoFirstJob \/ NoMoreByMemory
  \/ AbandonLogged \/ SchedulerSleeps
  \/ \E j \in Jobs : JobExpires(j) \/ DropWaitingJob(j)
  \/ \E p \in Ports : AbandonJob(p) \/ SkipPort(p)

\* Those actions leave what the ports have as it is.
LEMMA LooksOnQuiet ==
  ASSUME TypeInv, LooksOn
  PROVE  Quiet
<1> USE DEF SchedulerWakes, UpdateJobList, NoFirstJob, NoMoreByMemory, AbandonLogged,
            SchedulerSleeps, JobExpires, DropWaitingJob, AbandonJob, SkipPort
<1>1. UNCHANGED <<queue, app, port, pt>> BY DEF LooksOn, SchedulerFrame
<1>2. \A j \in Jobs : "DESPOOLING" \in Status[j] => "DESPOOLING" \in Status'[j]
  BY StatusType DEF LooksOn
<1>3. \A k : OnWaitingList(k)' => OnWaitingList(k)
  <2>1. UNCHANGED waitingList \/ \E j : waitingList' = Without(waitingList, j)
    BY DEF LooksOn, listVars
  <2> QED BY <2>1, WithoutWaiting DEF OnWaitingList
<1>4. sched.pc # "create"
  BY DEF LooksOn, SchedulerAt, CheckPort
<1> QED BY <1>1, <1>2, <1>3, <1>4, Unmoved DEF Quiet

\* The scheduler never gives a port a job that another port has.
LEMMA SchedulerOwnership ==
  ASSUME TypeInv, Ownership, SchedulerThread
  PROVE  Ownership'
<1>p. port \in [Ports -> PortRecords] BY DEF TypeInv, TypeOK, GlobalTypes
<1>t. pt \in [Ports -> PtRecords] BY DEF TypeInv, TypeOK, ThreadTypes
<1>h. PortHandshake BY DEF Ownership
<1>c. \A q \in Ports : Claimed(q) \subseteq Jobs
  BY <1>p, <1>t DEF Claimed, PortRecords, PtRecords
<1>1. CASE LooksOn BY <1>1, LooksOnQuiet, QuietOwnership
<1>2. ASSUME NEW p \in Ports, ScheduleFirstJob(p)
      PROVE  Ownership'
  <2>1. PICK j \in FirstFromWaitingList(Jobs) : ScheduleFromWaitingList(j, p)
    BY <1>2 DEF ScheduleFirstJob
  <2>2. sched.pc # "create" BY <1>2 DEF ScheduleFirstJob, SchedulerAt
  <2> QED BY <2>1, <2>2, ChosenJobs, ScheduleFromWaitingListOwnership
<1>3. ASSUME NEW p \in Ports, ScheduleByMemory(p)
      PROVE  Ownership'
  <2>1. PICK j \in FirstFromWaitingList(Fitting) : ScheduleFromWaitingList(j, p)
    BY <1>3 DEF ScheduleByMemory
  <2>2. sched.pc # "create" BY <1>3 DEF ScheduleByMemory, SchedulerAt
  <2> QED BY <2>1, <2>2, ChosenJobs, ScheduleFromWaitingListOwnership
<1>4. ASSUME NEW p \in Ports, SchedulePort(p)
      PROVE  Ownership'
  <2>1. PICK j \in Candidate(p) : \E d : AssignJob(p, j, d) BY <1>4 DEF SchedulePort
  <2>2. Ready(p) /\ sched.pc # "create" BY <1>4 DEF SchedulePort, CheckPort, SchedulerAt
  <2>3. UNCHANGED <<app, queue, pt>> BY <1>4 DEF SchedulePort, SchedulerFrame
  <2>4. \A k : OnWaitingList(k)' => OnWaitingList(k) BY <1>4 DEF SchedulePort, OnWaitingList
  <2> QED BY <2>1, <2>2, <2>3, <2>4, ChosenJobs, AssignOwnership
<1>5. ASSUME NEW p \in Ports, DestroyPortThread(p)
      PROVE  Ownership'
  <2>1. /\ port' = [port EXCEPT ![p].Status = @ \ {"RUNTHREAD"}, ![p].Semaphore = TRUE]
        /\ UNCHANGED <<app, queue, pt, Status>>
        /\ Ready(p) /\ sched.pc = "ports"
    BY <1>5 DEF DestroyPortThread, SchedulerFrame, CheckPort, SchedulerAt
  <2>2. /\ port'[p].Status = port[p].Status \ {"RUNTHREAD"} /\ port'[p].Semaphore
        /\ \A q \in Ports : /\ port'[q].pIniJob = port[q].pIniJob
                            /\ q # p => port'[q] = port[q]
    BY <1>p, <2>1 DEF PortRecords
  <2>3. \A q \in Ports : Claimed(q)' = Claimed(q) BY <2>1, <2>2 DEF Claimed
  <2>4. PortHandshake' BY <1>h, <2>1, <2>2 DEF PortHandshake, Ready, Jobless
  <2>5. OnePortPerJob' BY <2>3 DEF OnePortPerJob, Ownership
  <2>6. \A k \in Jobs : OnWaitingList(k)' => OnWaitingList(k) \/ k \in Candidate(p)
    <3>1. \/ UNCHANGED waitingList
          \/ \E j \in Candidate(p) : waitingList' = Append(waitingList, j)
      BY <1>5, Zenon DEF DestroyPortThread
    <3>2. ASSUME NEW j \in Candidate(p), waitingList' = Append(waitingList, j)
          PROVE  \A k \in Jobs : OnWaitingList(k)' => OnWaitingList(k) \/ k \in Candidate(p)
      BY <3>2, ChoiceType DEF OnWaitingList, TypeInv, TypeOK, ListTypes
    <3> QED BY <3>1, <3>2, Unmoved
  <2>7. \A k \in Jobs : k \in Queued' \/ OnWaitingList(k)' => app'[k] # "idle"
    BY <2>1, <2>6, ChosenJobs, Unmoved DEF Ownership, ClaimedJobsDespool
  <2>8. ClaimedJobsDespool' BY <2>1, <2>3, <2>7 DEF Ownership, ClaimedJobsDespool
  <2> QED BY <2>4, <2>5, <2>8 DEF Ownership
<1>6. CASE PortThreadGone
  <2>1. /\ port' = [port EXCEPT ![sched.port].Status = @ \ {"WAITING"}]
        /\ UNCHANGED <<app, queue, waitingList, pt, Status>>
        /\ sched.pc = "destroy"
    BY <1>6 DEF PortThreadGone, SchedulerFrame, listVars
  <2>2. \A q \in Ports : /\ port'[q].pIniJob = port[q].pIniJob
                         /\ port'[q].Semaphore = port[q].Semaphore
                         /\ port'[q].Status \in {port[q].Status, port[q].Status \ {"WAITING"}}
    BY <1>p, <2>1 DEF PortRecords
  <2>3. \A q \in Ports : Claimed(q)' = Claimed(q) BY <2>1, <2>2 DEF Claimed
  <2>4. PortHandshake' BY <1>h, <2>1, <2>2 DEF PortHandshake, Jobless
  <2> QED BY <2>1, <2>3, <2>4, FewerClaims DEF Ownership
<1>7. ASSUME NEW p \in Ports, CreatePortThread(p)
      PROVE  Ownership'
  <2>1. /\ port' = [port EXCEPT ![p].Status = @ \cup {"RUNTHREAD"}]
        /\ pt' = [pt EXCEPT ![p].pc = "started"]
        /\ UNCHANGED <<app, queue, waitingList, Status>>
        /\ "THREADRUNNING" \notin port[p].Status
        /\ sched.pc = "ports" /\ sched' = [NextPort(p) EXCEPT !.pc = "create", !.port = p]
    BY <1>7 DEF CreatePortThread, SchedulerFrame, CheckPort, SchedulerAt, listVars
  <2>2. pt[p].pc = "none" BY <1>h, <2>1 DEF PortHandshake
  <2>3. /\ port'[p].Status = port[p].Status \cup {"RUNTHREAD"}
        /\ \A q \in Ports : /\ port'[q].pIniJob = port[q].pIniJob
                            /\ port'[q].Semaphore = port[q].Semaphore
                            /\ q # p => port'[q] = port[q]
    BY <1>p, <2>1 DEF PortRecords
  <2>4. /\ pt'[p].pc = "started"
        /\ \A q \in Ports : pt'[q].job = pt[q].job /\ (q # p => pt'[q] = pt[q])
    BY <1>t, <2>1 DEF PtRecords
  <2>5. sched'.pc = "create" /\ sched'.port = p
    BY <2>1 DEF NextPort, TypeInv, TypeOK, ThreadTypes, SchedRecords
  <2>6. \A q \in Ports : Claimed(q)' = Claimed(q) BY <2>3, <2>4 DEF Claimed
  <2>7. PortHandshake' BY <1>h, <2>1, <2>2, <2>3, <2>4, <2>5 DEF PortHandshake, Jobless
  <2> QED BY <2>1, <2>6, <2>7, FewerClaims DEF Ownership
<1>8. CASE PortThreadReady
  <2>1. /\ port' = [port EXCEPT ![sched.port].Status = @ \cup {"THREADRUNNING"}]
        /\ UNCHANGED <<app, queue, waitingList, pt, Status>>
        /\ sched.pc = "create"
    BY <1>8 DEF PortThreadReady, SchedulerFrame, listVars
  <2>2. \A q \in Ports : /\ port'[q].pIniJob = port[q].pIniJob
                         /\ port'[q].Semaphore = port[q].Semaphore
                         /\ q # sched.port => port'[q] = port[q]
                         /\ q = sched.port =>
                              port'[q].Status = port[q].Status \cup {"THREADRUNNING"}
    BY <1>p, <2>1 DEF PortRecords
  <2>3. \A q \in Ports : Claimed(q)' = Claimed(q) BY <2>1, <2>2 DEF Claimed
  <2>4. PortHandshake' BY <1>h, <2>1, <2>2 DEF PortHandshake, Jobless
  <2> QED BY <2>1, <2>3, <2>4, FewerClaims DEF Ownership
<1> QED
  BY <1>1, <1>2, <1>3, <1>4, <1>5, <1>6, <1>7, <1>8 DEF SchedulerThread, LooksOn

\* At first no port has a job and no port has a thread.
LEMMA InitOwnership == Init => Ownership
<1> SUFFICES ASSUME Init PROVE Ownership OBVIOUS
<1>1. \A p \in Ports : Claimed(p) = {} BY DEF Init, Claimed, PortThreadAt
<1>2. \A j \in Jobs : j \notin Queued /\ ~ OnWaitingList(j) BY DEF Init, Queued, OnWaitingList
<1>3. PortHandshake BY DEF Init, PortHandshake, PortThreadAt
<1> QED BY <1>1, <1>2, <1>3 DEF Ownership, OnePortPerJob, ClaimedJobsDespool

\* So it always holds.
LEMMA OwnershipAlways == Spec => []Ownership
<1>1. TypeInv /\ Ownership /\ [Next]_vars => Ownership'
  <2> SUFFICES ASSUME TypeInv, Ownership, [Next]_vars PROVE Ownership' OBVIOUS
  <2>1. CASE Next
    BY <2>1, DeleteJobOwnership, ApplicationOwnership, ClientOwnership, PortThreadOwnership,
       SchedulerOwnership DEF Next
  <2>2. CASE UNCHANGED vars
    <3>1. Quiet BY <2>2, Unmoved DEF vars, jobVars, listVars, Quiet
    <3> QED BY <3>1, QuietOwnership
  <2> QED BY <2>1, <2>2
<1> QED BY <1>1, InitOwnership, TypesAlways, PTL DEF Spec

\* However many jobs, ports and clients there are, and whatever they do, no job
\* is ever given to two ports or printed by the threads of two ports.
THEOREM NeverOnTwoPorts == Spec => []OnePortPerJob
<1>1. Ownership => OnePortPerJob BY DEF Ownership
<1> QED BY <1>1, OwnershipAlways, PTL

\* What a port has, or its thread works on, keeps DESPOOLING until they let go of
\* it, whoever restarts, deletes or pauses the job meanwhile.
THEOREM ClaimsDespool == Spec => []ClaimedJobsDespool
<1>1. Ownership => ClaimedJobsDespool BY DEF Ownership
<1> QED BY <1>1, OwnershipAlways, PTL

\* The scheduler and the thread of a port never disagree on who acts next: the
\* semaphore is signalled for a thread that waits for it only.
THEOREM PortsAgree == Spec => []PortHandshake
<1>1. Ownership => PortHandshake BY DEF Ownership
<1> QED BY <1>1, OwnershipAlways, PTL

=============================================================================
