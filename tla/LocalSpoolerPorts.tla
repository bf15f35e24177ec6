------------------------ MODULE LocalSpoolerPorts ------------------------
(***************************************************************************)
(* What the scheduler and the port threads keep in step with each other,   *)
(* for every number of jobs and ports: which job a port was given, the     *)
(* counts of INIPORT and of the cluster, the lists and the memory.         *)
(***************************************************************************)
EXTENDS LocalSpoolerProofs, FiniteSetTheorems

\* No call of SetJob chains a job to another (the CHAIN command).
NoChains == "CHAIN" \notin Commands

\* No job is chained to another, and DeleteJob has none to go on to.
Unchained ==
  /\ \A j \in Jobs : job[j].NextJobId = NoJob /\ job[j].pCurrentIniJob = NoJob
  /\ \A t \in Threads : del[t].next = NoJob

\* Where DeleteJob is inside SplSem, and where it has no job any more.
InSection ==
  \A t \in Threads :
    /\ del[t].pc \in {"start", "counted", "free"} => splSem = t
    /\ del[t].pc \in {"idle", "files", "trace"} => del[t].job = NoJob

\* The scheduler keeps a job only over the logging of an abandoned one.
SchedulersJob == sched.pc # "abandon" => sched.job = NoJob

\* Where a port thread has cleared pIniPort->pIniJob and still has its job.
LetGo == {"log", "keep", "shadow", "release"}

\* A job's pIniPort is the port that was given it, the port's pIniJob is what its
\* thread prints or is woken for, and only a thread that is about to end has lost
\* PP_RUNTHREAD.
PortsGivenJobs ==
  \A p \in Ports :
    /\ \A j \in Jobs : job[j].pIniPort = p <=> Given(p, j)
    /\ ~ Woken(p) => port[p].pIniJob = IF pt[p].pc \in LetGo THEN NoJob ELSE pt[p].job
    /\ Woken(p) => port[p].pIniJob # NoJob
    /\ "RUNTHREAD" \notin port[p].Status =>
         \/ pt[p].pc = "none"
         \/ pt[p].pc = "wait" /\ port[p].Semaphore /\ sched.pc = "destroy" /\ sched.port = p

\* Nothing is twice in a list.
Once(s) == \A m, n \in DOMAIN s : s[m] = s[n] => m = n

\* No job is twice in the queue or on the waiting list, and who waits needs memory.
ListsOnce ==
  /\ Once(queue) /\ Once(waitingList)
  /\ \A j \in Jobs : OnWaitingList(j) => Required[j] > 0

----------------------------------------------------------------------------
(* What a stretch of a thread does to SplSem and to DeleteJob's records.    *)

\* Thread t's stretch leaves DeleteJob's records alone or calls it for job j.
MayDelete(t, j) ==
  /\ del[t].pc = "idle"
  /\ splSem' = splSem \/ {splSem, splSem'} \subseteq {NoThread, t}
  /\ \/ UNCHANGED del
     \/ splSem' = t /\ \E leave \in BOOLEAN : Call(t, j, leave)

\* An application deletes the job it spools, if any.
LEMMA ApplicationDeletes ==
  ASSUME TypeInv, NEW j \in Jobs, Application(j)
  PROVE  MayDelete(j, j)
BY DEF Application, StartDocPrinter, WritePrinter, AbortPrinter, EndDocPrinter, EndDocRelease,
       EndDocLogged, DeleteJobCheckAndLeave, Enter, Hold, MayDelete

\* A client deletes a job of the queue or one it holds a reference to.
LEMMA ClientDeletes ==
  ASSUME TypeInv, NEW c \in Clients, Client(c)
  PROVE  \E j : /\ MayDelete(c, j)
                /\ j \in Queued \/ c \in ClientsHolding(j) \/ UNCHANGED del
<1> USE DEF MayDelete, Enter, Hold, SetJob
<1>1. ASSUME NEW j \in Jobs, NEW command \in AllCommands, SetJobTrace(c, j, command)
      PROVE  MayDelete(c, j) /\ j \in Queued
  BY <1>1 DEF SetJobTrace
<1>2. ASSUME NEW j \in Jobs, SetJobDelete(c, j) PROVE MayDelete(c, j) /\ j \in Queued
  BY <1>2 DEF SetJobDelete
<1>3. ASSUME NEW j \in Jobs, SetJobCancel(c, j) PROVE MayDelete(c, j) /\ j \in Queued
  BY <1>3 DEF SetJobCancel
<1>4. ASSUME NEW j \in Jobs, NEW n \in Jobs, SetJobChain(c, j, n)
      PROVE  MayDelete(c, j) /\ j \in Queued
  BY <1>4 DEF SetJobChain, DeleteJobCheckAndLeave
<1>5. CASE SetPrinterUnblock(c) \/ PauseOrResumeJob(c) \/ PauseOrResumePort(c)
           \/ ControlPrintProcessor(c) \/ PauseOrResumeLogged(c)
  BY <1>5 DEF SetPrinterUnblock, PauseOrResumeJob, PauseOrResumePort, ControlPrintProcessor,
              PauseOrResumeLogged
<1>6. CASE SetJobAlerted(c) BY <1>6 DEF SetJobAlerted, ClientsHolding
<1>7. CASE RestartJob(c)
  <2>1. client[c].pc = "trace" BY <1>7 DEF RestartJob
  <2>2. MayDelete(c, client[c].job) BY <1>7 DEF RestartJob, DeleteJobCheckAndLeave
  <2> QED BY <2>1, <2>2 DEF ClientsHolding
<1>8. CASE SetJobTail(c) BY <1>8 DEF SetJobTail, DeleteJobCheckAndLeave
<1> HIDE DEF MayDelete, Enter, Hold, SetJob
<1> QED BY <1>1, <1>2, <1>3, <1>4, <1>5, <1>6, <1>7, <1>8 DEF Client

\* A port thread deletes the job it has printed, if any.
LEMMA PortThreadDeletes ==
  ASSUME TypeInv, NEW p \in Ports, PortThread(p)
  PROVE  MayDelete(p, pt[p].job) /\ (pt[p].job \in Jobs \/ UNCHANGED del)
<1> USE DEF MayDelete, Enter, Hold, Outside, PortAt
<1>1. CASE PortThreadWaits(p) BY <1>1 DEF PortThreadWaits
<1>2. CASE PortThreadReleases(p)
  BY <1>2 DEF PortThreadReleases, DeleteJobCheckAndHold, TypeInv, PortsHaveJobs, Jobless
<1>3. CASE ClosePrinter(p) \/ SentToPrinterTail(p) \/ EndDocPortDone(p)
  BY <1>3 DEF ClosePrinter, SentToPrinterTail, EndDocPortDone, DeleteJobCheckAndLeave,
              TypeInv, PortsHaveJobs, Jobless
<1>4. CASE SentToPrinter(p) \/ SentToPrinterAlerted(p)
  BY <1>4 DEF SentToPrinter, SentToPrinterAlerted, DeleteSentJob, TypeInv, PortsHaveJobs, Jobless
<1>5. CASE \/ PortThreadExits(p) \/ PortThreadTakes(p) \/ PortThreadBegins(p) \/ DevQueryPrint(p)
           \/ OpenPrintProcessor(p) \/ PrintRawJob(p) \/ ReadPrinter(p) \/ ReadPrinterWakes(p)
  BY <1>5 DEF PortThreadExits, PortThreadTakes, PortThreadBegins, DevQueryPrint,
              OpenPrintProcessor, PrintRawJob, ReadPrinter, ReadPrinterWakes
<1>6. CASE \/ ReadPrinterTimesOut(p) \/ WritePort(p) \/ EndDocPort(p) \/ PrintDone(p)
           \/ ClosePrintProcessor(p) \/ DiscardJobFromPortThread(p) \/ PortThreadFinishes(p)
           \/ PortThreadKeeps(p)
  BY <1>6 DEF ReadPrinterTimesOut, WritePort, EndDocPort, PrintDone, ClosePrintProcessor,
              DiscardJobFromPortThread, PortThreadFinishes, PortThreadKeeps
<1> HIDE DEF MayDelete, Enter, Hold, Outside, PortAt
<1> QED BY <1>1, <1>2, <1>3, <1>4, <1>5, <1>6 DEF PortThread

\* The scheduler calls DeleteJob for nobody.
LEMMA SchedulerDeletes ==
  ASSUME SchedulerThread
  PROVE  UNCHANGED del /\ MayDelete(Scheduler, NoJob)
<1> USE DEF SchedulerFrame, SchedulerAt, CheckPort, Enter, Hold, MayDelete, ScheduleFromWaitingList
<1>1. CASE \/ SchedulerWakes \/ UpdateJobList \/ NoFirstJob \/ NoMoreByMemory
           \/ AbandonLogged \/ PortThreadGone \/ PortThreadReady \/ SchedulerSleeps
  BY <1>1 DEF SchedulerWakes, UpdateJobList, NoFirstJob, NoMoreByMemory, AbandonLogged,
              PortThreadGone, PortThreadReady, SchedulerSleeps
<1>2. CASE \E j \in Jobs : JobExpires(j) \/ DropWaitingJob(j)
  BY <1>2 DEF JobExpires, DropWaitingJob
<1>3. CASE \E p \in Ports : ScheduleFirstJob(p) \/ ScheduleByMemory(p) \/ SchedulePort(p)
  BY <1>3 DEF ScheduleFirstJob, ScheduleByMemory, SchedulePort
<1>4. CASE \E p \in Ports : AbandonJob(p) \/ DestroyPortThread(p) \/ CreatePortThread(p) \/ SkipPort(p)
  BY <1>4 DEF AbandonJob, DestroyPortThread, CreatePortThread, SkipPort
<1> HIDE DEF SchedulerFrame, SchedulerAt, CheckPort, Enter, Hold, MayDelete, ScheduleFromWaitingList
<1> QED BY <1>1, <1>2, <1>3, <1>4 DEF SchedulerThread

\* Every step is one of DeleteJob or a stretch of a thread outside it.
LEMMA StretchDeletes ==
  ASSUME TypeInv, Next
  PROVE  \/ \E t \in Threads : DeleteJob(t)
         \/ \E t \in Threads : \E j : MayDelete(t, j)
<1>1. Jobs \subseteq Threads /\ Ports \subseteq Threads /\ Clients \subseteq Threads
      /\ Scheduler \in Threads
  BY DEF Threads
<1> QED
  BY <1>1, ApplicationDeletes, ClientDeletes, PortThreadDeletes, SchedulerDeletes DEF Next

\* DeleteJob runs inside SplSem or enters it, and moves nobody but its caller.
LEMMA DeleteJobMoves ==
  ASSUME TypeInv, NEW t \in Threads, DeleteJob(t)
  PROVE  /\ {splSem, splSem'} \subseteq {NoThread, t}
         /\ \A s \in Threads \ {t} : del'[s] = del[s]
         /\ UNCHANGED <<app, client, pt, sched, waitingList, scheduleList, availMemory,
                        cFullPrintingJobs>>
<1> USE DEF TypeInv, TypeOK, DeleteTypes, Deleting, Reentering, Return, GoTo, Call, Frame, listVars
<1>1. CASE DeleteJobStart(t) BY <1>1 DEF DeleteJobStart
<1>2. CASE DeleteJobCancel(t) \/ DeleteJobControl(t) BY <1>2 DEF DeleteJobCancel, DeleteJobControl
<1>3. CASE DeleteJobReferenced(t) \/ DeleteJobShadow(t)
  BY <1>3 DEF DeleteJobReferenced, DeleteJobShadow
<1>4. CASE DeleteJobUnlink(t) \/ DeleteJobLogged(t) BY <1>4 DEF DeleteJobUnlink, DeleteJobLogged
<1>5. CASE DeleteJobFree(t) \/ DeleteJobFiles(t) \/ DeleteJobTraced(t)
  BY <1>5 DEF DeleteJobFree, DeleteJobFiles, DeleteJobTraced
<1> HIDE DEF TypeInv, TypeOK, DeleteTypes, Deleting, Reentering, Return, GoTo, Call, Frame, listVars
<1> QED BY <1>1, <1>2, <1>3, <1>4, <1>5 DEF DeleteJob

\* What a port was given, and its place in the handshake, are not its affair.
LEMMA DeleteJobPorts ==
  ASSUME TypeInv, NEW t \in Threads, DeleteJob(t)
  PROVE  \A p \in Ports :
           /\ port'[p].Status = port[p].Status /\ port'[p].pIniJob = port[p].pIniJob
           /\ port'[p].Semaphore = port[p].Semaphore /\ port'[p].cJobs = port[p].cJobs
<1>0. port \in [Ports -> PortRecords] BY DEF TypeInv, TypeOK, GlobalTypes
<1>1. CASE DeleteJobCancel(t) BY <1>0, <1>1 DEF DeleteJobCancel, PortRecords
<1>2. CASE DeleteJobControl(t) BY <1>0, <1>2 DEF DeleteJobControl, PortRecords
<1>3. CASE UNCHANGED port BY <1>3
<1> QED
  BY <1>1, <1>2, <1>3
  DEF DeleteJob, DeleteJobStart, DeleteJobReferenced, DeleteJobShadow, DeleteJobUnlink,
      DeleteJobLogged, DeleteJobFree, DeleteJobFiles, DeleteJobTraced

----------------------------------------------------------------------------
(* Who is inside SplSem.                                                    *)

\* DeleteJob enters and leaves SplSem where InSection says.
LEMMA DeleteJobInSection ==
  ASSUME TypeInv, InSection, NEW t \in Threads, DeleteJob(t)
  PROVE  InSection'
<1>1. del \in [Threads -> DelRecords] BY DEF TypeInv, TypeOK, DeleteTypes
<1>2. /\ del'[t].pc \in {"start", "counted", "free"} => splSem' = t
      /\ del'[t].pc \in {"idle", "files", "trace"} => del'[t].job = NoJob
  <2> USE <1>1 DEF DelRecords, Deleting, Reentering, Return, GoTo, Call, NotDeleting, InSection
  <2>1. CASE DeleteJobStart(t) BY <2>1 DEF DeleteJobStart
  <2>2. CASE DeleteJobCancel(t) \/ DeleteJobControl(t)
    BY <2>2 DEF DeleteJobCancel, DeleteJobControl
  <2>3. CASE DeleteJobReferenced(t) \/ DeleteJobShadow(t)
    BY <2>3 DEF DeleteJobReferenced, DeleteJobShadow
  <2>4. CASE DeleteJobUnlink(t) \/ DeleteJobLogged(t) BY <2>4 DEF DeleteJobUnlink, DeleteJobLogged
  <2>5. CASE DeleteJobFree(t) BY <2>5 DEF DeleteJobFree
  <2>6. CASE DeleteJobFiles(t) BY <2>6 DEF DeleteJobFiles
  <2>7. CASE DeleteJobTraced(t) BY <2>7 DEF DeleteJobTraced
  <2> HIDE DEF DelRecords, Deleting, Reentering, Return, GoTo, Call, NotDeleting, InSection
  <2> QED BY <2>1, <2>2, <2>3, <2>4, <2>5, <2>6, <2>7 DEF DeleteJob
<1>3. ASSUME NEW s \in Threads \ {t}
      PROVE  /\ del'[s].pc \in {"start", "counted", "free"} => splSem' = s
             /\ del'[s].pc \in {"idle", "files", "trace"} => del'[s].job = NoJob
  BY DeleteJobMoves, ConstantsAssumption DEF ConstantsAssumption, InSection
<1> QED BY <1>2, <1>3 DEF InSection

\* So does a stretch that calls DeleteJob.
LEMMA StretchInSection ==
  ASSUME TypeInv, InSection, NEW t \in Threads, NEW j, MayDelete(t, j)
  PROVE  InSection'
<1>1. del \in [Threads -> DelRecords] BY DEF TypeInv, TypeOK, DeleteTypes
<1>2. \A s \in Threads \ {t} : del'[s] = del[s] BY <1>1 DEF MayDelete, Call
<1>3. ASSUME NEW s \in Threads \ {t}, splSem = s PROVE splSem' = s
  BY <1>3, ConstantsAssumption DEF ConstantsAssumption, MayDelete
<1>4. /\ del'[t].pc \in {"start", "counted", "free"} => splSem' = t
      /\ del'[t].pc \in {"idle", "files", "trace"} => del'[t].job = NoJob
  BY <1>1 DEF MayDelete, Call, InSection
<1> QED BY <1>2, <1>3, <1>4 DEF InSection

\* A thread at work on a job it will unlink or free holds SplSem.
LEMMA InSectionAlways == Spec => []InSection
<1>1. Init => InSection BY DEF Init, InSection, NotDeleting
<1>2. TypeInv /\ InSection /\ [Next]_vars => InSection'
  <2> SUFFICES ASSUME TypeInv, InSection, [Next]_vars PROVE InSection' OBVIOUS
  <2>1. CASE Next BY <2>1, StretchDeletes, DeleteJobInSection, StretchInSection
  <2>2. CASE UNCHANGED vars BY <2>2 DEF vars, InSection
  <2> QED BY <2>1, <2>2
<1> QED BY <1>1, <1>2, TypesAlways, PTL DEF Spec

----------------------------------------------------------------------------
(* Without chains no job has a successor.                                   *)

\* DeleteJob chains nothing, and has nothing to go on to if nothing is chained.
LEMMA DeleteJobUnchained ==
  ASSUME TypeInv, Unchained, NEW t \in Threads, DeleteJob(t)
  PROVE  Unchained'
<1>1. del \in [Threads -> DelRecords] /\ job \in [Jobs -> JobRecords]
  BY DEF TypeInv, TypeOK, DeleteTypes, JobTypes
<1>2. ASSUME DeleteJobFree(t)
      PROVE  \A j \in Jobs : job'[j].NextJobId = NoJob /\ job'[j].pCurrentIniJob = NoJob
  <2>1. PICK j \in Jobs : job' = [job EXCEPT ![j].signature = "freed", ![j].WaitForWrite = "null",
                                             ![j].NextJobId = NoJob]
    BY <1>2 DEF DeleteJobFree, Deleting, TypeInv, DeletersHaveJobs
  <2> QED BY <1>1, <2>1 DEF Unchained, JobRecords
<1>3. \A j \in Jobs : job'[j].NextJobId = NoJob /\ job'[j].pCurrentIniJob = NoJob
  <2>1. CASE UNCHANGED job BY <2>1 DEF Unchained
  <2> QED
    BY <1>2, <2>1
    DEF DeleteJob, DeleteJobStart, DeleteJobCancel, DeleteJobControl, DeleteJobReferenced,
        DeleteJobShadow, DeleteJobUnlink, DeleteJobLogged, DeleteJobFiles, DeleteJobTraced
<1>4. del'[t].next = NoJob
  <2> USE <1>1 DEF DelRecords, Deleting, Reentering, Return, GoTo, Call, NotDeleting, Unchained
  <2>0. DeleteJobStart(t) => job[del[t].job].NextJobId = NoJob
    BY DEF DeleteJobStart, TypeInv, DeletersHaveJobs
  <2>1. CASE DeleteJobStart(t) BY <2>0, <2>1 DEF DeleteJobStart
  <2>2. CASE DeleteJobCancel(t) \/ DeleteJobControl(t)
    BY <2>2 DEF DeleteJobCancel, DeleteJobControl
  <2>3. CASE DeleteJobReferenced(t) \/ DeleteJobShadow(t)
    BY <2>3 DEF DeleteJobReferenced, DeleteJobShadow
  <2>4. CASE DeleteJobUnlink(t) \/ DeleteJobLogged(t) BY <2>4 DEF DeleteJobUnlink, DeleteJobLogged
  <2>5. CASE DeleteJobFree(t) BY <2>5 DEF DeleteJobFree
  <2>6. CASE DeleteJobFiles(t) BY <2>6 DEF DeleteJobFiles
  <2>7. CASE DeleteJobTraced(t) BY <2>7 DEF DeleteJobTraced
  <2> HIDE DEF DelRecords, Deleting, Reentering, Return, GoTo, Call, NotDeleting, Unchained
  <2> QED BY <2>1, <2>2, <2>3, <2>4, <2>5, <2>6, <2>7 DEF DeleteJob
<1> QED BY <1>3, <1>4, DeleteJobMoves DEF Unchained

\* A call of DeleteJob starts with no next job.
LEMMA StretchUnchained ==
  ASSUME TypeInv, NoChains, Unchained, NEW t \in Threads, NEW j, MayDelete(t, j)
  PROVE  \A s \in Threads : del'[s].next = NoJob
<1>1. del \in [Threads -> DelRecords] BY DEF TypeInv, TypeOK, DeleteTypes
<1> QED BY <1>1 DEF MayDelete, Call, Unchained

\* No job is chained to another.
NoLinks == \A j \in Jobs : job[j].NextJobId = NoJob /\ job[j].pCurrentIniJob = NoJob

\* An application chains no job,
LEMMA ApplicationUnchained ==
  ASSUME TypeInv, Unchained, NEW j \in Jobs, Application(j)
  PROVE  NoLinks'
<1> USE DEF Unchained, NoLinks
<1>1. job \in [Jobs -> JobRecords] BY DEF TypeInv, TypeOK, JobTypes
<1>2. CASE StartDocPrinter(j) BY <1>1, <1>2 DEF StartDocPrinter, JobRecords
<1>3. CASE WritePrinter(j)
  <2> DEFINE next == job[j].NextJobId
             chained == IF next \in Queued THEN job[next].Size ELSE 0
  <2>1. PICK length :
          job' = [job EXCEPT ![j].data = length, ![j].Size = Capped(length + chained),
                             ![j].unread = @ + (length - job[j].data),
                             ![j].WaitForWrite = IF @ = "null" THEN "null" ELSE "set"]
    BY <1>3 DEF WritePrinter
  <2> HIDE DEF chained
  <2> QED BY <1>1, <2>1 DEF JobRecords
<1>4. CASE EndDocPrinter(j) BY <1>1, <1>4 DEF EndDocPrinter, JobRecords
<1>5. CASE UNCHANGED job BY <1>5
<1> QED
  BY <1>2, <1>3, <1>4, <1>5 DEF Application, AbortPrinter, EndDocRelease, EndDocLogged

\* nor does a client that has no command for it,
LEMMA ClientUnchained ==
  ASSUME TypeInv, NoChains, Unchained, NEW c \in Clients, Client(c)
  PROVE  NoLinks'
<1> USE DEF Unchained, NoLinks
<1>1. job \in [Jobs -> JobRecords] BY DEF TypeInv, TypeOK, JobTypes
<1>2. ASSUME NEW j \in Jobs, SetJobDelete(c, j) \/ SetJobCancel(c, j) PROVE NoLinks'
  BY <1>1, <1>2 DEF SetJobDelete, SetJobCancel, JobRecords
<1>3. CASE SetJobAlerted(c) BY <1>1, <1>3 DEF SetJobAlerted, JobRecords
<1>4. ~ \E j, n \in Jobs : SetJobChain(c, j, n) BY DEF NoChains, SetJobChain, SetJob
<1>5. CASE UNCHANGED job BY <1>5
<1> QED
  BY <1>2, <1>3, <1>4, <1>5
  DEF Client, SetJobTrace, SetPrinterUnblock, PauseOrResumeJob, PauseOrResumePort,
      ControlPrintProcessor, PauseOrResumeLogged, RestartJob, SetJobTail

\* An unchained job has no next one and is read from itself.
LEMMA NextNone ==
  ASSUME TypeInv, Unchained, NEW j \in Jobs
  PROVE  NextInChain(j) = NoJob /\ Source(j) = j
<1>1. NoJob \notin Queued
  BY QueuedType, ConstantsAssumption DEF ConstantsAssumption, TypeInv, TypeOK
<1> QED BY <1>1 DEF NextInChain, Source, Unchained

\* nor does a port thread, which only follows a chain,
LEMMA PortThreadUnchained ==
  ASSUME TypeInv, Unchained, NEW p \in Ports, PortThread(p)
  PROVE  NoLinks'
<1> USE DEF Unchained, NoLinks
<1>1. job \in [Jobs -> JobRecords] BY DEF TypeInv, TypeOK, JobTypes
<1>2. pt[p].pc \notin Jobless => pt[p].job \in Jobs BY DEF TypeInv, PortsHaveJobs
<1>3. CASE PrintRawJob(p) BY <1>1, <1>3 DEF PrintRawJob, JobRecords
<1>4. CASE ReadPrinter(p) \/ ReadPrinterTimesOut(p)
  BY <1>1, <1>4 DEF ReadPrinter, ReadPrinterTimesOut, JobRecords
<1>5. CASE EndDocPort(p) \/ SentToPrinter(p)
  BY <1>1, <1>5 DEF EndDocPort, SentToPrinter, JobRecords
<1>6. CASE PortThreadFinishes(p)
  BY <1>1, <1>2, <1>6, NextNone DEF PortThreadFinishes, PortAt, Jobless, JobRecords
<1>7. CASE PortThreadReleases(p) BY <1>1, <1>7 DEF PortThreadReleases, JobRecords
<1>8. CASE UNCHANGED job BY <1>8
<1> QED
  BY <1>3, <1>4, <1>5, <1>6, <1>7, <1>8
  DEF PortThread, PortThreadWaits, PortThreadExits, PortThreadTakes, PortThreadBegins,
      DevQueryPrint, OpenPrintProcessor, ReadPrinterWakes, WritePort, ClosePrinter,
      SentToPrinterAlerted, SentToPrinterTail, EndDocPortDone, PrintDone, ClosePrintProcessor,
      DiscardJobFromPortThread, PortThreadKeeps

\* nor the scheduler.
LEMMA SchedulerUnchained ==
  ASSUME TypeInv, Unchained, SchedulerThread
  PROVE  NoLinks'
<1> USE DEF Unchained, NoLinks
<1>1. job \in [Jobs -> JobRecords] BY DEF TypeInv, TypeOK, JobTypes
<1>2. ASSUME NEW j, NEW p \in Ports, NEW d, AssignJob(p, j, d) PROVE NoLinks'
  <2>1. CASE j \in Jobs
    <3>1. PICK wait : job' = [job EXCEPT ![j].pIniPort = p, ![j].pCurrentIniJob = NoJob,
                                         ![j].WaitForWrite = wait]
      BY <1>1, <1>2, <2>1, Zenon DEF AssignJob
    <3> QED BY <1>1, <3>1 DEF JobRecords
  <2>2. CASE j \notin Jobs BY <1>1, <1>2, <2>2 DEF AssignJob
  <2> QED BY <2>1, <2>2
<1>3. ASSUME NEW p \in Ports, ScheduleFirstJob(p) \/ ScheduleByMemory(p) \/ SchedulePort(p)
      PROVE  \E j, d : AssignJob(p, j, d)
  BY <1>3 DEF ScheduleFirstJob, ScheduleByMemory, ScheduleFromWaitingList, SchedulePort
<1>4. CASE AbandonLogged BY <1>1, <1>4 DEF AbandonLogged, JobRecords
<1>5. CASE UNCHANGED job BY <1>5
<1> QED
  BY <1>2, <1>3, <1>4, <1>5
  DEF SchedulerThread, SchedulerWakes, UpdateJobList, NoFirstJob, NoMoreByMemory,
      PortThreadGone, PortThreadReady, SchedulerSleeps, JobExpires, DropWaitingJob, AbandonJob,
      DestroyPortThread, CreatePortThread, SkipPort

\* As long as nobody asks for a chain, no job has a successor.
LEMMA UnchainedAlways == ASSUME NoChains PROVE Spec => []Unchained
<1>1. Init => Unchained BY DEF Init, Unchained, NotDeleting
<1>2. TypeInv /\ Unchained /\ [Next]_vars => Unchained'
  <2> SUFFICES ASSUME TypeInv, Unchained, [Next]_vars PROVE Unchained' OBVIOUS
  <2>1. CASE \E t \in Threads : DeleteJob(t) BY <2>1, DeleteJobUnchained
  <2>2. CASE Next /\ ~ \E t \in Threads : DeleteJob(t)
    <3>1. NoLinks'
      BY <2>2, ApplicationUnchained, ClientUnchained, PortThreadUnchained, SchedulerUnchained
      DEF Next
    <3>2. \A t \in Threads : del'[t].next = NoJob
      BY <2>2, StretchDeletes, StretchUnchained
    <3> QED BY <3>1, <3>2 DEF Unchained, NoLinks
  <2>3. CASE UNCHANGED vars BY <2>3 DEF vars, jobVars, Unchained
  <2> QED BY <2>1, <2>2, <2>3
<1> QED BY <1>1, <1>2, TypesAlways, PTL DEF Spec

----------------------------------------------------------------------------
(* What the other threads leave alone.                                      *)

\* What a stretch of an application cannot change.
LEMMA ApplicationMoves ==
  ASSUME NEW j \in Jobs, Application(j)
  PROVE  UNCHANGED <<port, client, pt, sched, waitingList, scheduleList, availMemory,
                     cFullPrintingJobs>>
BY DEF Application, StartDocPrinter, WritePrinter, AbortPrinter, EndDocPrinter, EndDocRelease,
       EndDocLogged, AppFrame, listVars

\* What a stretch of a client cannot change.
LEMMA ClientMoves ==
  ASSUME NEW c \in Clients, Client(c)
  PROVE  UNCHANGED <<queue, app, pt, sched, waitingList, scheduleList, availMemory,
                     cFullPrintingJobs>>
BY DEF Client, ClientFrame, listVars, SetJobTrace, SetJobDelete, SetJobCancel, SetJobChain, SetJob,
       SetPrinterUnblock, SetJobAlerted, PauseOrResumeJob, PauseOrResumePort,
       ControlPrintProcessor, PauseOrResumeLogged, RestartJob, SetJobTail

\* What a stretch of a port thread cannot change.
LEMMA PortThreadMoves ==
  ASSUME NEW p \in Ports, PortThread(p)
  PROVE  UNCHANGED <<queue, app, client, sched, waitingList>>
<1>1. CASE PrintsOn(p)
  BY <1>1 DEF PrintsOn, PortFrame, listVars, PortThreadBegins, DevQueryPrint, OpenPrintProcessor,
       PrintRawJob, ReadPrinter, ReadPrinterWakes, ReadPrinterTimesOut, WritePort, ClosePrinter,
       EndDocPort, SentToPrinter, SentToPrinterAlerted, SentToPrinterTail, EndDocPortDone,
       PrintDone, ClosePrintProcessor, DiscardJobFromPortThread, PortThreadKeeps
<1>2. CASE ~ PrintsOn(p)
  BY <1>2 DEF PortThread, PrintsOn, PortThreadWaits, PortThreadExits, PortThreadTakes,
              PortThreadFinishes, PortThreadReleases, PortFrame, listVars
<1> QED BY <1>1, <1>2

\* What a stretch of the scheduler cannot change.
LEMMA SchedulerMoves ==
  ASSUME SchedulerThread
  PROVE  UNCHANGED <<queue, app, client, del>>
BY DEF SchedulerThread, SchedulerFrame, SchedulerWakes, UpdateJobList, NoFirstJob, NoMoreByMemory,
       AbandonLogged, PortThreadGone, PortThreadReady, SchedulerSleeps, JobExpires, DropWaitingJob,
       ScheduleFirstJob, ScheduleByMemory, SchedulePort, ScheduleFromWaitingList, AbandonJob,
       DestroyPortThread, CreatePortThread, SkipPort

----------------------------------------------------------------------------
\* The scheduler holds a job only while it logs that the job is abandoned.
LEMMA SchedulersJobAlways == Spec => []SchedulersJob
<1>1. Init => SchedulersJob BY DEF Init, SchedulersJob
<1>2. TypeInv /\ SchedulersJob /\ [Next]_vars => SchedulersJob'
  <2> SUFFICES ASSUME TypeInv, SchedulersJob, [Next]_vars PROVE SchedulersJob' OBVIOUS
  <2>0. sched \in SchedRecords BY DEF TypeInv, TypeOK, ThreadTypes
  <2>1. CASE SchedulerThread
    <3> USE <2>0 DEF SchedulersJob, SchedRecords, NextPort, SchedulerAt, CheckPort
    <3>1. CASE SchedulerWakes \/ UpdateJobList \/ NoFirstJob \/ NoMoreByMemory \/ SchedulerSleeps
      BY <3>1 DEF SchedulerWakes, UpdateJobList, NoFirstJob, NoMoreByMemory, SchedulerSleeps
    <3>2. CASE AbandonLogged \/ PortThreadGone \/ PortThreadReady
      BY <3>2 DEF AbandonLogged, PortThreadGone, PortThreadReady
    <3>3. CASE \E j \in Jobs : JobExpires(j) \/ DropWaitingJob(j)
      BY <3>3 DEF JobExpires, DropWaitingJob
    <3>4. CASE \E p \in Ports : ScheduleFirstJob(p) \/ ScheduleByMemory(p) \/ SchedulePort(p)
      BY <3>4 DEF ScheduleFirstJob, ScheduleByMemory, SchedulePort
    <3>5. CASE \E p \in Ports : AbandonJob(p)
      BY <3>5 DEF AbandonJob
    <3>6. CASE \E p \in Ports : DestroyPortThread(p) \/ CreatePortThread(p) \/ SkipPort(p)
      BY <3>6 DEF DestroyPortThread, CreatePortThread, SkipPort
    <3> HIDE DEF SchedulersJob, SchedRecords, NextPort, SchedulerAt, CheckPort
    <3> QED BY <2>1, <3>1, <3>2, <3>3, <3>4, <3>5, <3>6 DEF SchedulerThread
  <2>2. CASE UNCHANGED sched BY <2>2 DEF SchedulersJob
  <2> QED
    BY <2>1, <2>2, DeleteJobMoves, ApplicationMoves, ClientMoves, PortThreadMoves DEF Next, vars
<1> QED BY <1>1, <1>2, TypesAlways, PTL DEF Spec

----------------------------------------------------------------------------
(* What a port was given is what its thread prints.                         *)

\* A step that leaves the ports, their jobs and their threads alone.
LEMMA SameGiven ==
  ASSUME PortsGivenJobs, UNCHANGED <<pt, sched>>,
         \A p \in Ports : /\ port'[p].Status = port[p].Status /\ port'[p].pIniJob = port[p].pIniJob
                          /\ port'[p].Semaphore = port[p].Semaphore,
         \A j \in Jobs : job'[j].pIniPort = job[j].pIniPort
  PROVE  PortsGivenJobs'
BY DEF PortsGivenJobs, Woken, Given

\* No job is given to a port or taken from it.
SamePorts == \A j \in Jobs : job'[j].pIniPort = job[j].pIniPort

\* No job comes into being.
StillFreed == \A j \in Jobs : Freed(j)' => Freed(j)

\* DeleteJob takes no job from its port.
LEMMA DeleteJobSamePorts ==
  ASSUME TypeInv, NEW t \in Threads, DeleteJob(t)
  PROVE  SamePorts
<1> USE DEF SamePorts
<1>1. job \in [Jobs -> JobRecords] BY DEF TypeInv, TypeOK, JobTypes
<1>2. CASE DeleteJobFree(t)
  <2>1. PICK j \in Jobs : job' = [job EXCEPT ![j].signature = "freed", ![j].WaitForWrite = "null",
                                             ![j].NextJobId = NoJob]
    BY <1>2 DEF DeleteJobFree, Deleting, TypeInv, DeletersHaveJobs
  <2> QED BY <1>1, <2>1 DEF JobRecords
<1>3. CASE UNCHANGED job BY <1>3
<1> QED
  BY <1>2, <1>3
  DEF DeleteJob, DeleteJobStart, DeleteJobCancel, DeleteJobControl, DeleteJobReferenced,
      DeleteJobShadow, DeleteJobUnlink, DeleteJobLogged, DeleteJobFiles, DeleteJobTraced

\* Nor does an application,
LEMMA ApplicationSamePorts ==
  ASSUME TypeInv, NEW j \in Jobs, Application(j)
  PROVE  SamePorts /\ StillFreed
<1> USE DEF SamePorts, StillFreed, Freed
<1>1. job \in [Jobs -> JobRecords] BY DEF TypeInv, TypeOK, JobTypes
<1>2. CASE StartDocPrinter(j) BY <1>1, <1>2 DEF StartDocPrinter, JobRecords
<1>3. CASE WritePrinter(j)
  <2> DEFINE next == job[j].NextJobId
             chained == IF next \in Queued THEN job[next].Size ELSE 0
  <2>1. PICK length :
          job' = [job EXCEPT ![j].data = length, ![j].Size = Capped(length + chained),
                             ![j].unread = @ + (length - job[j].data),
                             ![j].WaitForWrite = IF @ = "null" THEN "null" ELSE "set"]
    BY <1>3 DEF WritePrinter
  <2> HIDE DEF chained
  <2> QED BY <1>1, <2>1 DEF JobRecords
<1>4. CASE EndDocPrinter(j) BY <1>1, <1>4 DEF EndDocPrinter, JobRecords
<1>5. CASE UNCHANGED job BY <1>5
<1> QED
  BY <1>2, <1>3, <1>4, <1>5 DEF Application, AbortPrinter, EndDocRelease, EndDocLogged

\* nor a client.
LEMMA ClientSamePorts ==
  ASSUME TypeInv, NEW c \in Clients, Client(c)
  PROVE  SamePorts /\ StillFreed
<1> USE DEF SamePorts, StillFreed, Freed
<1>1. job \in [Jobs -> JobRecords] BY DEF TypeInv, TypeOK, JobTypes
<1>2. ASSUME NEW j \in Jobs, SetJobDelete(c, j) PROVE SamePorts /\ StillFreed
  BY <1>1, <1>2 DEF SetJobDelete, JobRecords
<1>6. ASSUME NEW j \in Jobs, SetJobCancel(c, j) PROVE SamePorts /\ StillFreed
  <2>1. UNCHANGED job \/ job' = [job EXCEPT ![j].dwJobControlsPending = 0]
    BY <1>6 DEF SetJobCancel
  <2> QED BY <1>1, <2>1 DEF JobRecords
<1>3. CASE SetJobAlerted(c) BY <1>1, <1>3 DEF SetJobAlerted, JobRecords
<1>4. ASSUME NEW j \in Jobs, NEW n \in Jobs, SetJobChain(c, j, n) PROVE SamePorts /\ StillFreed
  BY <1>1, <1>4 DEF SetJobChain, JobRecords
<1>5. CASE UNCHANGED job BY <1>5
<1> QED
  BY <1>2, <1>3, <1>4, <1>5, <1>6
  DEF Client, SetJobTrace, SetPrinterUnblock, PauseOrResumeJob, PauseOrResumePort,
      ControlPrintProcessor, PauseOrResumeLogged, RestartJob, SetJobTail

\* A client changes no more of a port than its Ready event.
LEMMA ClientPorts ==
  ASSUME TypeInv, NEW c \in Clients, Client(c)
  PROVE  \A p \in Ports :
           /\ port'[p].Status = port[p].Status /\ port'[p].pIniJob = port[p].pIniJob
           /\ port'[p].Semaphore = port[p].Semaphore /\ port'[p].cJobs = port[p].cJobs
<1>0. port \in [Ports -> PortRecords] BY DEF TypeInv, TypeOK, GlobalTypes
<1>1. CASE PauseOrResumePort(c) BY <1>0, <1>1 DEF PauseOrResumePort, PortRecords
<1>2. CASE ControlPrintProcessor(c)
  <2>1. PICK proc, section, q :
          port' = [port EXCEPT ![q].hProc = proc, ![q].InCriticalSection = section]
    BY <1>2 DEF ControlPrintProcessor
  <2>2. CASE q \in Ports BY <1>0, <2>1, <2>2 DEF PortRecords
  <2>3. CASE q \notin Ports BY <1>0, <2>1, <2>3
  <2> QED BY <2>2, <2>3
<1>3. CASE RestartJob(c) BY <1>0, <1>3 DEF RestartJob, PortRecords
<1>4. CASE UNCHANGED port BY <1>4
<1> QED
  BY <1>1, <1>2, <1>3, <1>4
  DEF Client, SetJobTrace, SetJobDelete, SetJobCancel, SetJobChain, SetPrinterUnblock,
      SetJobAlerted, PauseOrResumeJob, PauseOrResumeLogged, SetJobTail

\* While its thread prints, the port and the job stay together.
LEMMA PrintsOnStays ==
  ASSUME TypeInv, NEW p \in Ports, PrintsOn(p)
  PROVE  /\ SamePorts /\ StillFreed
         /\ \A q \in Ports : pt'[q].pc \in LetGo <=> pt[q].pc \in LetGo
<1> USE DEF PortThreadBegins, DevQueryPrint, OpenPrintProcessor, PrintRawJob, ReadPrinter,
            ReadPrinterWakes, ReadPrinterTimesOut, WritePort, ClosePrinter, EndDocPort,
            SentToPrinter, SentToPrinterAlerted, SentToPrinterTail, EndDocPortDone, PrintDone,
            ClosePrintProcessor, DiscardJobFromPortThread, PortThreadKeeps
<1>1. job \in [Jobs -> JobRecords] BY DEF TypeInv, TypeOK, JobTypes
<1>2. pt \in [Ports -> PtRecords] BY DEF TypeInv, TypeOK, ThreadTypes
<1>3. SamePorts /\ StillFreed
  <2> USE DEF SamePorts, StillFreed, Freed
  <2>1. CASE PrintRawJob(p) BY <1>1, <2>1 DEF JobRecords
  <2>2. CASE ReadPrinter(p) BY <1>1, <2>2 DEF JobRecords
  <2>3. CASE ReadPrinterTimesOut(p) BY <1>1, <2>3 DEF JobRecords
  <2>4. CASE EndDocPort(p) BY <1>1, <2>4 DEF JobRecords
  <2>5. CASE SentToPrinter(p) BY <1>1, <2>5 DEF JobRecords
  <2>6. CASE UNCHANGED job BY <2>6
  <2> QED BY <2>1, <2>2, <2>3, <2>4, <2>5, <2>6 DEF PrintsOn
<1>4. ASSUME NEW pc, PortGoesTo(p, pc), pc \in LetGo <=> pt[p].pc \in LetGo
      PROVE  \A q \in Ports : pt'[q].pc \in LetGo <=> pt[q].pc \in LetGo
  BY <1>2, <1>4 DEF PortGoesTo, PtRecords
<1>5. CASE DevQueryPrint(p) BY <1>2, <1>3, <1>5 DEF PortGoesTo, PtRecords, LetGo
<1>6. CASE PrintRawJob(p) BY <1>2, <1>3, <1>6 DEF PortGoesTo, PtRecords, PortAt, LetGo
<1>7. CASE PortThreadKeeps(p) BY <1>3, <1>4, <1>7 DEF PortAt, LetGo
<1>8. CASE ~ DevQueryPrint(p) /\ ~ PrintRawJob(p) /\ ~ PortThreadKeeps(p)
  <2>1. pt[p].pc \notin LetGo BY <1>8 DEF PrintsOn, PortAt, Hold, LetGo
  <2>2. \E pc \in PortPcs \ LetGo : PortGoesTo(p, pc) BY <1>8 DEF PrintsOn, PortPcs, LetGo
  <2> QED BY <1>3, <1>4, <2>1, <2>2
<1> QED BY <1>3, <1>5, <1>6, <1>7, <1>8, <1>4

\* A port thread gives its job back where it clears the port's pIniJob.
LEMMA PortThreadGiven ==
  ASSUME TypeInv, Ownership, Unchained, PortsGivenJobs, NEW p \in Ports, PortThread(p)
  PROVE  PortsGivenJobs'
<1>p. port \in [Ports -> PortRecords] BY DEF TypeInv, TypeOK, GlobalTypes
<1>t. pt \in [Ports -> PtRecords] BY DEF TypeInv, TypeOK, ThreadTypes
<1>j. job \in [Jobs -> JobRecords] BY DEF TypeInv, TypeOK, JobTypes
<1>h. PortHandshake BY DEF Ownership
<1>n. NoJob \notin Jobs /\ NoPort \notin Ports BY ConstantsAssumption DEF ConstantsAssumption
<1>1. CASE PortThreadWaits(p)
  <2>1. /\ port' = [port EXCEPT ![p].Status = @ \cup {"WAITING"}]
        /\ pt' = [pt EXCEPT ![p].pc = "wait"]
        /\ UNCHANGED <<job, sched>>
        /\ pt[p].pc \in {"started", "top"}
    BY <1>1 DEF PortThreadWaits, PortGoesTo, PortFrame, PortAt, Hold
  <2>2. /\ port'[p].Status = port[p].Status \cup {"WAITING"} /\ port'[p].pIniJob = port[p].pIniJob
        /\ port'[p].Semaphore = port[p].Semaphore /\ pt'[p].pc = "wait" /\ pt'[p].job = pt[p].job
        /\ \A q \in Ports \ {p} : port'[q] = port[q] /\ pt'[q] = pt[q]
    BY <1>p, <1>t, <2>1 DEF PortRecords, PtRecords
  <2>3. ~ port[p].Semaphore /\ pt[p].job = NoJob BY <1>h, <2>1 DEF PortHandshake, Jobless
  <2> QED BY <2>1, <2>2, <2>3 DEF PortsGivenJobs, Woken, Given, LetGo
<1>2. CASE PortThreadExits(p)
  <2> DEFINE stopped == [port EXCEPT ![p].Status = @ \ {"THREADRUNNING", "WAITING"}]
  <2>1. /\ port' = [stopped EXCEPT ![p].Semaphore = FALSE]
        /\ pt' = [pt EXCEPT ![p].pc = "none"]
        /\ UNCHANGED <<job, sched>>
        /\ pt[p].pc = "wait" /\ "RUNTHREAD" \notin port[p].Status
    BY <1>p, <1>2 DEF PortThreadExits, PortGoesTo, PortFrame, PortAt, PortRecords
  <2>2. stopped \in [Ports -> PortRecords] BY <1>p DEF PortRecords
  <2>3. \A q \in Ports : /\ stopped[q].pIniJob = port[q].pIniJob
                         /\ q # p => stopped[q] = port[q]
    BY <1>p DEF PortRecords
  <2>4. stopped[p].Status = port[p].Status \ {"THREADRUNNING", "WAITING"} BY <1>p DEF PortRecords
  <2> HIDE DEF stopped
  <2>5. /\ port'[p].Status = port[p].Status \ {"THREADRUNNING", "WAITING"}
        /\ port'[p].pIniJob = port[p].pIniJob /\ pt'[p].pc = "none" /\ pt'[p].job = pt[p].job
        /\ \A q \in Ports \ {p} : port'[q] = port[q] /\ pt'[q] = pt[q]
    BY <1>t, <2>1, <2>2, <2>3, <2>4 DEF PortRecords, PtRecords
  <2> QED BY <2>1, <2>5 DEF PortsGivenJobs, Woken, Given, LetGo
<1>3. CASE PortThreadTakes(p)
  <2>1. /\ port' = [port EXCEPT ![p].Semaphore = FALSE]
        /\ pt' = [pt EXCEPT ![p] = PortThreadAt("taken", port[p].pIniJob)]
        /\ UNCHANGED <<job, sched>>
        /\ Woken(p)
    BY <1>3 DEF PortThreadTakes, PortFrame, PortAt, Woken
  <2>2. pt'[p].pc = "taken" /\ pt'[p].job = port[p].pIniJob
        /\ \A q \in Ports : q # p => pt'[q] = pt[q]
    BY <1>t, <2>1 DEF PortThreadAt
  <2>3. /\ port'[p].Status = port[p].Status /\ port'[p].pIniJob = port[p].pIniJob
        /\ \A q \in Ports \ {p} : port'[q] = port[q]
    BY <1>p, <2>1 DEF PortRecords
  <2>4. pt[p].job = NoJob BY <1>h, <2>1 DEF PortHandshake, Jobless, Woken
  <2> QED BY <2>1, <2>2, <2>3, <2>4, <1>n DEF PortsGivenJobs, Woken, Given, LetGo
<1>4. CASE PortThreadFinishes(p)
  <2>0. pt[p].pc = "post" /\ pt[p].job \in Jobs
    BY <1>4 DEF PortThreadFinishes, PortAt, TypeInv, PortsHaveJobs, Jobless
  <2>1. /\ port' = [port EXCEPT ![p].pIniJob = NoJob]
        /\ job' = [job EXCEPT ![pt[p].job].pCurrentIniJob = NoJob]
        /\ \E pc \in {"log", "keep"} : pt' = [pt EXCEPT ![p].pc = pc]
        /\ UNCHANGED sched
    BY <1>4, <2>0, NextNone DEF PortThreadFinishes, PortGoesTo, PortFrame
  <2>2. /\ port'[p].Status = port[p].Status /\ port'[p].pIniJob = NoJob
        /\ pt'[p].pc \in {"log", "keep"} /\ pt'[p].job = pt[p].job
        /\ \A q \in Ports \ {p} : port'[q] = port[q] /\ pt'[q] = pt[q]
    BY <1>p, <1>t, <2>1 DEF PortRecords, PtRecords
  <2>3. SamePorts BY <1>j, <2>1 DEF SamePorts, JobRecords
  <2> QED BY <2>0, <2>1, <2>2, <2>3 DEF PortsGivenJobs, Woken, Given, LetGo, SamePorts
<1>5. CASE PortThreadReleases(p)
  <2>1. /\ UNCHANGED sched
        /\ port' = [port EXCEPT ![p].cJobs = @ - 1]
        /\ pt' = [pt EXCEPT ![p] = PortThreadAt("top", NoJob)]
        /\ job' = [job EXCEPT ![pt[p].job].pIniPort = NoPort]
        /\ pt[p].pc \in {"shadow", "release"} /\ pt[p].job \in Jobs
    BY <1>5 DEF PortThreadReleases, PortFrame, PortAt, Hold, TypeInv, PortsHaveJobs, Jobless
  <2>2. pt'[p].pc = "top" /\ pt'[p].job = NoJob /\ \A q \in Ports : q # p => pt'[q] = pt[q]
    BY <1>t, <2>1 DEF PortThreadAt
  <2>3. \A q \in Ports : /\ port'[q].Status = port[q].Status /\ port'[q].pIniJob = port[q].pIniJob
                         /\ port'[q].Semaphore = port[q].Semaphore
    BY <1>p, <2>1 DEF PortRecords
  <2>4. /\ job'[pt[p].job].pIniPort = NoPort
        /\ \A k \in Jobs \ {pt[p].job} : job'[k].pIniPort = job[k].pIniPort
    BY <1>j, <2>1 DEF JobRecords
  <2>5. job[pt[p].job].pIniPort = p BY <2>1 DEF PortsGivenJobs, Given
  <2>6. port[p].pIniJob = NoJob BY <2>1 DEF PortsGivenJobs, Woken, LetGo
  <2>7. \A q \in Ports : \A k \in Jobs : job'[k].pIniPort = q <=> Given(q, k)'
    <3>1. \A q \in Ports \ {p} : \A k \in Jobs : Given(q, k)' <=> Given(q, k)
      BY <2>2, <2>3 DEF Given, Woken
    <3>2. \A k \in Jobs : ~ Given(p, k)' BY <1>n, <2>2 DEF Given, Woken
    <3>3. \A k \in Jobs \ {pt[p].job} : ~ Given(p, k) BY <2>1 DEF Given, Woken
    <3> QED BY <1>n, <2>4, <2>5, <3>1, <3>2, <3>3 DEF PortsGivenJobs
  <2> QED BY <2>1, <2>2, <2>3, <2>6, <2>7 DEF PortsGivenJobs, Woken, LetGo
<1>6. CASE PrintsOn(p)
  <2>1. Quiet /\ UNCHANGED sched BY <1>6, PrintsOnQuiet, PortThreadMoves
  <2> QED BY <1>6, <2>1, PrintsOnStays
          DEF Quiet, SamePorts, PortsGivenJobs, Woken, Given, Jobless
<1> QED BY <1>1, <1>2, <1>3, <1>4, <1>5, <1>6 DEF PortThread, PrintsOn

\* The job's own side of an assignment.
LEMMA AssignJobJob ==
  ASSUME TypeInv, NEW p \in Ports, NEW j \in Jobs, NEW d, AssignJob(p, j, d)
  PROVE  /\ job'[j].pIniPort = p
         /\ \A k \in Jobs \ {j} : job'[k].pIniPort = job[k].pIniPort
<1>1. job \in [Jobs -> JobRecords] BY DEF TypeInv, TypeOK, JobTypes
<1>2. PICK chain, wait : job' = [job EXCEPT ![j].pIniPort = p, ![j].pCurrentIniJob = chain,
                                            ![j].WaitForWrite = wait]
  BY <1>1, Zenon DEF AssignJob
<1> QED BY <1>1, <1>2 DEF JobRecords

\* A port whose thread waits to be given a job has none.
LEMMA ReadyPort ==
  ASSUME TypeInv, Ownership, PortsGivenJobs, NEW p \in Ports, Ready(p), sched.pc # "destroy"
  PROVE  /\ pt[p].pc = "wait" /\ pt[p].job = NoJob /\ ~ Woken(p)
         /\ port[p].pIniJob = NoJob /\ "RUNTHREAD" \in port[p].Status
         /\ \A j \in Jobs : ~ Given(p, j) /\ job[j].pIniPort # p
<1>1. pt[p].pc = "wait" /\ pt[p].job = NoJob BY DEF Ready, Ownership, PortHandshake, Jobless
<1>2. "RUNTHREAD" \in port[p].Status BY <1>1 DEF PortsGivenJobs
<1>3. ~ Woken(p) BY <1>2 DEF Woken, Ready, Ownership, PortHandshake
<1>4. port[p].pIniJob = NoJob BY <1>1, <1>3 DEF PortsGivenJobs, LetGo
<1>5. \A j \in Jobs : ~ Given(p, j)
  BY <1>1, <1>3, ConstantsAssumption DEF ConstantsAssumption, Given
<1> QED BY <1>1, <1>2, <1>3, <1>4, <1>5 DEF PortsGivenJobs

\* A job that may be scheduled was given to no port.
LEMMA SchedulableFree ==
  ASSUME TypeInv, Ownership, PortsGivenJobs, NEW j \in Jobs, Schedulable(j)
  PROVE  job[j].pIniPort = NoPort /\ \A q \in Ports : ~ Given(q, j) /\ port[q].pIniJob # j
<1>1. \A q \in Ports : j \notin Claimed(q)
  BY DEF Schedulable, Has, NotSchedulable, Ownership, ClaimedJobsDespool
<1>2. \A q \in Ports : ~ Given(q, j) /\ port[q].pIniJob # j
  BY <1>1, ConstantsAssumption DEF ConstantsAssumption, Claimed, Given
<1>3. job[j].pIniPort \in Ports \cup {NoPort}
  BY DEF TypeInv, TypeOK, JobTypes, JobRecords
<1> QED BY <1>2, <1>3 DEF PortsGivenJobs

\* A port that the scheduler gives a job to was given none.
LEMMA AssignGiven ==
  ASSUME TypeInv, Ownership, PortsGivenJobs, NEW p \in Ports, NEW j \in Jobs, NEW d,
         AssignJob(p, j, d), Ready(p), sched.pc # "destroy", Schedulable(j), UNCHANGED pt
  PROVE  PortsGivenJobs'
<1>n. NoJob \notin Jobs /\ NoPort \notin Ports BY ConstantsAssumption DEF ConstantsAssumption
<1>1. /\ port'[p].Status = port[p].Status \ {"WAITING"}
      /\ port'[p].pIniJob = j /\ port'[p].Semaphore
      /\ \A q \in Ports : q # p => port'[q] = port[q]
  BY AssignJobPort
<1>2. \A q \in Ports \ {p} : \A k \in Jobs : Given(q, k)' <=> Given(q, k)
  BY <1>1 DEF Given, Woken
<1>3. Woken(p)' BY <1>1, ReadyPort DEF Woken
<1>4. \A k \in Jobs : Given(p, k)' <=> k = j BY <1>n, <1>1, <1>3, ReadyPort DEF Given
<1>5. \A q \in Ports : \A k \in Jobs : job'[k].pIniPort = q <=> Given(q, k)'
  <2>1. \A k \in Jobs : job'[k].pIniPort = p <=> Given(p, k)' BY <1>4, AssignJobJob, ReadyPort
  <2>2. ASSUME NEW q \in Ports \ {p} PROVE \A k \in Jobs : job'[k].pIniPort = q <=> Given(q, k)'
    BY <1>2, AssignJobJob, SchedulableFree DEF PortsGivenJobs
  <2> QED BY <2>1, <2>2
<1>6. \A q \in Ports :
        /\ Woken(q)' => port'[q].pIniJob # NoJob
        /\ ~ Woken(q)' => port'[q].pIniJob = IF pt'[q].pc \in LetGo THEN NoJob ELSE pt'[q].job
  <2>1. \A q \in Ports \ {p} : Woken(q)' <=> Woken(q) BY <1>1 DEF Woken
  <2> QED BY <1>n, <1>1, <1>3, <2>1 DEF PortsGivenJobs
<1>7. ASSUME NEW q \in Ports, "RUNTHREAD" \notin port'[q].Status PROVE pt'[q].pc = "none"
  BY <1>1, <1>7, ReadyPort DEF PortsGivenJobs
<1> QED BY <1>5, <1>6, <1>7 DEF PortsGivenJobs

\* The job of a pass of the scheduler is a job it may schedule.
LEMMA SchedulesSchedulable ==
  ASSUME TypeInv, Ownership, PortsGivenJobs, NEW p \in Ports,
         ScheduleFirstJob(p) \/ ScheduleByMemory(p) \/ SchedulePort(p)
  PROVE  \E j \in Jobs : \E d :
           /\ AssignJob(p, j, d) /\ Ready(p) /\ Schedulable(j) /\ app[j] # "idle"
           /\ j \in Queued \/ OnWaitingList(j)
<1>1. CASE ScheduleFirstJob(p) \/ ScheduleByMemory(p)
  <2>1. PICK j \in FirstFromWaitingList(Jobs) \cup FirstFromWaitingList(Fitting) :
          ScheduleFromWaitingList(j, p)
    BY <1>1 DEF ScheduleFirstJob, ScheduleByMemory
  <2>2. j \in Jobs /\ OnWaitingList(j) BY ChosenJobs
  <2>3. \E d : AssignJob(p, j, d) BY <2>1 DEF ScheduleFromWaitingList
  <2>4. Ready(p) /\ Schedulable(j) BY <2>1 DEF ScheduleFromWaitingList, Assignable, Ready
  <2>5. app[j] # "idle" BY <2>2 DEF Ownership, ClaimedJobsDespool
  <2> QED BY <2>2, <2>3, <2>4, <2>5
<1>2. CASE SchedulePort(p)
  <2>1. PICK j \in Candidate(p) : \E d : AssignJob(p, j, d) BY <1>2 DEF SchedulePort
  <2>2. Ready(p) /\ sched.pc # "destroy" BY <1>2 DEF SchedulePort, CheckPort, SchedulerAt
  <2>3. j \in Jobs /\ app[j] # "idle" /\ Schedulable(j)
    BY <2>2, ReadyPort, ChosenJobs, ConstantsAssumption DEF ConstantsAssumption
  <2>4. j \in Eligible BY <2>2, ReadyPort, ChoiceType DEF Candidate
  <2> QED BY <2>1, <2>2, <2>3, <2>4 DEF Eligible
<1> QED BY <1>1, <1>2

\* The scheduler keeps ports and jobs in step.
LEMMA SchedulerGiven ==
  ASSUME TypeInv, Ownership, PortsGivenJobs, SchedulerThread
  PROVE  PortsGivenJobs'
<1>p. port \in [Ports -> PortRecords] BY DEF TypeInv, TypeOK, GlobalTypes
<1>t. pt \in [Ports -> PtRecords] BY DEF TypeInv, TypeOK, ThreadTypes
<1>s. sched \in SchedRecords BY DEF TypeInv, TypeOK, ThreadTypes
<1>h. PortHandshake BY DEF Ownership
<1>1. CASE LooksOn
  <2>1. UNCHANGED <<port, pt>> /\ sched.pc # "destroy"
    BY <1>1 DEF LooksOn, SchedulerWakes, UpdateJobList, NoFirstJob, NoMoreByMemory, AbandonLogged,
                SchedulerSleeps, JobExpires, DropWaitingJob, AbandonJob, SkipPort, SchedulerAt,
                CheckPort
  <2>2. SamePorts
    <3>1. job \in [Jobs -> JobRecords] BY DEF TypeInv, TypeOK, JobTypes
    <3>2. CASE AbandonLogged BY <3>1, <3>2 DEF AbandonLogged, JobRecords, SamePorts
    <3>3. CASE UNCHANGED job BY <3>3 DEF SamePorts
    <3> QED
      BY <1>1, <3>2, <3>3
      DEF LooksOn, SchedulerWakes, UpdateJobList, NoFirstJob, NoMoreByMemory, SchedulerSleeps,
          JobExpires, DropWaitingJob, AbandonJob, SkipPort
  <2> QED BY <2>1, <2>2 DEF SamePorts, PortsGivenJobs, Woken, Given
<1>2. ASSUME NEW p \in Ports, ScheduleFirstJob(p) \/ ScheduleByMemory(p) \/ SchedulePort(p)
      PROVE  PortsGivenJobs'
  <2>1. UNCHANGED pt /\ sched.pc # "destroy"
    BY <1>2 DEF ScheduleFirstJob, ScheduleByMemory, SchedulePort, ScheduleFromWaitingList,
                SchedulerAt, CheckPort
  <2> QED BY <1>2, <2>1, SchedulesSchedulable, AssignGiven
<1>3. ASSUME NEW p \in Ports, DestroyPortThread(p)
      PROVE  PortsGivenJobs'
  <2>1. /\ port' = [port EXCEPT ![p].Status = @ \ {"RUNTHREAD"}, ![p].Semaphore = TRUE]
        /\ UNCHANGED <<pt, job>>
        /\ sched' = [NextPort(p) EXCEPT !.pc = "destroy", !.port = p]
        /\ Ready(p) /\ sched.pc = "ports"
    BY <1>3 DEF DestroyPortThread, SchedulerFrame, CheckPort, SchedulerAt
  <2>2. /\ port'[p].Status = port[p].Status \ {"RUNTHREAD"} /\ port'[p].Semaphore
        /\ port'[p].pIniJob = port[p].pIniJob
        /\ \A q \in Ports \ {p} : port'[q] = port[q]
    BY <1>p, <2>1 DEF PortRecords
  <2>3. sched'.pc = "destroy" /\ sched'.port = p BY <1>s, <2>1 DEF NextPort, SchedRecords
  <2>4. ~ Woken(p) /\ pt[p].pc = "wait" BY <2>1, ReadyPort
  <2>5. \A q \in Ports : Woken(q)' <=> Woken(q) BY <2>1, <2>2, <2>4 DEF Woken
  <2>6. \A q \in Ports, j \in Jobs : Given(q, j)' <=> Given(q, j) BY <2>1, <2>2, <2>5 DEF Given
  <2>7. \A q \in Ports : port'[q].pIniJob = port[q].pIniJob BY <2>2
  <2>8. ASSUME NEW q \in Ports, "RUNTHREAD" \notin port'[q].Status
        PROVE  \/ pt'[q].pc = "none"
               \/ pt'[q].pc = "wait" /\ port'[q].Semaphore /\ sched'.pc = "destroy" /\ sched'.port = q
    <3>1. CASE q = p BY <2>1, <2>2, <2>3, <2>4, <3>1
    <3>2. CASE q # p
      <4>1. port'[q] = port[q] /\ pt'[q] = pt[q] BY <2>1, <2>2, <3>2
      <4>2. "RUNTHREAD" \notin port[q].Status BY <2>8, <4>1
      <4>3. sched.pc # "destroy" BY <2>1
      <4>4. pt[q].pc = "none" BY <4>2, <4>3 DEF PortsGivenJobs
      <4> QED BY <4>1, <4>4
    <3> QED BY <3>1, <3>2
  <2>9. \A q \in Ports, j \in Jobs : job'[j].pIniPort = q <=> Given(q, j)'
    BY <2>1, <2>6 DEF PortsGivenJobs
  <2>10. \A q \in Ports :
           /\ Woken(q)' => port'[q].pIniJob # NoJob
           /\ ~ Woken(q)' => port'[q].pIniJob = IF pt'[q].pc \in LetGo THEN NoJob ELSE pt'[q].job
    BY <2>1, <2>5, <2>7 DEF PortsGivenJobs
  <2> QED BY <2>8, <2>9, <2>10 DEF PortsGivenJobs
<1>4. CASE PortThreadGone
  <2>1. /\ port' = [port EXCEPT ![sched.port].Status = @ \ {"WAITING"}]
        /\ UNCHANGED <<pt, job>>
        /\ sched.pc = "destroy" /\ pt[sched.port].pc = "none"
    BY <1>4 DEF PortThreadGone, SchedulerFrame
  <2>2. \A q \in Ports : /\ port'[q].pIniJob = port[q].pIniJob
                         /\ port'[q].Semaphore = port[q].Semaphore
                         /\ "RUNTHREAD" \in port'[q].Status <=> "RUNTHREAD" \in port[q].Status
    BY <1>p, <2>1 DEF PortRecords
  <2> QED BY <2>1, <2>2 DEF PortsGivenJobs, Woken, Given
<1>5. ASSUME NEW p \in Ports, CreatePortThread(p)
      PROVE  PortsGivenJobs'
  <2>1. /\ port' = [port EXCEPT ![p].Status = @ \cup {"RUNTHREAD"}]
        /\ pt' = [pt EXCEPT ![p].pc = "started"]
        /\ UNCHANGED job
        /\ "THREADRUNNING" \notin port[p].Status /\ sched.pc = "ports"
    BY <1>5 DEF CreatePortThread, SchedulerFrame, CheckPort, SchedulerAt
  <2>2. pt[p].pc = "none" BY <1>h, <2>1 DEF PortHandshake
  <2>3. /\ port'[p].Status = port[p].Status \cup {"RUNTHREAD"}
        /\ port'[p].pIniJob = port[p].pIniJob
        /\ \A q \in Ports \ {p} : port'[q] = port[q]
    BY <1>p, <2>1 DEF PortRecords
  <2>4. /\ pt'[p].pc = "started" /\ pt'[p].job = pt[p].job
        /\ \A q \in Ports \ {p} : pt'[q] = pt[q]
    BY <1>t, <2>1 DEF PtRecords
  <2> QED BY <2>1, <2>2, <2>3, <2>4 DEF PortsGivenJobs, Woken, Given, LetGo
<1>6. CASE PortThreadReady
  <2>1. /\ port' = [port EXCEPT ![sched.port].Status = @ \cup {"THREADRUNNING"}]
        /\ UNCHANGED <<pt, job>>
        /\ sched.pc = "create"
    BY <1>6 DEF PortThreadReady, SchedulerFrame
  <2>2. \A q \in Ports : /\ port'[q].pIniJob = port[q].pIniJob
                         /\ port'[q].Semaphore = port[q].Semaphore
                         /\ "RUNTHREAD" \in port'[q].Status <=> "RUNTHREAD" \in port[q].Status
    BY <1>p, <2>1 DEF PortRecords
  <2> QED BY <2>1, <2>2 DEF PortsGivenJobs, Woken, Given
<1> QED BY <1>1, <1>2, <1>3, <1>4, <1>5, <1>6 DEF SchedulerThread, LooksOn

\* A port, its thread and the job they were given always agree.
LEMMA GivenAlways == ASSUME NoChains PROVE Spec => []PortsGivenJobs
<1>1. Init => PortsGivenJobs
  BY ConstantsAssumption
  DEF ConstantsAssumption, Init, PortsGivenJobs, Woken, Given, PortThreadAt, LetGo
<1>2. TypeInv /\ Ownership /\ Unchained /\ PortsGivenJobs /\ [Next]_vars => PortsGivenJobs'
  <2> SUFFICES ASSUME TypeInv, Ownership, Unchained, PortsGivenJobs, [Next]_vars
               PROVE  PortsGivenJobs'
    OBVIOUS
  <2>1. ASSUME NEW t \in Threads, DeleteJob(t) PROVE PortsGivenJobs'
    BY <2>1, DeleteJobMoves, DeleteJobPorts, DeleteJobSamePorts, SameGiven DEF SamePorts
  <2>2. ASSUME NEW j \in Jobs, Application(j) PROVE PortsGivenJobs'
    BY <2>2, ApplicationMoves, ApplicationSamePorts, SameGiven DEF SamePorts
  <2>3. ASSUME NEW c \in Clients, Client(c) PROVE PortsGivenJobs'
    BY <2>3, ClientMoves, ClientPorts, ClientSamePorts, SameGiven DEF SamePorts
  <2>4. CASE UNCHANGED vars
    BY <2>4, SameGiven DEF vars, jobVars
  <2> QED BY <2>1, <2>2, <2>3, <2>4, PortThreadGiven, SchedulerGiven DEF Next
<1> QED BY <1>1, <1>2, TypesAlways, OwnershipAlways, UnchainedAlways, PTL DEF Spec

----------------------------------------------------------------------------
(* Counting.                                                                *)

\* 1 if x is in S, or 0.
In(x, S) == IF x \in S THEN 1 ELSE 0

\* Two finite sets that differ in one element at most.
LEMMA CountOne ==
  ASSUME NEW S, NEW T, NEW x, IsFiniteSet(S), S \ {x} = T \ {x}
  PROVE  /\ IsFiniteSet(T) /\ Cardinality(S) \in Nat /\ Cardinality(T) \in Nat
         /\ Cardinality(T) = Cardinality(S) + In(x, T) - In(x, S)
<1> DEFINE R == S \ {x}
<1>1. IsFiniteSet(R) /\ Cardinality(R) \in Nat /\ Cardinality(S) \in Nat
      /\ Cardinality(S) = Cardinality(R) + In(x, S)
  <2>1. /\ IsFiniteSet(R)
        /\ Cardinality(R) = IF x \in S THEN Cardinality(S) - 1 ELSE Cardinality(S)
    BY FS_RemoveElement
  <2>2. Cardinality(S) \in Nat BY FS_CardinalityType
  <2>3. Cardinality(R) \in Nat BY <2>1, FS_CardinalityType
  <2> HIDE DEF R
  <2> QED BY <2>1, <2>2, <2>3 DEF In
<1>2. IsFiniteSet(T) /\ Cardinality(T) = Cardinality(R) + In(x, T)
  <2>1. CASE x \in T
    <3>1. T = R \cup {x} /\ x \notin R BY <2>1
    <3> HIDE DEF R
    <3> QED BY <1>1, <2>1, <3>1, FS_AddElement DEF In
  <2>2. CASE x \notin T
    <3>1. T = R BY <2>2
    <3> HIDE DEF R
    <3> QED BY <1>1, <2>2, <3>1 DEF In
  <2> QED BY <2>1, <2>2
<1>3. In(x, S) \in Nat /\ In(x, T) \in Nat BY DEF In
<1> HIDE DEF R
<1> QED BY <1>1, <1>2, <1>3

----------------------------------------------------------------------------
(* How many jobs a port has, and how many ports print.                      *)

\* The jobs that INIPORT.cJobs counts, and the ports that cFullPrintingJobs counts.
JobsOn(p) == {j \in Jobs : job[j].pIniPort = p}
Printing == {p \in Ports : port[p].pIniJob # NoJob}

\* The counts stay right where no job changes its port.
LEMMA SamePortCounts ==
  ASSUME PortCounts, SamePorts, UNCHANGED cFullPrintingJobs,
         \A p \in Ports : port'[p].pIniJob = port[p].pIniJob /\ port'[p].cJobs = port[p].cJobs
  PROVE  PortCounts'
<1>1. \A p \in Ports : JobsOn(p)' = JobsOn(p) BY DEF JobsOn, SamePorts
<1>2. Printing' = Printing BY DEF Printing
<1> QED BY <1>1, <1>2 DEF PortCounts, JobsOn, Printing

\* What is counted is finite.
LEMMA FiniteCounts ==
  \A p \in Ports : IsFiniteSet(JobsOn(p)) /\ IsFiniteSet(Printing)
BY FS_Subset, ConstantsAssumption DEF ConstantsAssumption, JobsOn, Printing

\* A port thread counts the job it gives back.
LEMMA PortThreadCounts ==
  ASSUME TypeInv, Ownership, Unchained, PortsGivenJobs, PortCounts, NEW p \in Ports, PortThread(p)
  PROVE  PortCounts'
<1>p. port \in [Ports -> PortRecords] BY DEF TypeInv, TypeOK, GlobalTypes
<1>j. job \in [Jobs -> JobRecords] BY DEF TypeInv, TypeOK, JobTypes
<1>n. NoJob \notin Jobs /\ NoPort \notin Ports BY ConstantsAssumption DEF ConstantsAssumption
<1>1. CASE PortThreadWaits(p) \/ PortThreadExits(p) \/ PortThreadTakes(p)
  <2>1. UNCHANGED <<job, cFullPrintingJobs>>
    BY <1>1 DEF PortThreadWaits, PortThreadExits, PortThreadTakes, globalVars
  <2>2. CASE PortThreadWaits(p)
    BY <1>p, <2>1, <2>2, SamePortCounts DEF PortThreadWaits, PortRecords, SamePorts
  <2>3. CASE PortThreadTakes(p)
    BY <1>p, <2>1, <2>3, SamePortCounts DEF PortThreadTakes, PortRecords, SamePorts
  <2>4. CASE PortThreadExits(p)
    <3>1. PICK s : port' = [port EXCEPT ![p].Status = s, ![p].Semaphore = FALSE]
      BY <1>p, <2>4 DEF PortThreadExits
    <3>2. \A q \in Ports : port'[q].pIniJob = port[q].pIniJob /\ port'[q].cJobs = port[q].cJobs
      BY <1>p, <3>1 DEF PortRecords
    <3> QED BY <2>1, <3>2, SamePortCounts DEF SamePorts
  <2> QED BY <1>1, <2>2, <2>3, <2>4
<1>2. CASE PortThreadFinishes(p)
  <2>0. pt[p].pc = "post" /\ pt[p].job \in Jobs
    BY <1>2 DEF PortThreadFinishes, PortAt, TypeInv, PortsHaveJobs, Jobless
  <2>1. /\ port' = [port EXCEPT ![p].pIniJob = NoJob]
        /\ job' = [job EXCEPT ![pt[p].job].pCurrentIniJob = NoJob]
        /\ cFullPrintingJobs' = cFullPrintingJobs - 1
    BY <1>2, <2>0, NextNone DEF PortThreadFinishes
  <2>2. port[p].pIniJob # NoJob BY <1>n, <2>0 DEF PortsGivenJobs, Woken, LetGo
  <2>3. /\ port'[p].pIniJob = NoJob /\ \A q \in Ports \ {p} : port'[q].pIniJob = port[q].pIniJob
        /\ \A q \in Ports : port'[q].cJobs = port[q].cJobs
    BY <1>p, <2>1 DEF PortRecords
  <2>4. SamePorts BY <1>j, <2>1 DEF SamePorts, JobRecords
  <2>5. \A q \in Ports : JobsOn(q)' = JobsOn(q) BY <2>4 DEF JobsOn, SamePorts
  <2>6. Printing' \ {p} = Printing \ {p} /\ p \in Printing /\ p \notin Printing'
    BY <2>2, <2>3 DEF Printing
  <2>7. Cardinality(Printing') = Cardinality(Printing) - 1
    BY <2>6, FiniteCounts, CountOne DEF In
  <2> QED BY <2>1, <2>3, <2>5, <2>7 DEF PortCounts, JobsOn, Printing
<1>3. CASE PortThreadReleases(p)
  <2> DEFINE j == pt[p].job
  <2>1. /\ port' = [port EXCEPT ![p].cJobs = @ - 1]
        /\ job' = [job EXCEPT ![j].pIniPort = NoPort]
        /\ pt[p].pc \in {"shadow", "release"} /\ j \in Jobs
        /\ UNCHANGED cFullPrintingJobs
    BY <1>3 DEF PortThreadReleases, PortAt, Hold, TypeInv, PortsHaveJobs, Jobless, globalVars
  <2>2. /\ port'[p].cJobs = port[p].cJobs - 1
        /\ \A q \in Ports \ {p} : port'[q].cJobs = port[q].cJobs
        /\ \A q \in Ports : port'[q].pIniJob = port[q].pIniJob
    BY <1>p, <2>1 DEF PortRecords
  <2>3. job'[j].pIniPort = NoPort /\ \A k \in Jobs \ {j} : job'[k].pIniPort = job[k].pIniPort
    BY <1>j, <2>1 DEF JobRecords
  <2>4. job[j].pIniPort = p BY <2>1 DEF PortsGivenJobs, Given
  <2>5. JobsOn(p)' \ {j} = JobsOn(p) \ {j} /\ j \in JobsOn(p) /\ j \notin JobsOn(p)'
    BY <1>n, <2>1, <2>3, <2>4 DEF JobsOn
  <2>6. Cardinality(JobsOn(p)') = Cardinality(JobsOn(p)) - 1
    BY <2>5, FiniteCounts, CountOne DEF In
  <2>7. \A q \in Ports \ {p} : JobsOn(q)' = JobsOn(q) BY <1>n, <2>3, <2>4 DEF JobsOn
  <2>8. Printing' = Printing BY <2>2 DEF Printing
  <2> QED BY <2>1, <2>2, <2>6, <2>7, <2>8 DEF PortCounts, JobsOn, Printing
<1>4. CASE PrintsOn(p)
  <2>1. \A q \in Ports : port'[q].cJobs = port[q].cJobs
    <3>1. CASE OpenPrintProcessor(p) BY <1>p, <3>1 DEF OpenPrintProcessor, PortRecords
    <3>2. CASE ClosePrintProcessor(p) BY <1>p, <3>2 DEF ClosePrintProcessor, PortRecords
    <3>3. CASE UNCHANGED port BY <3>3
    <3> QED
      BY <1>4, <3>1, <3>2, <3>3
      DEF PrintsOn, PortThreadBegins, DevQueryPrint, PrintRawJob, ReadPrinter, ReadPrinterWakes,
          ReadPrinterTimesOut, WritePort, ClosePrinter, EndDocPort, SentToPrinter,
          SentToPrinterAlerted, SentToPrinterTail, EndDocPortDone, PrintDone,
          DiscardJobFromPortThread, PortThreadKeeps
  <2>2. UNCHANGED cFullPrintingJobs
    BY <1>4 DEF PrintsOn, globalVars, PortThreadBegins, DevQueryPrint, OpenPrintProcessor,
       PrintRawJob, ReadPrinter, ReadPrinterWakes, ReadPrinterTimesOut, WritePort, ClosePrinter,
       EndDocPort, SentToPrinter, SentToPrinterAlerted, SentToPrinterTail, EndDocPortDone,
       PrintDone, ClosePrintProcessor, DiscardJobFromPortThread, PortThreadKeeps
  <2> QED BY <1>4, <2>1, <2>2, PrintsOnQuiet, PrintsOnStays, SamePortCounts DEF Quiet
<1> QED BY <1>1, <1>2, <1>3, <1>4 DEF PortThread, PrintsOn

\* The scheduler counts the job it gives to a port.
LEMMA AssignCounts ==
  ASSUME TypeInv, Ownership, Unchained, PortsGivenJobs, PortCounts, NEW p \in Ports,
         NEW j \in Jobs, NEW d, AssignJob(p, j, d), Ready(p), sched.pc # "destroy", Schedulable(j)
  PROVE  PortCounts'
<1>p. port \in [Ports -> PortRecords] BY DEF TypeInv, TypeOK, GlobalTypes
<1>n. NoJob \notin Jobs /\ NoPort \notin Ports BY ConstantsAssumption DEF ConstantsAssumption
<1>1. job[j].pIniPort = NoPort BY SchedulableFree
<1>2. port[p].pIniJob = NoJob BY ReadyPort
<1>3. cFullPrintingJobs' = cFullPrintingJobs + 1 BY DEF AssignJob, Starts, Unchained
<1>4. /\ port'[p].cJobs = port[p].cJobs + 1 /\ port'[p].pIniJob = j
      /\ \A q \in Ports \ {p} : port'[q] = port[q]
  <2>1. PICK s : port' = [port EXCEPT ![p].Status = s, ![p].pIniJob = j, ![p].Semaphore = TRUE,
                                      ![p].InCriticalSection = {}, ![p].cJobs = @ + 1]
    BY <1>n, <1>1 DEF AssignJob
  <2> QED BY <1>p, <2>1 DEF PortRecords
<1>5. JobsOn(p)' \ {j} = JobsOn(p) \ {j} /\ j \notin JobsOn(p) /\ j \in JobsOn(p)'
  BY <1>n, <1>1, AssignJobJob DEF JobsOn
<1>6. Cardinality(JobsOn(p)') = Cardinality(JobsOn(p)) + 1
  BY <1>5, FiniteCounts, CountOne DEF In
<1>7. \A q \in Ports \ {p} : JobsOn(q)' = JobsOn(q) BY <1>n, <1>1, AssignJobJob DEF JobsOn
<1>8. Printing' \ {p} = Printing \ {p} /\ p \notin Printing /\ p \in Printing'
  BY <1>n, <1>2, <1>4 DEF Printing
<1>9. Cardinality(Printing') = Cardinality(Printing) + 1
  BY <1>8, FiniteCounts, CountOne DEF In
<1> QED BY <1>3, <1>4, <1>6, <1>7, <1>9 DEF PortCounts, JobsOn, Printing

\* The scheduler counts right.
LEMMA SchedulerCounts ==
  ASSUME TypeInv, Ownership, Unchained, PortsGivenJobs, PortCounts, SchedulerThread
  PROVE  PortCounts'
<1>p. port \in [Ports -> PortRecords] BY DEF TypeInv, TypeOK, GlobalTypes
<1>1. ASSUME NEW p \in Ports, ScheduleFirstJob(p) \/ ScheduleByMemory(p) \/ SchedulePort(p)
      PROVE  PortCounts'
  <2>1. sched.pc # "destroy"
    BY <1>1 DEF ScheduleFirstJob, ScheduleByMemory, SchedulePort, SchedulerAt, CheckPort
  <2> QED BY <1>1, <2>1, SchedulesSchedulable, AssignCounts
<1>2. CASE ~ \E p \in Ports : ScheduleFirstJob(p) \/ ScheduleByMemory(p) \/ SchedulePort(p)
  <2> USE DEF SchedulerWakes, UpdateJobList, NoFirstJob, NoMoreByMemory, AbandonLogged,
          SchedulerSleeps, JobExpires, DropWaitingJob, AbandonJob, SkipPort, DestroyPortThread,
          PortThreadGone, CreatePortThread, PortThreadReady, globalVars
  <2>1. SamePorts
    <3>1. job \in [Jobs -> JobRecords] BY DEF TypeInv, TypeOK, JobTypes
    <3>2. CASE AbandonLogged BY <3>1, <3>2 DEF JobRecords, SamePorts
    <3>3. CASE UNCHANGED job BY <3>3 DEF SamePorts
    <3> QED BY <1>2, <3>2, <3>3 DEF SchedulerThread
  <2>2. UNCHANGED cFullPrintingJobs BY <1>2 DEF SchedulerThread
  <2>3. \A q \in Ports : port'[q].pIniJob = port[q].pIniJob /\ port'[q].cJobs = port[q].cJobs
    <3>1. ASSUME NEW p \in Ports, DestroyPortThread(p)
          PROVE  \A q \in Ports : port'[q].pIniJob = port[q].pIniJob /\ port'[q].cJobs = port[q].cJobs
      BY <1>p, <3>1 DEF PortRecords
    <3>2. ASSUME NEW p \in Ports, CreatePortThread(p)
          PROVE  \A q \in Ports : port'[q].pIniJob = port[q].pIniJob /\ port'[q].cJobs = port[q].cJobs
      BY <1>p, <3>2 DEF PortRecords
    <3>3. CASE PortThreadGone BY <1>p, <3>3 DEF PortRecords
    <3>4. CASE PortThreadReady BY <1>p, <3>4 DEF PortRecords
    <3>5. CASE UNCHANGED port BY <3>5
    <3> QED BY <1>2, <3>1, <3>2, <3>3, <3>4, <3>5 DEF SchedulerThread
  <2> QED BY <2>1, <2>2, <2>3, SamePortCounts
<1> QED BY <1>1, <1>2

\* INIPORT.cJobs is the number of jobs whose pIniPort is the port, and the
\* cluster's count of printing jobs is the number of ports that have a job
\* (without chains, for any number of jobs, ports and clients).
THEOREM PortsCounted == ASSUME NoChains PROVE Spec => []PortCounts
<1>1. Init => PortCounts
  <2> SUFFICES ASSUME Init PROVE PortCounts OBVIOUS
  <2>1. \A p \in Ports : JobsOn(p) = {} /\ port[p].cJobs = 0
    BY ConstantsAssumption DEF ConstantsAssumption, Init, JobsOn
  <2>2. Printing = {} /\ cFullPrintingJobs = 0 BY DEF Init, Printing
  <2> QED BY <2>1, <2>2, FS_EmptySet DEF PortCounts, JobsOn, Printing
<1>2. TypeInv /\ Ownership /\ Unchained /\ PortsGivenJobs /\ PortCounts /\ [Next]_vars => PortCounts'
  <2> SUFFICES ASSUME TypeInv, Ownership, Unchained, PortsGivenJobs, PortCounts, [Next]_vars
               PROVE  PortCounts'
    OBVIOUS
  <2>1. ASSUME NEW t \in Threads, DeleteJob(t) PROVE PortCounts'
    BY <2>1, DeleteJobMoves, DeleteJobPorts, DeleteJobSamePorts, SamePortCounts
  <2>2. ASSUME NEW j \in Jobs, Application(j) PROVE PortCounts'
    BY <2>2, ApplicationMoves, ApplicationSamePorts, SamePortCounts
  <2>3. ASSUME NEW c \in Clients, Client(c) PROVE PortCounts'
    BY <2>3, ClientMoves, ClientPorts, ClientSamePorts, SamePortCounts
  <2>4. CASE UNCHANGED vars
    BY <2>4, SamePortCounts DEF vars, jobVars, globalVars, SamePorts
  <2> QED BY <2>1, <2>2, <2>3, <2>4, PortThreadCounts, SchedulerCounts DEF Next
<1> QED BY <1>1, <1>2, TypesAlways, OwnershipAlways, UnchainedAlways, GivenAlways, PTL DEF Spec

----------------------------------------------------------------------------
(* No list holds a job twice.                                               *)

\* k is in the sequence s.
Holds(s, k) == \E i \in DOMAIN s : s[i] = k

\* Taking j from a list that holds it once leaves everything else, once.
LEMMA WithoutOnce ==
  ASSUME NEW S, NEW s \in Seq(S), Once(s), NEW j
  PROVE  /\ Once(Without(s, j))
         /\ \A k : Holds(Without(s, j), k) <=> k # j /\ Holds(s, k)
<1>1. CASE \E i \in DOMAIN s : s[i] = j
  <2> DEFINE n == CHOOSE i \in DOMAIN s : s[i] = j
             a == SubSeq(s, 1, n - 1)
             b == SubSeq(s, n + 1, Len(s))
             rest == a \o b
  <2>1. n \in 1 .. Len(s) /\ s[n] = j BY <1>1
  <2>2. Without(s, j) = rest BY <1>1 DEF Without, RemoveAt
  <2> HIDE DEF n
  <2>3. /\ a \in Seq(S) /\ Len(a) = n - 1
        /\ \A i \in 1 .. n - 1 : a[i] = s[i]
    BY <2>1
  <2>4. /\ b \in Seq(S) /\ Len(b) = Len(s) - n
        /\ \A i \in 1 .. Len(s) - n : b[i] = s[n + i]
    BY <2>1
  <2> HIDE DEF a, b
  <2>5. rest \in Seq(S) /\ Len(rest) = Len(s) - 1
    <3>1. rest \in Seq(S) /\ Len(rest) = Len(a) + Len(b) BY <2>3, <2>4, ConcatProperties
    <3>2. Len(s) \in Nat /\ n \in Int BY <2>1
    <3> HIDE DEF rest
    <3> QED BY <2>3, <2>4, <3>1, <3>2
  <2>6. \A i \in 1 .. n - 1 : rest[i] = s[i] BY <2>1, <2>3, <2>4
  <2>7. ASSUME NEW i \in n .. Len(s) - 1 PROVE rest[i] = s[i + 1]
    <3>1. i \in Int /\ i - (n - 1) \in 1 .. Len(s) - n /\ n + (i - (n - 1)) = i + 1 BY <2>1
    <3>2. rest[i] = b[i - (n - 1)] BY <2>1, <2>3, <2>4, <3>1
    <3> QED BY <2>4, <3>1, <3>2
  <2>8. DOMAIN rest = 1 .. Len(s) - 1 BY <2>5
  <2> HIDE DEF rest
  <2>9. \A i \in 1 .. Len(s) - 1 : rest[i] = IF i < n THEN s[i] ELSE s[i + 1]
    BY <2>1, <2>6, <2>7
  <2>10. Once(rest) BY <2>1, <2>8, <2>9 DEF Once
  <2>11. \A i \in DOMAIN rest : rest[i] # j /\ \E m \in DOMAIN s : s[m] = rest[i]
    BY <2>1, <2>8, <2>9 DEF Once
  <2>12. ASSUME NEW m \in DOMAIN s, s[m] # j PROVE \E i \in DOMAIN rest : rest[i] = s[m]
    <3>1. m \in 1 .. Len(s) /\ m # n BY <2>1, <2>12
    <3>2. CASE m < n
      <4>1. m \in 1 .. Len(s) - 1 BY <2>1, <3>1, <3>2
      <4> QED BY <2>8, <2>9, <3>2, <4>1
    <3>3. CASE m > n
      <4>1. m - 1 \in 1 .. Len(s) - 1 /\ ~ (m - 1 < n) /\ (m - 1) + 1 = m BY <2>1, <3>1, <3>3
      <4>2. rest[m - 1] = s[m] BY <2>9, <4>1
      <4> QED BY <2>8, <4>1, <4>2
    <3> QED BY <2>1, <3>1, <3>2, <3>3
  <2> QED BY <2>2, <2>10, <2>11, <2>12 DEF Holds
<1>2. CASE ~ \E i \in DOMAIN s : s[i] = j
  <2>1. Without(s, j) = s BY <1>2 DEF Without
  <2> QED BY <1>2, <2>1 DEF Holds
<1> QED BY <1>1, <1>2

\* Adding a job that the list does not hold.
LEMMA AppendOnce ==
  ASSUME NEW S, NEW s \in Seq(S), Once(s), NEW j \in S, ~ Holds(s, j)
  PROVE  /\ Once(Append(s, j))
         /\ \A k : Holds(Append(s, j), k) <=> k = j \/ Holds(s, k)
BY DEF Once, Holds

\* Unlinking a job takes that job from the queue, and no other.
LEMMA WithoutQueue ==
  ASSUME TypeInv, ListsOnce, NEW j, queue' = Without(queue, j)
  PROVE  Once(queue') /\ Queued' = Queued \ {j}
<1>1. queue \in Seq(Jobs) /\ Once(queue) BY DEF TypeInv, TypeOK, JobTypes, ListsOnce
<1>2. Once(queue') /\ \A k : Holds(queue', k) <=> k # j /\ Holds(queue, k)
  BY <1>1, WithoutOnce
<1> QED BY <1>2 DEF Queued, Holds

\* Dropping one from the waiting list does the same there.
LEMMA WithoutWaits ==
  ASSUME TypeInv, ListsOnce, NEW j, waitingList' = Without(waitingList, j)
  PROVE  Once(waitingList') /\ \A k : OnWaitingList(k)' <=> OnWaitingList(k) /\ k # j
<1>1. waitingList \in Seq(Jobs) /\ Once(waitingList) BY DEF TypeInv, TypeOK, ListTypes, ListsOnce
<1>2. Once(waitingList') /\ \A k : Holds(waitingList', k) <=> k # j /\ Holds(waitingList, k)
  BY <1>1, WithoutOnce
<1> QED BY <1>2 DEF OnWaitingList, Holds

\* DeleteJob takes its own job out of the queue, and only where nobody is counted.
LEMMA DeleteJobQueue ==
  ASSUME TypeInv, NEW t \in Threads, DeleteJob(t)
  PROVE  UNCHANGED queue \/ (del[t].pc = "counted" /\ queue' = Without(queue, del[t].job))
BY DEF DeleteJob, DeleteJobStart, DeleteJobCancel, DeleteJobControl, DeleteJobReferenced,
       DeleteJobShadow, DeleteJobUnlink, DeleteJobLogged, DeleteJobFree, DeleteJobFiles,
       DeleteJobTraced, Deleting

\* StartDocPrinter puts the new job at the end of the queue.
LEMMA ApplicationQueue ==
  ASSUME TypeInv, Ownership, ListsOnce, NEW j \in Jobs, Application(j)
  PROVE  \/ UNCHANGED queue
         \/ /\ StartDocPrinter(j) /\ app[j] = "idle"
            /\ Once(queue') /\ Queued' = Queued \cup {j}
<1>1. CASE StartDocPrinter(j)
  <2>1. app[j] = "idle" /\ queue' = Append(queue, j) BY <1>1 DEF StartDocPrinter
  <2>2. j \notin Queued BY <2>1 DEF Ownership, ClaimedJobsDespool
  <2>3. queue \in Seq(Jobs) /\ Once(queue) BY DEF TypeInv, TypeOK, JobTypes, ListsOnce
  <2>4. Once(queue') /\ \A k : Holds(queue', k) <=> k = j \/ Holds(queue, k)
    <3>1. ~ Holds(queue, j) BY <2>2 DEF Queued, Holds
    <3> QED BY <2>1, <2>3, <3>1, AppendOnce
  <2>5. Queued' = Queued \cup {j} BY <2>4 DEF Queued, Holds
  <2> QED BY <1>1, <2>1, <2>4, <2>5
<1>2. CASE UNCHANGED queue BY <1>2
<1> QED
  BY <1>1, <1>2
  DEF Application, WritePrinter, AbortPrinter, EndDocPrinter, EndDocRelease, EndDocLogged

\* There is at most one job that comes before all the others.
LEMMA HighestPriorityOnce ==
  ASSUME TypeInv, ListsOnce, NEW S \in SUBSET Jobs,
         NEW i \in HighestPriority(S), NEW j \in HighestPriority(S)
  PROVE  i = j
<1>1. queue \in Seq(Jobs) /\ Once(queue) BY DEF TypeInv, TypeOK, JobTypes, ListsOnce
<1>2. Before(i, j) /\ Before(j, i) => FALSE
  <2> SUFFICES ASSUME Before(i, j), Before(j, i) PROVE FALSE OBVIOUS
  <2>1. PICK m, n \in DOMAIN queue : m < n /\ queue[m] = i /\ queue[n] = j BY DEF Before
  <2>2. PICK k, l \in DOMAIN queue : k < l /\ queue[k] = j /\ queue[l] = i BY DEF Before
  <2>3. k = n /\ l = m BY <1>1, <2>1, <2>2 DEF Once
  <2> QED BY <1>1, <2>1, <2>2, <2>3
<1>3. i # j => (Priority[i] < Priority[j] \/ (Priority[i] = Priority[j] /\ Before(j, i)))
               /\ (Priority[j] < Priority[i] \/ (Priority[j] = Priority[i] /\ Before(i, j)))
  BY DEF HighestPriority
<1>4. Priority[i] \in Nat /\ Priority[j] \in Nat
  BY ConstantsAssumption DEF ConstantsAssumption, HighestPriority
<1> QED BY <1>2, <1>3, <1>4

\* A single job is picked for the ports in one round.
LEMMA AssignsOnce ==
  ASSUME TypeInv, ListsOnce, NEW i \in AssignFreeJobToFreePort, NEW j \in AssignFreeJobToFreePort
  PROVE  i = j
<1>e. EligibleSpooling \subseteq Jobs /\ EligibleComplete \subseteq Jobs
  BY ChoiceType DEF EligibleSpooling, EligibleComplete
<1>1. \A k, l \in TopSpooling : k = l
  <2>1. CASE "DO_COMPLETE_FIRST" \in Attributes
    <3>1. \E S \in SUBSET Jobs : TopSpooling = HighestPriority(S)
      BY <1>e, <2>1 DEF TopSpooling
    <3> QED BY <3>1, HighestPriorityOnce
  <2>2. CASE "DO_COMPLETE_FIRST" \notin Attributes
    <3> DEFINE first == {k \in EligibleSpooling : \A l \in EligibleSpooling \ {k} : Before(k, l)}
    <3>1. TopSpooling = first \/ \E S \in SUBSET Jobs : TopSpooling = HighestPriority(S)
      BY <1>e, <2>2 DEF TopSpooling
    <3>2. ASSUME NEW k \in first, NEW l \in first, k # l PROVE FALSE
      <4>0. queue \in Seq(Jobs) /\ Once(queue) BY DEF TypeInv, TypeOK, JobTypes, ListsOnce
      <4>1. PICK m, n \in DOMAIN queue : m < n /\ queue[m] = k /\ queue[n] = l
        BY <3>2 DEF Before
      <4>2. PICK a, b \in DOMAIN queue : a < b /\ queue[a] = l /\ queue[b] = k
        BY <3>2 DEF Before
      <4>3. a = n /\ b = m BY <4>0, <4>1, <4>2 DEF Once
      <4> QED BY <4>0, <4>1, <4>2, <4>3
    <3> HIDE DEF first
    <3> QED BY <3>1, <3>2, HighestPriorityOnce
  <2> QED BY <2>1, <2>2
<1>2. \A k, l \in HighestPriority(EligibleComplete) : k = l BY <1>e, HighestPriorityOnce
<1> QED BY <1>1, <1>2 DEF AssignFreeJobToFreePort

\* What the scheduler does to the waiting list: it takes a job from it, or adds
\* one that needs memory and is not there.
LEMMA SchedulerWaitingList ==
  ASSUME TypeInv, ListsOnce, Ownership, PortsGivenJobs, SchedulerThread
  PROVE  Once(waitingList') /\ \A j \in Jobs : OnWaitingList(j)' => Required[j] > 0
<1>1. CASE \E j : waitingList' = Without(waitingList, j)
  BY <1>1, WithoutWaits DEF ListsOnce
<1>2. ASSUME NEW p \in Ports, DestroyPortThread(p)
      PROVE  Once(waitingList') /\ \A j \in Jobs : OnWaitingList(j)' => Required[j] > 0
  <2>1. waitingList \in Seq(Jobs) /\ Once(waitingList) BY DEF TypeInv, TypeOK, ListTypes, ListsOnce
  <2>2. \/ UNCHANGED waitingList
        \/ \E j \in Candidate(p) : waitingList' = Append(waitingList, j) /\ ~ OnWaitingList(j)
    BY <1>2, Zenon DEF DestroyPortThread
  <2>3. \A j \in Candidate(p) : j \in Jobs /\ Required[j] > 0
    BY <1>2, ChoiceType DEF DestroyPortThread, MustWaitForMemory
  <2>4. CASE UNCHANGED waitingList BY <2>4 DEF ListsOnce, OnWaitingList
  <2>5. ASSUME NEW j \in Jobs, Required[j] > 0, waitingList' = Append(waitingList, j), ~ OnWaitingList(j)
        PROVE  Once(waitingList') /\ \A k \in Jobs : OnWaitingList(k)' => Required[k] > 0
    <3>1. Once(waitingList') /\ \A k : Holds(waitingList', k) <=> k = j \/ Holds(waitingList, k)
      <4>1. ~ Holds(waitingList, j) BY <2>5 DEF OnWaitingList, Holds
      <4> QED BY <2>1, <2>5, <4>1, AppendOnce
    <3> QED BY <2>5, <3>1 DEF OnWaitingList, ListsOnce, Holds
  <2> QED BY <2>2, <2>3, <2>4, <2>5
<1>3. CASE UNCHANGED waitingList BY <1>3 DEF ListsOnce, OnWaitingList
<1> QED
  BY <1>1, <1>2, <1>3
  DEF SchedulerThread, SchedulerWakes, UpdateJobList, NoFirstJob, NoMoreByMemory, AbandonLogged,
      PortThreadGone, PortThreadReady, SchedulerSleeps, JobExpires, DropWaitingJob,
      ScheduleFirstJob, ScheduleByMemory, ScheduleFromWaitingList, SchedulePort, AbandonJob,
      CreatePortThread, SkipPort, listVars

\* A job is in the queue once, and on the waiting list once, for memory it needs.
LEMMA ListsOnceAlways == ASSUME NoChains PROVE Spec => []ListsOnce
<1>1. Init => ListsOnce BY DEF Init, ListsOnce, Once, OnWaitingList
<1>2. TypeInv /\ Ownership /\ PortsGivenJobs /\ ListsOnce /\ [Next]_vars => ListsOnce'
  <2> SUFFICES ASSUME TypeInv, Ownership, PortsGivenJobs, ListsOnce, [Next]_vars
               PROVE  ListsOnce'
    OBVIOUS
  <2>0. UNCHANGED waitingList => \A j \in Jobs : OnWaitingList(j)' => Required[j] > 0
    BY DEF ListsOnce, OnWaitingList
  <2>1. ASSUME NEW t \in Threads, DeleteJob(t) PROVE ListsOnce'
    BY <2>0, <2>1, DeleteJobMoves, DeleteJobQueue, WithoutQueue DEF ListsOnce
  <2>2. ASSUME NEW j \in Jobs, Application(j) PROVE ListsOnce'
    BY <2>0, <2>2, ApplicationMoves, ApplicationQueue DEF ListsOnce
  <2>3. CASE UNCHANGED <<queue, waitingList>> BY <2>0, <2>3 DEF ListsOnce
  <2>4. CASE SchedulerThread
    BY <2>4, SchedulerMoves, SchedulerWaitingList DEF ListsOnce
  <2> QED
    BY <2>1, <2>2, <2>3, <2>4, ClientMoves, PortThreadMoves DEF Next, vars, jobVars, listVars
<1> QED BY <1>1, <1>2, TypesAlways, OwnershipAlways, GivenAlways, PTL DEF Spec

----------------------------------------------------------------------------
(* The memory that rations EMF jobs.  What the jobs of the schedule list    *)
(* hold is counted as a set of units.  AddToJobList and RemoveFromJobList   *)
(* may round, at zero and at the total, only in favour of what is left; and *)
(* nothing is rounded at zero as long as a job is scheduled only when the   *)
(* memory it needs is there or no other job holds any.                      *)

\* What is reserved for the jobs of the schedule list and what is left make up at least
\* the total; what is reserved is finite.
MemoryHeld ==
  /\ IsFiniteSet(Units(scheduleList))
  /\ availMemory + MemoryInUse >= TotalMemoryForRendering

\* What is promised is the lists' own: the units of the next state are those of its list.
LEMMA InUseNext == Units(scheduleList)' = Units(scheduleList') /\ MemoryInUse' = Cardinality(Units(scheduleList'))
BY DEF Units, MemoryInUse

\* One job more on the list needs as many units more as it requires.
LEMMA UnitsOfOneMore ==
  ASSUME NEW S \in SUBSET Jobs, NEW j \in Jobs, j \notin S, IsFiniteSet(Units(S))
  PROVE  /\ IsFiniteSet(Units(S \cup {j}))
         /\ Cardinality(Units(S \cup {j})) = Cardinality(Units(S)) + Required[j]
<1>r. Required[j] \in Nat BY ConstantsAssumption DEF ConstantsAssumption
<1> DEFINE own == {j} \X (1 .. Required[j])
<1>1. IsFiniteSet(own) /\ Cardinality(own) = Required[j]
  <2>1. IsFiniteSet(1 .. Required[j]) /\ Cardinality(1 .. Required[j]) = Required[j]
    BY <1>r, FS_Interval
  <2>2. IsFiniteSet({j}) /\ Cardinality({j}) = 1 BY FS_Singleton
  <2>3. IsFiniteSet(own) /\ Cardinality(own) = Cardinality({j}) * Cardinality(1 .. Required[j])
    BY <2>1, <2>2, FS_Product
  <2> HIDE DEF own
  <2> QED BY <1>r, <2>1, <2>2, <2>3
<1>2. Units(S \cup {j}) = Units(S) \cup own
  <2>1. \A u : u \in Units(S \cup {j}) <=> u \in Units(S) \/ u \in own BY DEF Units
  <2> QED BY <2>1
<1>3. Units(S) \cap own = {} BY DEF Units
<1> HIDE DEF own
<1>4. Cardinality(Units(S)) \in Nat BY FS_CardinalityType
<1>5. /\ IsFiniteSet(Units(S) \cup own)
      /\ Cardinality(Units(S) \cup own) = Cardinality(Units(S)) + Cardinality(own) - Cardinality({})
  BY <1>1, <1>3, <1>4, FS_Union
<1> DEFINE u == Cardinality(Units(S))
           o == Cardinality(own)
           z == Cardinality(Units(S) \cup own)
<1>6. z = u + o - 0 /\ u \in Nat /\ o = Required[j]
  BY <1>1, <1>4, <1>5, FS_EmptySet
<1> HIDE DEF u, o, z
<1>7. z = u + Required[j] BY <1>r, <1>6
<1> QED BY <1>2, <1>5, <1>7 DEF u, z

\* When no job is on the list, nothing is held.
LEMMA NothingHeld == ASSUME NEW S, S = {} PROVE IsFiniteSet(Units(S)) /\ Cardinality(Units(S)) = 0
<1>1. Units(S) = {} BY DEF Units
<1> QED BY <1>1, FS_EmptySet

\* AddToJobList loses nothing, and stays in balance for a job whose memory is there or
\* that will have all of it.
LEMMA ReservesMemory ==
  ASSUME TypeInv, MemoryHeld, NEW j \in Jobs, AddToScheduleList(j)
  PROVE  /\ MemoryHeld'
         /\ Balanced /\ (j \in scheduleList' \ scheduleList => EnoughMemory(j)) => Balanced'
<1>r. Required[j] \in Nat /\ TotalMemoryForRendering \in Nat
  BY ConstantsAssumption DEF ConstantsAssumption
<1>t. scheduleList \in SUBSET Jobs /\ availMemory \in Nat BY <1>r DEF TypeInv, TypeOK, ListTypes
<1>1. CASE UNCHANGED <<scheduleList, availMemory>>
  BY <1>1, InUseNext DEF MemoryHeld, Balanced, MemoryInUse
<1>2. ASSUME j \notin scheduleList, scheduleList' = scheduleList \cup {j}, Required[j] > 0,
             availMemory' = Reserve(availMemory, j)
      PROVE  /\ MemoryHeld'
             /\ Balanced /\ EnoughMemory(j) => Balanced'
  <2>1. /\ IsFiniteSet(Units(scheduleList'))
        /\ Cardinality(Units(scheduleList')) = Cardinality(Units(scheduleList)) + Required[j]
    BY <1>2, <1>t, UnitsOfOneMore DEF MemoryHeld
  <2> DEFINE c == MemoryInUse
             d == Cardinality(Units(scheduleList'))
  <2>2. d = c + Required[j] /\ c \in Nat /\ availMemory + c >= TotalMemoryForRendering
    BY <2>1, FS_CardinalityType DEF MemoryHeld, MemoryInUse
  <2>3. scheduleList = {} => c = 0 BY NothingHeld DEF MemoryInUse
  <2>4. Balanced => \/ availMemory + c = TotalMemoryForRendering
                    \/ availMemory = 0 /\ scheduleList # {}
    BY DEF Balanced
  <2> HIDE DEF c, d
  <2>5. availMemory' + d >= TotalMemoryForRendering BY <1>2, <1>r, <1>t, <2>2 DEF Reserve
  <2>6. MemoryHeld' BY <2>1, <2>5, InUseNext DEF MemoryHeld, d
  <2>7. SUFFICES ASSUME Balanced, EnoughMemory(j) PROVE Balanced' BY <2>6
  <2>8. CASE scheduleList = {} /\ Required[j] > TotalMemoryForRendering
    <3>1. availMemory = TotalMemoryForRendering BY <1>r, <1>t, <2>3, <2>4, <2>7, <2>8
    <3>2. availMemory' = 0 BY <1>2, <1>r, <2>8, <3>1 DEF Reserve
    <3>3. scheduleList' = {j} BY <1>2, <2>8
    <3> QED BY <2>8, <3>2, <3>3 DEF Balanced
  <2>9. CASE ~ (scheduleList = {} /\ Required[j] > TotalMemoryForRendering)
    <3>1. availMemory + c = TotalMemoryForRendering /\ Required[j] <= availMemory
      BY <1>2, <1>r, <1>t, <2>2, <2>3, <2>4, <2>7, <2>9 DEF EnoughMemory
    <3>2. availMemory' + d = TotalMemoryForRendering
      BY <1>2, <1>r, <1>t, <2>2, <3>1 DEF Reserve
    <3> QED BY <3>2, InUseNext DEF Balanced, d
  <2> QED BY <2>8, <2>9
<1> QED BY <1>1, <1>2 DEF AddToScheduleList

\* RemoveFromJobList loses nothing, and gives back what was taken if all was in balance.
LEMMA ReleasesMemory ==
  ASSUME TypeInv, MemoryHeld, NEW j \in Jobs, j \in scheduleList,
         scheduleList' = scheduleList \ {j}, availMemory' = Release(availMemory, j)
  PROVE  MemoryHeld' /\ (Balanced => Balanced')
<1>r. Required[j] \in Nat /\ TotalMemoryForRendering \in Nat
  BY ConstantsAssumption DEF ConstantsAssumption
<1>t. scheduleList \in SUBSET Jobs /\ availMemory \in Nat BY <1>r DEF TypeInv, TypeOK, ListTypes
<1>1. IsFiniteSet(Units(scheduleList'))
  <2>1. Units(scheduleList') \subseteq Units(scheduleList) BY DEF Units
  <2> QED BY <2>1, FS_Subset DEF MemoryHeld
<1>2. Cardinality(Units(scheduleList)) = Cardinality(Units(scheduleList')) + Required[j]
  <2>1. scheduleList = scheduleList' \cup {j} BY <1>t
  <2>2. scheduleList' \in SUBSET Jobs /\ j \notin scheduleList' BY <1>t
  <2> QED BY <1>1, <2>1, <2>2, UnitsOfOneMore
<1> DEFINE c == MemoryInUse
           d == Cardinality(Units(scheduleList'))
<1>3. c = d + Required[j] /\ d \in Nat /\ availMemory + c >= TotalMemoryForRendering
  BY <1>1, <1>2, FS_CardinalityType DEF MemoryHeld, MemoryInUse
<1>4. scheduleList' = {} => d = 0 BY NothingHeld
<1> HIDE DEF c, d
<1>5. availMemory' + d >= TotalMemoryForRendering BY <1>r, <1>t, <1>3 DEF Release
<1>6. MemoryHeld' BY <1>1, <1>5, InUseNext DEF MemoryHeld, d
<1>7. ASSUME Balanced PROVE availMemory' + d = TotalMemoryForRendering
  <2>1. CASE availMemory + c = TotalMemoryForRendering BY <1>r, <1>t, <1>3, <2>1 DEF Release
  <2>2. CASE availMemory = 0 /\ \E k \in Jobs : scheduleList = {k} /\ Required[k] > TotalMemoryForRendering
    <3>1. scheduleList' = {} /\ Required[j] > TotalMemoryForRendering BY <2>2
    <3> QED BY <1>r, <1>4, <2>2, <3>1 DEF Release
  <2> QED BY <1>7, <2>1, <2>2 DEF Balanced, c
<1> QED BY <1>6, <1>7, InUseNext DEF Balanced, d

\* A port thread that has printed a job takes it off the schedule list.
LEMMA PortThreadMemory ==
  ASSUME TypeInv, MemoryHeld, NEW p \in Ports, PortThread(p)
  PROVE  MemoryHeld' /\ (Balanced => Balanced')
<1>1. CASE UNCHANGED <<scheduleList, availMemory>>
  BY <1>1, InUseNext DEF MemoryHeld, Balanced, MemoryInUse
<1>2. CASE PortThreadFinishes(p)
  <2> DEFINE j == pt[p].job
  <2>1. j \in Jobs BY <1>2 DEF PortThreadFinishes, PortAt, Jobless, TypeInv, PortsHaveJobs
  <2>2. /\ scheduleList' = scheduleList \ {j}
        /\ availMemory' = IF j \in scheduleList THEN Release(availMemory, j) ELSE availMemory
    BY <1>2 DEF PortThreadFinishes
  <2>3. CASE j \in scheduleList BY <2>1, <2>2, <2>3, ReleasesMemory
  <2>4. CASE j \notin scheduleList BY <2>2, <2>4, <1>1
  <2> QED BY <2>3, <2>4
<1> QED
  BY <1>1, <1>2
  DEF PortThread, PortFrame, listVars, PortThreadWaits, PortThreadExits, PortThreadTakes,
      PortThreadBegins, DevQueryPrint, OpenPrintProcessor, PrintRawJob, ReadPrinter,
      ReadPrinterWakes, ReadPrinterTimesOut, WritePort, ClosePrinter, EndDocPort, SentToPrinter,
      SentToPrinterAlerted, SentToPrinterTail, EndDocPortDone, PrintDone, ClosePrintProcessor,
      DiscardJobFromPortThread, PortThreadKeeps, PortThreadReleases

\* The scheduler removes a job that has expired and adds one that it schedules: only
\* SPL_FIRST_JOB adds one without its memory.
LEMMA SchedulerMemory ==
  ASSUME TypeInv, MemoryHeld, SchedulerThread
  PROVE  MemoryHeld' /\ (Balanced => Balanced' \/ Forced)
<1>1. CASE UNCHANGED <<scheduleList, availMemory>>
  BY <1>1, InUseNext DEF MemoryHeld, Balanced, MemoryInUse
<1>2. ASSUME NEW j \in Jobs, JobExpires(j) PROVE MemoryHeld' /\ (Balanced => Balanced')
  BY <1>2, ReleasesMemory DEF JobExpires
<1>3. ASSUME NEW p \in Ports, ScheduleFirstJob(p)
      PROVE  MemoryHeld' /\ (Balanced => Balanced' \/ Forced)
  <2>1. PICK j \in FirstFromWaitingList(Jobs) : ScheduleFromWaitingList(j, p)
    BY <1>3 DEF ScheduleFirstJob
  <2>2. j \in Jobs BY <2>1, ChoiceType
  <2>3. AddToScheduleList(j) BY <2>1 DEF ScheduleFromWaitingList
  <2>4. ASSUME j \in scheduleList' \ scheduleList, ~ EnoughMemory(j) PROVE Forced
    <3>1. Required[j] \in Nat /\ availMemory \in Nat /\ TotalMemoryForRendering \in Nat
      BY <2>2, ConstantsAssumption DEF ConstantsAssumption, TypeInv, TypeOK, ListTypes
    <3>2. scheduleList # {} /\ Required[j] > availMemory BY <2>4, <3>1 DEF EnoughMemory
    <3> QED BY <1>3, <2>4, <3>2 DEF Forced, ScheduleFirstJob
  <2> QED BY <2>2, <2>3, <2>4, ReservesMemory
<1>4. ASSUME NEW p \in Ports, ScheduleByMemory(p) PROVE MemoryHeld' /\ (Balanced => Balanced')
  <2>1. PICK j \in FirstFromWaitingList(Fitting) : ScheduleFromWaitingList(j, p)
    BY <1>4 DEF ScheduleByMemory
  <2>2. j \in Jobs BY <2>1, ChoiceType
  <2>3. EnoughMemory(j) BY <2>1 DEF FirstFromWaitingList, Fitting
  <2>4. AddToScheduleList(j) BY <2>1 DEF ScheduleFromWaitingList
  <2> QED BY <2>2, <2>3, <2>4, ReservesMemory
<1>5. ASSUME NEW p \in Ports, SchedulePort(p) PROVE MemoryHeld' /\ (Balanced => Balanced')
  <2>1. PICK j \in Candidate(p) : ~ MustWaitForMemory(j) /\ AddToScheduleList(j)
    BY <1>5 DEF SchedulePort
  <2>2. j \in Jobs BY <2>1, ChoiceType
  <2>3. j \in scheduleList' \ scheduleList => EnoughMemory(j)
    BY <2>1 DEF MustWaitForMemory, AddToScheduleList
  <2> QED BY <2>1, <2>2, <2>3, ReservesMemory
<1> QED
  BY <1>1, <1>2, <1>3, <1>4, <1>5
  DEF SchedulerThread, listVars, SchedulerWakes, UpdateJobList, NoFirstJob, NoMoreByMemory,
      AbandonLogged, PortThreadGone, PortThreadReady, SchedulerSleeps, DropWaitingJob,
      AbandonJob, DestroyPortThread, CreatePortThread, SkipPort

\* No step loses any, and no step but a forced one takes the account out of balance.
LEMMA EveryStepAccounts ==
  ASSUME TypeInv, MemoryHeld, [Next]_vars
  PROVE  MemoryHeld' /\ (Balanced => Balanced' \/ Forced)
<1>1. CASE UNCHANGED <<scheduleList, availMemory>>
  BY <1>1, InUseNext DEF MemoryHeld, Balanced, MemoryInUse
<1>2. CASE SchedulerThread BY <1>2, SchedulerMemory
<1> QED
  BY <1>1, <1>2, DeleteJobMoves, ApplicationMoves, ClientMoves, PortThreadMemory
  DEF Next, vars, listVars

\* What the listed jobs hold and what is left never come to less than the total.
LEMMA MemoryHeldAlways == Spec => []MemoryHeld
<1>1. Init => MemoryHeld
  <2> SUFFICES ASSUME Init PROVE MemoryHeld OBVIOUS
  <2>1. IsFiniteSet(Units(scheduleList)) /\ MemoryInUse = 0 BY NothingHeld DEF Init, MemoryInUse
  <2>2. availMemory = TotalMemoryForRendering /\ TotalMemoryForRendering \in Nat
    BY ConstantsAssumption DEF ConstantsAssumption, Init
  <2> QED BY <2>1, <2>2 DEF MemoryHeld
<1>2. TypeInv /\ MemoryHeld /\ [Next]_vars => MemoryHeld' BY EveryStepAccounts
<1> QED BY <1>1, <1>2, TypesAlways, PTL DEF Spec

\* When no EMF job is being rendered, all of AvailMemoryForRendering is there again,
\* however far a forced job had taken the account out of balance.
LEMMA AllMemoryReturns == Spec => [](scheduleList = {} => availMemory = TotalMemoryForRendering)
<1>1. TypeInv /\ MemoryHeld => (scheduleList = {} => availMemory = TotalMemoryForRendering)
  BY NothingHeld, ConstantsAssumption
  DEF ConstantsAssumption, MemoryHeld, MemoryInUse, TypeInv, TypeOK, ListTypes
<1> QED BY <1>1, TypesAlways, MemoryHeldAlways, PTL

\* The account of the memory for rendering, whatever was added to and removed from
\* pScheduleList, by port threads or by UpdateJobList, and rounded: none is lost, and it
\* is exact (or one job too large for it has it all) until SPL_FIRST_JOB pushes a job
\* through for which there is not enough.
THEOREM MemoryStaysAccounted == Spec => MemoryAccounted
<1>1. TypeInv /\ MemoryHeld /\ [Next]_vars =>
        [/\ availMemory' + MemoryInUse' >= TotalMemoryForRendering
         /\ Balanced => Balanced' \/ Forced]_vars
  BY EveryStepAccounts DEF MemoryHeld
<1> QED BY <1>1, TypesAlways, MemoryHeldAlways, PTL DEF Spec, MemoryAccounted
=============================================================================
