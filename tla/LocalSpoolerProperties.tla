----------------------- MODULE LocalSpoolerProperties -----------------------
(***************************************************************************)
(* What LocalSpooler must do: its type invariant, its safety invariants,   *)
(* what a step may never do, and what must eventually happen under the     *)
(* fairness the Win32 scheduler gives the spooler's threads.               *)
(***************************************************************************)
EXTENDS LocalSpooler

DelPcs    == {"idle", "start", "cancel", "control", "counted", "shadow", "log",
              "free", "files", "trace"}
AppPcs    == {"idle", "spooling", "cancelled", "shadow", "log", "done"}
ClientPcs == {"idle", "trace", "capture", "control", "log", "alert", "tail"}
PortPcs   == {"none", "started", "wait", "taken", "devq", "open", "print", "read",
              "again", "readwait", "write", "closejob", "enddoc", "sent", "alert",
              "tail", "ended", "close", "closeproc", "discard", "post", "log",
              "keep", "shadow", "release", "top"}
SchedPcs  == {"wait", "update", "first", "waiting", "ports", "abandon", "destroy", "create"}

JobRecords ==
  [signature : {"none", "IJ_SIGNATURE", "freed"},
   pIniPort : Ports \cup {NoPort}, NextJobId : Jobs \cup {NoJob},
   pCurrentIniJob : Jobs \cup {NoJob}, WaitForWrite : {"null", "reset", "set"},
   dwJobControlsPending : 0 .. DwordModulus - 1, Size : Sizes,
   data : Sizes, unread : Nat]

PortRecords ==
  [Status : SUBSET {"RUNTHREAD", "THREADRUNNING", "WAITING"},
   pIniJob : Jobs \cup {NoJob}, cJobs : Int, Semaphore : BOOLEAN,
   hProc : {"closed", "running", "paused", "aborted"},
   InCriticalSection : SUBSET {"PAUSE", "RESUME", "CANCEL"}]

ClientRecords ==
  [pc : ClientPcs, job : Jobs \cup {NoJob}, command : AllCommands \cup {"none"},
   port : Ports \cup {NoPort}]

PtRecords == [pc : PortPcs, job : Jobs \cup {NoJob}, devq : BOOLEAN, failed : BOOLEAN]

SchedRecords ==
  [pc : SchedPcs, todo : SUBSET Ports, port : Ports \cup {NoPort}, job : Jobs \cup {NoJob}]

DelRecords ==
  [pc : DelPcs, job : Jobs \cup {NoJob}, port : Ports \cup {NoPort},
   next : Jobs \cup {NoJob}, leave : BOOLEAN, check : BOOLEAN]

JobTypes ==
  /\ queue \in Seq(Jobs)
  /\ Status \in [Jobs -> SUBSET Flags]
  /\ cRef \in [Jobs -> Int]
  /\ job \in [Jobs -> JobRecords]

ListTypes ==
  /\ waitingList \in Seq(Jobs)
  /\ scheduleList \in SUBSET Jobs
  /\ availMemory \in 0 .. TotalMemoryForRendering

GlobalTypes ==
  /\ port \in [Ports -> PortRecords]
  /\ schedulerSignal \in BOOLEAN
  /\ cFullPrintingJobs \in Int

ThreadTypes ==
  /\ app \in [Jobs -> AppPcs]
  /\ client \in [Clients -> ClientRecords]
  /\ pt \in [Ports -> PtRecords]
  /\ sched \in SchedRecords
  /\ commands \in 0 .. MaxCommands

DeleteTypes ==
  /\ splSem \in Threads \cup {NoThread}
  /\ del \in [Threads -> DelRecords]

\* Every variable holds a value of its C type: of localspl's INIJOB, INIPORT
\* and globals, and of the places its threads can be in.
TypeOK == JobTypes /\ ListTypes /\ GlobalTypes /\ ThreadTypes /\ DeleteTypes

----------------------------------------------------------------------------
(* Who holds a reference on a job.                                          *)

AppHolds(j) == app[j] \in {"spooling", "cancelled", "shadow", "log"}
ClientsHolding(j) ==
  {c \in Clients : client[c].job = j /\ client[c].pc \in {"trace", "capture", "control", "log", "alert"}}

\* The port was given the job, and its thread has taken it or is about to.
Woken(p)    == pt[p].pc = "wait" /\ port[p].Semaphore /\ "RUNTHREAD" \in port[p].Status
Given(p, j) == pt[p].job = j \/ (Woken(p) /\ port[p].pIniJob = j)
PortsGiven(j) == {p \in Ports : Given(p, j)}
PortsWithHandle(j) ==
  {p \in Ports : pt[p].job = j /\
     pt[p].pc \in {"taken", "read", "again", "readwait", "write", "closejob",
                   "sent", "alert", "tail", "ended", "log", "shadow"}}
PortsAlerting(j) == {p \in Ports : pt[p].job = j /\ pt[p].pc = "alert"}
DeletersOf(j) ==
  {t \in Threads : \/ del[t].job = j /\ del[t].pc \in {"cancel", "control", "shadow", "log"}
                   \/ del[t].next = j /\ del[t].pc \in {"files", "trace"}}
Predecessors(j) == {k \in Jobs : job[k].NextJobId = j}
Lists(j) == (IF OnWaitingList(j) THEN 1 ELSE 0) + (IF j \in scheduleList THEN 1 ELSE 0)

References(j) ==
  (IF AppHolds(j) THEN 1 ELSE 0) + Cardinality(ClientsHolding(j))
  + Cardinality(PortsGiven(j)) + Cardinality(PortsWithHandle(j)) + Cardinality(PortsAlerting(j))
  + (IF sched.job = j THEN 1 ELSE 0) + Cardinality(DeletersOf(j))
  + Cardinality(Predecessors(j)) + Lists(j)

\* INIJOB.cRef is exactly the number of threads, lists and chain links that
\* still use the job, over every path through SetJob, DeleteJob, the port
\* threads and the scheduler (INCJOBREF/DECJOBREF, spltypes.h).
RefCountExact == \A j \in Jobs : cRef[j] = References(j)

----------------------------------------------------------------------------
(* Memory safety and the queue.                                             *)

Freed(j) == job[j].signature = "freed"

\* What still points at job j.
PointedAt(j) ==
  \/ AppHolds(j) \/ ClientsHolding(j) # {}
  \/ \E p \in Ports : port[p].pIniJob = j \/ pt[p].job = j
  \/ sched.job = j \/ OnWaitingList(j) \/ j \in scheduleList \/ j \in Queued
  \/ \E t \in Threads : del[t].job = j
  \/ \E k \in Jobs : ~ Freed(k) /\ job[k].pCurrentIniJob = j

\* DeleteJob never frees an INIJOB that a thread, a port, a list or a chain
\* still points at (the SPLASSERTs on IJ_SIGNATURE).
NoDangling == \A j \in Jobs : Freed(j) => ~ PointedAt(j)

\* A deletion is never forgotten: whenever nobody is inside the spooler's
\* section, a job pending deletion that nobody uses is already out of the queue.
NoOrphanedDeletion ==
  splSem = NoThread =>
    \A j \in Queued : ~ ( /\ "PENDING_DELETION" \in Status[j] /\ "RESTART" \notin Status[j]
                          /\ cRef[j] = 0 /\ "SPOOLING" \notin Status[j]
                          /\ \A t \in Threads : del[t].job # j )

\* A job is never pending deletion and to be restarted at once: it would stay
\* in the queue forever (LocalAbortPrinter, spooler.c 2626).
DeletingNotRestarting == \A j \in Jobs : ~ {"PENDING_DELETION", "RESTART"} \subseteq Status[j]

\* No job prints on two ports of a pool at once.
Claimed(p) == {port[p].pIniJob, pt[p].job} \ {NoJob}
OnePortPerJob == \A p, q \in Ports : p # q => Claimed(p) \cap Claimed(q) = {}

\* A job keeps DESPOOLING from the moment a port is given it until the last
\* port lets go of it, which is what keeps the scheduler from giving it away
\* twice, and no job is in the queue or on the waiting list before it exists.
ClaimedJobsDespool ==
  /\ \A p \in Ports : \A j \in Claimed(p) : "DESPOOLING" \in Status[j] /\ app[j] # "idle"
  /\ \A j \in Jobs : j \in Queued \/ OnWaitingList(j) => app[j] # "idle"

\* The thread of a port has no job before it is woken and after it releases it.
Jobless == {"none", "started", "wait", "top"}

\* How the scheduler and the thread of a port agree on who acts next: PP_WAITING
\* is set, and the port's semaphore signalled, only while the thread waits for
\* it; a thread is woken for a job or to end, never both, and only for a port
\* whose thread is gone, or being created, is PP_THREADRUNNING clear.
PortHandshake ==
  \A p \in Ports :
    /\ "WAITING" \in port[p].Status => pt[p].pc = "wait"
    /\ port[p].Semaphore => pt[p].pc = "wait"
    /\ port[p].Semaphore /\ "RUNTHREAD" \in port[p].Status => "WAITING" \notin port[p].Status
    /\ pt[p].pc \in Jobless => pt[p].job = NoJob
    /\ "THREADRUNNING" \notin port[p].Status =>
         pt[p].pc = "none" \/ (sched.pc = "create" /\ sched.port = p)

\* INIPORT.cJobs is the number of jobs whose pIniPort is that port, and it and
\* the cluster's count of printing jobs return to zero.
PortCounts ==
  /\ \A p \in Ports : port[p].cJobs = Cardinality({j \in Jobs : job[j].pIniPort = p})
  /\ cFullPrintingJobs = Cardinality({p \in Ports : port[p].pIniJob # NoJob})

\* A port that was given a job has a thread to print it.
PortJobHasThread ==
  \A p \in Ports : port[p].pIniJob # NoJob => pt[p].pc \notin {"none", "started"}

\* A chain of jobs printed as one never comes back to where it started.
ChainAcyclic == \A j \in Jobs : j \notin ChainFrom(j)

\* A job that ends as printed had all of its data read by the print processor.
PrintedImpliesRead ==
  \A j \in Jobs : "PRINTED" \in Status[j] /\ "COMPOUND" \notin Status[j] => job[j].unread = 0

\* Control of the print processor reaches only the job it was asked for.
ControlHitsOwnJob ==
  /\ \A t \in Threads : del[t].pc = "control" => pt[del[t].port].job = del[t].job
  /\ \A c \in Clients : client[c].pc = "control" => pt[client[c].port].job = client[c].job

(* The memory that rations EMF jobs.                                        *)

\* What the jobs of S were promised, unit by unit; what all jobs of pScheduleList hold.
Units(S) == UNION {{j} \X (1 .. Required[j]) : j \in S}
MemoryInUse == Cardinality(Units(scheduleList))

\* The account is exact, or one job renders alone that needs more than there is.
Balanced ==
  \/ availMemory + MemoryInUse = TotalMemoryForRendering
  \/ availMemory = 0 /\ \E j \in Jobs : scheduleList = {j} /\ Required[j] > TotalMemoryForRendering

\* SPL_FIRST_JOB schedules a job that has waited a minute without asking for its memory.
Forced ==
  /\ SchedulerAt("first") /\ scheduleList # {}
  /\ \E j \in scheduleList' \ scheduleList : Required[j] > availMemory

----------------------------------------------------------------------------
(* What a step may never do.                                                *)

\* A deletion is never taken back (job.c 1346, "JOB_CONTROL_DELETE is meant to
\* delete the job").
DeletionIsFinal ==
  [][\A j \in Jobs : "PENDING_DELETION" \in Status[j] => "PENDING_DELETION" \in Status'[j]]_vars

\* No memory is lost, and none is promised twice unless a job that has waited a
\* minute is pushed through: what is left and what the listed jobs hold never
\* come to less than the total, and only such a job makes them more.  From then
\* on AddToJobList has floored at zero and RemoveFromJobList gives back more
\* than was taken; the cap at the total ends it when the list is empty.
MemoryAccounted ==
  [][/\ availMemory' + MemoryInUse' >= TotalMemoryForRendering
     /\ Balanced => Balanced' \/ Forced]_vars

----------------------------------------------------------------------------
(* What must happen.  A thread that can run and stays able to runs on: its   *)
(* own code never waits for another thread but at SplSem, its events and the *)
(* print processor's section.  An application may stop writing for good;    *)
(* once it has called EndDocPrinter, the call returns.                      *)

ClientReturns(c) ==
  \/ SetJobAlerted(c) \/ PauseOrResumeJob(c) \/ PauseOrResumePort(c)
  \/ ControlPrintProcessor(c) \/ PauseOrResumeLogged(c) \/ RestartJob(c) \/ SetJobTail(c)

Fairness ==
  /\ \A j \in Jobs : WF_vars(EndDocRelease(j) \/ EndDocLogged(j) \/ DeleteJob(j))
  /\ \A c \in Clients : WF_vars(ClientReturns(c) \/ DeleteJob(c))
  /\ \A p \in Ports : WF_vars(PortThread(p) \/ DeleteJob(p))
  /\ WF_vars(SchedulerThread)

FairSpec == Spec /\ Fairness

\* A job that an application has spooled to its end is printed in the end: no
\* wakeup of the scheduler or of a port thread is lost, and another job whose
\* application stalls while it prints does not keep the port.
SpooledJobPrints ==
  \A j \in Jobs : app[j] = "done" ~> Freed(j) \/ Has(j, {"PRINTED", "COMPLETE"})

\* A job that is to be deleted is deleted, unless its application keeps it open.
DeletionCompletes ==
  \A j \in Jobs : "PENDING_DELETION" \in Status[j] ~> Freed(j) \/ app[j] \in {"spooling", "cancelled"}

=============================================================================
