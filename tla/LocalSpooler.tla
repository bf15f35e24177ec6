---------------------------- MODULE LocalSpooler ----------------------------
(***************************************************************************)
(* The life of a print job inside localspl: the application thread that    *)
(* spools it, the clients that control it through SetJob, the scheduler    *)
(* thread that assigns it to a port, the port threads that despool it, and *)
(* DeleteJob, which any of them may call.                                  *)
(*                                                                         *)
(* All of them share the INIJOB and INIPORT records under one critical     *)
(* section, SplSem, which nearly every operation leaves and re-enters in   *)
(* the middle.  Each stretch between entering and leaving it is one action *)
(* (or several, when DeleteJob runs inside it with the section held), so   *)
(* that every point where another thread can run is a state of the model.  *)
(*                                                                         *)
(* An operator X_Fault placed before an operator X is not part of Spec: it *)
(* is X with a plausible bug, and each property of the project is violated *)
(* when one of them takes the place of its X.                              *)
(***************************************************************************)
EXTENDS Integers, Sequences, FiniteSets, SequencesExt

CONSTANTS
  Jobs,               \* every INIJOB; a job's id and its record are one value
  Ports,              \* the ports of the one (possibly pooled) printer
  Clients,            \* threads that call SetJob and SetPrinter
  Scheduler,          \* the scheduler thread
  NoJob, NoPort, NoThread,
  Attributes,         \* the PRINTER_ATTRIBUTE_* bits of the printer
  SpoolerSettings,    \* {"NOFILEPOOLING"} or {}
  Commands,           \* what the applications and the clients may ask for
  Lengths,            \* bound: the lengths WritePrinter may bring a job to
  MaxCommands,        \* bound: SetJob calls in one behaviour
  Failures,           \* the steps of printing that may fail
  Priority,           \* INIJOB.Priority
  Required,           \* GetMemoryEstimate of an EMF job; 0 for any other job
  TotalMemoryForRendering,
  DwordModulus        \* bound: dwJobControlsPending counts modulo this

AllAttributes == {"KEEPPRINTEDJOBS", "QUEUED", "DO_COMPLETE_FIRST", "ENABLE_DEVQ"}
AllCommands == {"PAUSE", "RESUME", "RESTART", "DELETE", "CANCEL", "CHAIN", "UNBLOCK", "ABORT"}
AllFailures == {"OpenPrintProcessor", "StartDocPort"}

\* A job whose data is at least this long may print while it spools.
dwFastPrintSlowDownThreshold == 2
MaxSize == dwFastPrintSlowDownThreshold + 1
Sizes == 0 .. MaxSize
Capped(size) == IF size <= MaxSize THEN size ELSE MaxSize

Threads == Jobs \cup Ports \cup Clients \cup {Scheduler}

ASSUME ConstantsAssumption ==
  /\ IsFiniteSet(Jobs) /\ IsFiniteSet(Ports) /\ IsFiniteSet(Clients)
  /\ NoJob \notin Jobs /\ NoPort \notin Ports /\ NoThread \notin Threads
  /\ Jobs \cap (Ports \cup Clients \cup {Scheduler}) = {}
  /\ Ports \cap (Clients \cup {Scheduler}) = {} /\ Scheduler \notin Clients
  /\ Attributes \subseteq AllAttributes
  /\ SpoolerSettings \subseteq {"NOFILEPOOLING"}
  /\ Commands \subseteq AllCommands
  /\ Failures \subseteq AllFailures
  /\ Lengths \subseteq Sizes \ {0}
  /\ MaxCommands \in Nat /\ TotalMemoryForRendering \in Nat
  /\ DwordModulus \in Nat \ {0}
  /\ Priority \in [Jobs -> Nat] /\ Required \in [Jobs -> Nat]

VARIABLES
  splSem,            \* the thread inside SplSem, or NoThread
  queue,             \* the printer's linked list of jobs, pIniFirstJob first
  Status,            \* INIJOB.Status
  cRef,              \* INIJOB.cRef
  job,               \* the other fields of each INIJOB
  port,              \* the fields of each INIPORT
  waitingList,       \* pWaitingList, first node first
  scheduleList,      \* the jobs on pScheduleList
  availMemory,       \* AvailMemoryForRendering
  schedulerSignal,   \* SchedulerSignal, an auto-reset event
  cFullPrintingJobs, \* INISPOOLER.cFullPrintingJobs
  app,               \* where each job's application thread is
  client,            \* where each client is, and on what
  pt,                \* where each port's thread is, and its pIniJob
  sched,             \* where the scheduler thread is
  del,               \* where each thread is inside DeleteJob
  commands           \* SetJob calls made so far (bounded by MaxCommands)

jobVars    == <<queue, Status, cRef, job>>
listVars   == <<waitingList, scheduleList, availMemory>>
globalVars == <<schedulerSignal, cFullPrintingJobs>>
vars == <<splSem, jobVars, port, listVars, globalVars,
          app, client, pt, sched, del, commands>>

Flags == {"SPOOLING", "PRINTING", "DESPOOLING", "PENDING_DELETION", "RESTART",
          "COMPLETE", "PRINTED", "PAUSED", "TIMEOUT", "ABANDON", "BLOCKED_DEVQ",
          "COMPOUND", "INTERRUPTED", "SHADOW_DELETED"}

----------------------------------------------------------------------------
(* The critical section.                                                   *)

\* The thread is between two stretches and may enter SplSem.
Enter(t) == splSem = NoThread /\ del[t].pc = "idle"

\* The thread holds SplSem and is not inside DeleteJob.
Hold(t) == splSem = t /\ del[t].pc = "idle"

\* The thread runs outside SplSem.
Outside(t) == splSem # t /\ del[t].pc = "idle"

Has(j, flags) == Status[j] \cap flags # {}

AddRef(j, n) == cRef' = [cRef EXCEPT ![j] = @ + n]

Unused_OneTooMany(references) == references <= 1
Unused(references) == references = 0

Restarting_WrongFlag(j) == Has(j, {"INTERRUPTED"})
Restarting(j) == Has(j, {"RESTART"})

FilePooled == "KEEPPRINTEDJOBS" \notin Attributes /\ "NOFILEPOOLING" \notin SpoolerSettings

----------------------------------------------------------------------------
(* The queue and the choice of the next job.                               *)

Queued == {queue[i] : i \in DOMAIN queue}

\* The list s without j, which it holds at most once.
Without(s, j) == IF \E i \in DOMAIN s : s[i] = j
                 THEN RemoveAt(s, CHOOSE i \in DOMAIN s : s[i] = j) ELSE s

Before(i, j) == \E m, n \in DOMAIN queue : m < n /\ queue[m] = i /\ queue[n] = j

NotSchedulable_NotDespooling == {"PENDING_DELETION", "PAUSED", "PRINTING", "COMPLETE",
                                 "PRINTED", "TIMEOUT", "BLOCKED_DEVQ", "COMPOUND"}
NotSchedulable == {"PENDING_DELETION", "PAUSED", "PRINTING", "COMPLETE", "PRINTED",
                   "TIMEOUT", "DESPOOLING", "BLOCKED_DEVQ", "COMPOUND"}

Schedulable(j) ==
  /\ ~ Has(j, NotSchedulable)
  /\ "QUEUED" \in Attributes => ~ Has(j, {"SPOOLING"})

Eligible == {j \in Queued : Schedulable(j)}
EligibleSpooling == {j \in Eligible : Has(j, {"SPOOLING"})}
EligibleComplete == Eligible \ EligibleSpooling

Big(j) == job[j].Size >= dwFastPrintSlowDownThreshold

\* The first job in the queue among those of the highest priority.
HighestPriority(S) ==
  {j \in S : \A k \in S \ {j} : \/ Priority[k] < Priority[j]
                                \/ Priority[k] = Priority[j] /\ Before(j, k)}

\* The spooling job the scan of the queue ends with: for DO_COMPLETE_FIRST the
\* longest, then the most urgent; otherwise the first one, unless a job that has
\* reached the threshold is more urgent than it.
TopSpooling ==
  IF "DO_COMPLETE_FIRST" \in Attributes
  THEN HighestPriority({j \in EligibleSpooling :
                          \A k \in EligibleSpooling : job[k].Size <= job[j].Size})
  ELSE LET first  == {j \in EligibleSpooling : \A k \in EligibleSpooling \ {j} : Before(j, k)}
           urgent == {j \in EligibleSpooling :
                        Big(j) /\ \A f \in first : Priority[j] > Priority[f]}
       IN  IF urgent # {} THEN HighestPriority(urgent) ELSE first

\* The job the scheduler would give a free port: a set of at most one job.
AssignFreeJobToFreePort ==
  LET complete == HighestPriority(EligibleComplete)
      spooling == {j \in TopSpooling : Big(j)}
      favoured == {j \in spooling : \A k \in complete :
                     "DO_COMPLETE_FIRST" \notin Attributes /\ Priority[j] >= Priority[k]}
  IN  IF favoured # {} THEN favoured ELSE complete

----------------------------------------------------------------------------
(* The lists that ration memory between EMF jobs.                          *)

OnWaitingList(j) == \E i \in DOMAIN waitingList : waitingList[i] = j

\* AddToJobList saturates at zero, RemoveFromJobList at the total.
Reserve(avail, j) == IF avail > Required[j] THEN avail - Required[j] ELSE 0
Release_Uncapped(avail, j) == avail + Required[j]
Release_BelowTotal(avail, j) == IF avail + Required[j] < TotalMemoryForRendering
                                THEN avail + Required[j] ELSE avail
Release(avail, j) == IF avail + Required[j] < TotalMemoryForRendering
                     THEN avail + Required[j] ELSE TotalMemoryForRendering

\* The node may be scheduled under the memory rule (SPL_USE_MEMORY).
EnoughMemory(j) == Required[j] <= availMemory \/ scheduleList = {}

----------------------------------------------------------------------------
\* A thread that is not inside DeleteJob, a client between two calls, and a
\* port's thread that has just come to pc with pIniJob = j.
NotDeleting == [pc |-> "idle", job |-> NoJob, port |-> NoPort, next |-> NoJob,
                leave |-> FALSE, check |-> FALSE]
NoCall == [pc |-> "idle", job |-> NoJob, command |-> "none", port |-> NoPort]
PortThreadAt(pc, j) == [pc |-> pc, job |-> j, devq |-> TRUE, failed |-> FALSE]

Init ==
  /\ splSem = NoThread
  /\ queue = <<>>
  /\ Status = [j \in Jobs |-> {}]
  /\ cRef = [j \in Jobs |-> 0]
  /\ job = [j \in Jobs |->
              [signature |-> "none", pIniPort |-> NoPort, NextJobId |-> NoJob,
               pCurrentIniJob |-> NoJob, WaitForWrite |-> "null",
               dwJobControlsPending |-> 0, Size |-> 0, data |-> 0, unread |-> 0]]
  /\ port = [p \in Ports |->
               [Status |-> {}, pIniJob |-> NoJob, cJobs |-> 0, Semaphore |-> FALSE,
                hProc |-> "closed", InCriticalSection |-> {}]]
  /\ waitingList = <<>> /\ scheduleList = {} /\ availMemory = TotalMemoryForRendering
  /\ schedulerSignal = FALSE /\ cFullPrintingJobs = 0
  /\ app = [j \in Jobs |-> "idle"]
  /\ client = [c \in Clients |-> NoCall]
  /\ pt = [p \in Ports |-> PortThreadAt("none", NoJob)]
  /\ sched = [pc |-> "wait", todo |-> {}, port |-> NoPort, job |-> NoJob]
  /\ del = [t \in Threads |-> NotDeleting]
  /\ commands = 0

----------------------------------------------------------------------------
(* DeleteJob, run by any thread t that holds SplSem.  It leaves SplSem at    *)
(* most five times; del[t] says where it is.                                *)

\* DeleteJob(j); the caller itself leaves SplSem on return if leave.
Call(t, j, leave) ==
  del' = [del EXCEPT ![t] = [pc |-> "start", job |-> j, port |-> NoPort,
                             next |-> NoJob, leave |-> leave, check |-> FALSE]]

\* DeleteJobCheck(j) as the last thing before t leaves SplSem.
DeleteJobCheckAndLeave_Unchecked(t, j) == UNCHANGED del /\ splSem' = NoThread
DeleteJobCheckAndLeave(t, j) ==
  IF Unused(cRef'[j]) /\ "PENDING_DELETION" \in Status'[j]
  THEN Call(t, j, TRUE) /\ splSem' = t
  ELSE UNCHANGED del /\ splSem' = NoThread

\* DeleteJobCheck(j) followed by more work of t inside SplSem.
DeleteJobCheckAndHold_Unchecked(t, j) == UNCHANGED del /\ splSem' = t
DeleteJobCheckAndHold(t, j) ==
  /\ splSem' = t
  /\ IF Unused(cRef'[j]) /\ "PENDING_DELETION" \in Status'[j]
     THEN Call(t, j, FALSE) ELSE UNCHANGED del

Deleting(t, pc) == del[t].pc = pc /\ splSem = t
Reentering(t, pc) == del[t].pc = pc /\ splSem = NoThread
GoTo(t, pc) == del' = [del EXCEPT ![t].pc = pc]

Return(t) ==
  /\ del' = [del EXCEPT ![t] = NotDeleting]
  /\ splSem' = IF del[t].leave THEN NoThread ELSE t
  /\ schedulerSignal' = (schedulerSignal \/ del[t].check)

Frame == UNCHANGED <<listVars, cFullPrintingJobs, app, client, pt, sched, commands>>

\* The job that follows in the chain is noted here, before SplSem is ever left.
DeleteJobStart(t) ==
  LET j == del[t].job
      p == job[j].pIniPort
  IN  /\ Deleting(t, "start")
      /\ \/ /\ Restarting(j)
            /\ Return(t)
            /\ UNCHANGED <<Status, cRef>>
         \/ /\ ~ Restarting(j)
            /\ Status' = [Status EXCEPT ![j] = @ \cup {"PENDING_DELETION"}]
            /\ IF /\ ~ Has(j, {"PENDING_DELETION"}) /\ Has(j, {"PRINTING"})
                  /\ p # NoPort /\ "CANCEL" \notin port[p].InCriticalSection
               THEN /\ del' = [del EXCEPT ![t].pc = "cancel", ![t].port = p,
                                          ![t].next = job[j].NextJobId]
                    /\ AddRef(j, 1) /\ splSem' = NoThread
               ELSE /\ del' = [del EXCEPT ![t].pc = "counted", ![t].next = job[j].NextJobId]
                    /\ UNCHANGED <<cRef, splSem>>
            /\ UNCHANGED schedulerSignal
      /\ UNCHANGED <<queue, job, port>> /\ Frame

\* Nobody is inside the print processor's own critical section.
PrintProcFree ==
  /\ \A t \in Threads : del[t].pc # "control"
  /\ \A c \in Clients : client[c].pc # "control"

\* The port was captured before SplSem was left; its hProc is read after.
DeleteJobCancel(t) ==
  LET p == del[t].port
      j == del[t].job
  IN  /\ Reentering(t, "cancel") /\ PrintProcFree
      /\ IF port[p].hProc # "closed"
         THEN /\ port' = [port EXCEPT ![p].InCriticalSection = @ \cup {"CANCEL"}]
              /\ GoTo(t, "control") /\ UNCHANGED <<cRef, splSem>>
         ELSE /\ port' = [port EXCEPT ![p].InCriticalSection =
                             (@ \ {"CANCEL"}) \cup {"PAUSE", "RESUME"}]
              /\ AddRef(j, -1) /\ GoTo(t, "counted") /\ splSem' = t
      /\ UNCHANGED <<queue, Status, job, schedulerSignal>> /\ Frame

\* Control(JOB_CONTROL_CANCEL), then back into SplSem.
DeleteJobControl(t) ==
  LET p == del[t].port
  IN  /\ Reentering(t, "control")
      /\ port' = [port EXCEPT ![p].hProc = "aborted",
                              ![p].InCriticalSection =
                                 (@ \ {"CANCEL"}) \cup {"PAUSE", "RESUME"}]
      /\ AddRef(del[t].job, -1) /\ GoTo(t, "counted") /\ splSem' = t
      /\ UNCHANGED <<queue, Status, job, schedulerSignal>> /\ Frame

\* Somebody still uses the job: only its shadow file goes now.
DeleteJobReferenced(t) ==
  LET j == del[t].job
  IN  /\ Deleting(t, "counted") /\ ~ Unused(cRef[j])
      /\ Status' = [Status EXCEPT ![j] = @ \cup {"SHADOW_DELETED"}]
      /\ IF FilePooled
         THEN Return(t) /\ UNCHANGED cRef
         ELSE /\ AddRef(j, 1) /\ GoTo(t, "shadow") /\ splSem' = NoThread
              /\ UNCHANGED schedulerSignal
      /\ UNCHANGED <<queue, job, port>> /\ Frame

\* Back from DeleteFile of the shadow; whether the job is still used is not
\* looked at again.
DeleteJobShadow(t) ==
  /\ Reentering(t, "shadow")
  /\ AddRef(del[t].job, -1) /\ Return(t)
  /\ UNCHANGED <<queue, Status, job, port>> /\ Frame

\* Unlink the job; a job that was not printed in full is logged outside SplSem.
DeleteJobUnlink(t) ==
  LET j == del[t].job
  IN  /\ Deleting(t, "counted") /\ Unused(cRef[j])
      /\ IF Has(j, {"SPOOLING"})
         THEN Return(t) /\ UNCHANGED <<queue, cRef>>
         ELSE /\ queue' = Without(queue, j)
              /\ \/ AddRef(j, 1) /\ GoTo(t, "log") /\ splSem' = NoThread
                 \/ /\ Has(j, {"PRINTED"})
                    /\ GoTo(t, "free") /\ UNCHANGED <<cRef, splSem>>
              /\ UNCHANGED schedulerSignal
      /\ UNCHANGED <<Status, job, port>> /\ Frame

DeleteJobLogged(t) ==
  /\ Reentering(t, "log")
  /\ AddRef(del[t].job, -1) /\ GoTo(t, "free") /\ splSem' = t
  /\ UNCHANGED <<queue, Status, job, port, schedulerSignal>> /\ Frame

\* FreeSplMem(pIniJob), then out of SplSem to delete its files.
DeleteJobFree(t) ==
  LET j == del[t].job
  IN  /\ Deleting(t, "free")
      /\ job' = [job EXCEPT ![j].signature = "freed", ![j].WaitForWrite = "null",
                            ![j].NextJobId = NoJob]
      /\ del' = [del EXCEPT ![t].pc = "files", ![t].job = NoJob]
      /\ splSem' = NoThread
      /\ UNCHANGED <<queue, Status, cRef, port, schedulerSignal>> /\ Frame

\* Drop the chained job; it is deleted next if nobody else uses it.
DeleteJobFiles(t) ==
  LET n == del[t].next
  IN  /\ Reentering(t, "files")
      /\ IF n \in Queued /\ cRef[n] = 1
         THEN del' = [del EXCEPT ![t].pc = "trace", ![t].check = FilePooled] /\ UNCHANGED cRef
         ELSE /\ del' = [del EXCEPT ![t].pc = "trace", ![t].next = NoJob,
                                    ![t].check = FilePooled]
              /\ IF n \in Queued THEN AddRef(n, -1) ELSE UNCHANGED cRef
      /\ UNCHANGED <<splSem, queue, Status, job, port, schedulerSignal>> /\ Frame

DeleteJobTraced(t) ==
  LET n == del[t].next
  IN  /\ Reentering(t, "trace")
      /\ IF n = NoJob
         THEN Return(t) /\ UNCHANGED cRef
         ELSE /\ AddRef(n, -1)
              /\ del' = [del EXCEPT ![t].pc = "start", ![t].job = n, ![t].next = NoJob]
              /\ splSem' = t /\ UNCHANGED schedulerSignal
      /\ UNCHANGED <<queue, Status, job, port>> /\ Frame

DeleteJob(t) ==
  \/ DeleteJobStart(t) \/ DeleteJobCancel(t) \/ DeleteJobControl(t)
  \/ DeleteJobReferenced(t) \/ DeleteJobShadow(t)
  \/ DeleteJobUnlink(t) \/ DeleteJobLogged(t) \/ DeleteJobFree(t)
  \/ DeleteJobFiles(t) \/ DeleteJobTraced(t)

----------------------------------------------------------------------------
(* The application thread of job j: StartDocPrinter, WritePrinter, ...,      *)
(* EndDocPrinter or AbortPrinter.                                           *)

AppFrame == UNCHANGED <<port, listVars, cFullPrintingJobs, client, pt, sched, commands>>

\* SpoolThisJob with CreateJobEntry and AddJobEntry.
StartDocPrinter(j) ==
  /\ Enter(j) /\ app[j] = "idle"
  /\ app' = [app EXCEPT ![j] = "spooling"]
  /\ job' = [job EXCEPT ![j].signature = "IJ_SIGNATURE"]
  /\ Status' = [Status EXCEPT ![j] = {"SPOOLING"}]
  /\ cRef' = [cRef EXCEPT ![j] = 1]
  /\ queue' = Append(queue, j)
  /\ schedulerSignal' = TRUE
  /\ UNCHANGED <<splSem, del>> /\ AppFrame

\* One WritePrinter call; it may take the job across the threshold.  The size
\* of a chained job includes that of the job it goes on with.
WritePrinter(j) ==
  /\ Enter(j) /\ app[j] = "spooling" /\ ~ Has(j, {"PENDING_DELETION"})
  /\ \E length \in {n \in Lengths : n > job[j].data} :
       LET written == length - job[j].data
           next    == job[j].NextJobId
           size    == length + (IF next \in Queued THEN job[next].Size ELSE 0)
       IN  /\ job' = [job EXCEPT ![j].data = length, ![j].Size = Capped(size),
                                 ![j].unread = @ + written,
                                 ![j].WaitForWrite = IF @ = "null" THEN "null" ELSE "set"]
           /\ schedulerSignal' = \/ schedulerSignal
                                 \/ /\ size - written < dwFastPrintSlowDownThreshold
                                    /\ size >= dwFastPrintSlowDownThreshold
                                    /\ job[j].WaitForWrite = "null"
  /\ UNCHANGED <<splSem, queue, Status, cRef, app, del>> /\ AppFrame

\* LocalAbortPrinter up to its call of EndDocPrinter.
AbortPrinter(j) ==
  /\ Enter(j) /\ app[j] = "spooling" /\ "ABORT" \in Commands
  /\ Status' = [Status EXCEPT ![j] = (@ \cup {"PENDING_DELETION"}) \ {"RESTART"}]
  /\ app' = [app EXCEPT ![j] = "cancelled"]
  /\ UNCHANGED <<splSem, queue, cRef, job, schedulerSignal, del>> /\ AppFrame

\* WriteShadowJob ends: if it created the file again, the mark that it is gone goes.
Recreated(wrote) == IF wrote THEN SUBSET {"SHADOW_DELETED"} ELSE {{}}

\* EndDocPrinter up to WriteShadowJob, which leaves SplSem unless the shadow
\* file is already gone.
EndDocPrinter(j) ==
  /\ Enter(j) /\ app[j] \in {"spooling", "cancelled"}
  /\ job' = [job EXCEPT ![j].WaitForWrite = IF @ = "null" THEN "null" ELSE "set"]
  /\ Status' = [Status EXCEPT ![j] = @ \ {"SPOOLING"}]
  /\ app' = [app EXCEPT ![j] = "shadow"]
  /\ splSem' = IF Has(j, {"SHADOW_DELETED"}) THEN j ELSE NoThread
  /\ UNCHANGED <<queue, cRef, schedulerSignal, del>> /\ AppFrame

\* The rest of EndDocPrinter: give up the reference the job was born with.
EndDocRelease(j) ==
  /\ Enter(j) \/ Hold(j)
  /\ app[j] = "shadow"
  /\ \E back \in Recreated(~ Hold(j)) :
       Status' = [Status EXCEPT ![j] =
         @ \ (back \cup (IF "TIMEOUT" \in @ /\ "PENDING_DELETION" \notin @
                         THEN {"TIMEOUT", "ABANDON"} ELSE {}))]
  /\ IF Has(j, {"PENDING_DELETION"})
     THEN /\ AddRef(j, -1) /\ Call(j, j, TRUE) /\ splSem' = j
          /\ app' = [app EXCEPT ![j] = "done"]
          /\ UNCHANGED schedulerSignal
     ELSE /\ schedulerSignal' = TRUE
          /\ splSem' = NoThread
          /\ IF Has(j, {"PAUSED"}) /\ ~ Has(j, {"PRINTING", "PRINTED"})
             THEN UNCHANGED cRef /\ app' = [app EXCEPT ![j] = "log"]
             ELSE AddRef(j, -1) /\ app' = [app EXCEPT ![j] = "done"]
          /\ UNCHANGED del
  /\ UNCHANGED <<queue, job>> /\ AppFrame

EndDocLogged(j) ==
  /\ Enter(j) /\ app[j] = "log"
  /\ AddRef(j, -1)
  /\ app' = [app EXCEPT ![j] = "done"]
  /\ UNCHANGED <<queue, Status, job, schedulerSignal>> /\ AppFrame
  /\ DeleteJobCheckAndLeave(j, j)

Application(j) ==
  \/ StartDocPrinter(j) \/ WritePrinter(j) \/ AbortPrinter(j)
  \/ EndDocPrinter(j) \/ EndDocRelease(j) \/ EndDocLogged(j)

----------------------------------------------------------------------------
(* A client c: SetJob(Command) on a job it finds in the queue.               *)

ClientFrame == UNCHANGED <<queue, listVars, cFullPrintingJobs, app, pt, sched>>

ClientGoesTo(c, pc) == client' = [client EXCEPT ![c].pc = pc]

\* A new SetJob call that found its job.
SetJob(c, j, command) ==
  /\ Enter(c) /\ client[c].pc = "idle" /\ commands < MaxCommands
  /\ command \in Commands /\ j \in Queued
  /\ commands' = commands + 1
  /\ ClientFrame

Begin(c, pc, j, command) ==
  client' = [client EXCEPT ![c] = [pc |-> pc, job |-> j, command |-> command, port |-> NoPort]]

\* PAUSE, RESUME and RESTART first trace the command outside SplSem.
SetJobTrace(c, j, command) ==
  /\ command \in {"PAUSE", "RESUME", "RESTART"} /\ SetJob(c, j, command)
  /\ AddRef(j, 1) /\ Begin(c, "trace", j, command)
  /\ UNCHANGED <<splSem, Status, job, port, schedulerSignal, del>>

SetJobDelete(c, j) ==
  /\ SetJob(c, j, "DELETE")
  /\ Status' = [Status EXCEPT ![j] = @ \ {"RESTART"}]
  /\ job' = [job EXCEPT ![j].dwJobControlsPending = 0]
  /\ Begin(c, "tail", j, "DELETE") /\ Call(c, j, FALSE) /\ splSem' = c
  /\ UNCHANGED <<cRef, port, schedulerSignal>>

\* Old monitors and users: the job counts as printed unless it was interrupted.
SetJobCancel(c, j) ==
  LET printed == ~ Has(j, {"INTERRUPTED", "SPOOLING"})
      alert   == printed /\ ~ Restarting(j) /\ job[j].pCurrentIniJob = NoJob
  IN  /\ SetJob(c, j, "CANCEL")
      /\ Status' = [Status EXCEPT ![j] =
                      IF printed THEN (@ \cup {"PRINTED"}) \ {"COMPLETE"}
                                 ELSE @ \ {"INTERRUPTED"}]
      /\ IF alert
         THEN /\ AddRef(j, 1) /\ Begin(c, "alert", j, "CANCEL")
              /\ UNCHANGED <<splSem, job, del>>
         ELSE /\ job' = [job EXCEPT ![j].dwJobControlsPending = 0]
              /\ Begin(c, "tail", j, "CANCEL") /\ Call(c, j, FALSE) /\ splSem' = c
              /\ UNCHANGED cRef
      /\ UNCHANGED <<port, schedulerSignal>>

SetJobAlerted(c) ==
  LET j == client[c].job
  IN  /\ Enter(c) /\ client[c].pc = "alert"
      /\ AddRef(j, -1)
      /\ Status' = [Status EXCEPT ![j] = @ \ {"INTERRUPTED"}]
      /\ job' = [job EXCEPT ![j].dwJobControlsPending = 0]
      /\ ClientGoesTo(c, "tail") /\ Call(c, j, FALSE) /\ splSem' = c
      /\ UNCHANGED <<port, schedulerSignal, commands>> /\ ClientFrame

\* The jobs a chain from j leads to.
ChainFrom(j) ==
  LET After[n \in Nat] == IF n = 0 THEN {job[j].NextJobId}
                          ELSE After[n - 1] \cup {job[k].NextJobId : k \in After[n - 1] \ {NoJob}}
  IN  After[Cardinality(Jobs)]

CircularChainedJobsList_OneStep(j, n) == j = n
CircularChainedJobsList(j, n) == j \in ChainFrom(n)

\* SetLocalJob level 3: print job n right after job j, as one document.
SetJobChain(c, j, n) ==
  /\ SetJob(c, j, "CHAIN")
  /\ n \in Queued \ {j} /\ job[j].NextJobId = NoJob /\ ~ CircularChainedJobsList(j, n)
  /\ ~ Has(j, {"DESPOOLING"}) /\ ~ Has(n, {"DESPOOLING"})
  /\ job' = [job EXCEPT ![j].NextJobId = n,
                        ![j].Size = Capped(@ + job[n].Size)]
  /\ Status' = [Status EXCEPT ![n] = @ \cup {"COMPOUND"}]
  /\ AddRef(n, 1)
  /\ schedulerSignal' = TRUE
  /\ UNCHANGED <<port, client>> /\ DeleteJobCheckAndLeave(c, j)

\* SetPrinter or SetPrinterData: the blocked jobs may be tried again.
SetPrinterUnblock(c) ==
  /\ Enter(c) /\ client[c].pc = "idle" /\ commands < MaxCommands
  /\ "UNBLOCK" \in Commands /\ \E j \in Queued : Has(j, {"BLOCKED_DEVQ"})
  /\ commands' = commands + 1
  /\ Status' = [j \in Jobs |-> IF j \in Queued THEN Status[j] \ {"BLOCKED_DEVQ"} ELSE Status[j]]
  /\ schedulerSignal' = TRUE
  /\ UNCHANGED <<splSem, cRef, job, port, client, del>> /\ ClientFrame

\* PauseJob and ResumeJob: capture the job's port, unless another call is
\* already at the print processor of that port, then leave SplSem.
PauseOrResumeJob(c) ==
  LET j == client[c].job
      p == job[j].pIniPort
      command == client[c].command
  IN  /\ Enter(c) /\ client[c].pc = "trace" /\ command \in {"PAUSE", "RESUME"}
      /\ Status' = [Status EXCEPT ![j] =
                      IF command = "PAUSE" THEN @ \cup {"PAUSED"} ELSE @ \ {"PAUSED"}]
      /\ IF p # NoPort /\ command \notin port[p].InCriticalSection
         THEN client' = [client EXCEPT ![c].pc = "capture", ![c].port = p]
         ELSE ClientGoesTo(c, "log")
      /\ UNCHANGED <<splSem, cRef, job, port, schedulerSignal, del, commands>> /\ ClientFrame

\* Inside the print processor's critical section and SplSem again.
PauseOrResumePort(c) ==
  LET j == client[c].job
      p == client[c].port
      command == client[c].command
  IN  /\ Enter(c) /\ client[c].pc = "capture" /\ PrintProcFree
      /\ IF Has(j, {"PRINTING"}) /\ port[p].hProc # "closed"
         THEN /\ port' = [port EXCEPT ![p].InCriticalSection = @ \cup {command}]
              /\ ClientGoesTo(c, "control")
         ELSE /\ port' = [port EXCEPT ![p].InCriticalSection = @ \ {command}]
              /\ ClientGoesTo(c, "log")
      /\ schedulerSignal' = (schedulerSignal \/ (command = "RESUME" /\ ~ Has(j, {"PRINTING"})))
      /\ UNCHANGED <<splSem, Status, cRef, job, del, commands>> /\ ClientFrame

\* The print processor's Control entry, then back into SplSem.
ControlPrintProcessor(c) ==
  LET p == client[c].port
      command == client[c].command
  IN  /\ Enter(c) /\ client[c].pc = "control"
      /\ port' = [port EXCEPT
           ![p].hProc = CASE @ = "running" /\ command = "PAUSE"  -> "paused"
                          [] @ = "paused"  /\ command = "RESUME" -> "running"
                          [] OTHER -> @,
           ![p].InCriticalSection = @ \ {command}]
      /\ ClientGoesTo(c, "log")
      /\ UNCHANGED <<splSem, Status, cRef, job, schedulerSignal, del, commands>> /\ ClientFrame

\* LogJobInfo is done; what follows in LocalSetJob is the tail.
PauseOrResumeLogged(c) ==
  /\ Enter(c) /\ client[c].pc = "log"
  /\ AddRef(client[c].job, -1)
  /\ ClientGoesTo(c, "tail") /\ splSem' = c
  /\ UNCHANGED <<Status, job, port, schedulerSignal, del, commands>> /\ ClientFrame

\* RestartJob; a job pending deletion is left alone and the call fails.
RestartJob(c) ==
  LET j == client[c].job
      p == job[j].pIniPort
      Cleared == (IF Has(j, {"DESPOOLING"}) THEN {} ELSE {"PRINTED", "BLOCKED_DEVQ", "COMPLETE"})
                 \cup (IF Has(j, {"TIMEOUT"}) THEN {"TIMEOUT", "ABANDON"} ELSE {})
  IN  /\ Enter(c) /\ client[c].pc = "trace" /\ client[c].command = "RESTART"
      /\ AddRef(j, -1)
      /\ IF Has(j, {"PENDING_DELETION"})
         THEN /\ client' = [client EXCEPT ![c] = NoCall]
              /\ UNCHANGED <<Status, port, schedulerSignal>>
              /\ DeleteJobCheckAndLeave(c, j)
         ELSE /\ IF Has(j, {"PRINTING", "PRINTED", "COMPLETE"})
                 THEN /\ Status' = [Status EXCEPT ![j] = (@ \ Cleared) \cup {"RESTART"}]
                      /\ port' = IF p = NoPort THEN port
                                 ELSE [port EXCEPT ![p].InCriticalSection = {}]
                      /\ schedulerSignal' = TRUE
                 ELSE UNCHANGED <<Status, port, schedulerSignal>>
              /\ ClientGoesTo(c, "tail") /\ splSem' = c /\ UNCHANGED del
      /\ UNCHANGED <<job, commands>> /\ ClientFrame

\* The end of LocalSetJob: find the job again, SetLocalJob, DeleteJobCheck.
SetJobTail(c) ==
  LET j == client[c].job
  IN  /\ Hold(c) /\ client[c].pc = "tail"
      /\ client' = [client EXCEPT ![c] = NoCall]
      /\ schedulerSignal' = (schedulerSignal \/ j \in Queued)
      /\ UNCHANGED <<Status, cRef, job, port, commands>> /\ ClientFrame
      /\ IF j \in Queued THEN DeleteJobCheckAndLeave(c, j)
                         ELSE splSem' = NoThread /\ UNCHANGED del

Client(c) ==
  \/ \E j \in Jobs : \/ \E command \in AllCommands : SetJobTrace(c, j, command)
                     \/ SetJobDelete(c, j) \/ SetJobCancel(c, j)
                     \/ \E n \in Jobs : SetJobChain(c, j, n)
  \/ SetPrinterUnblock(c) \/ SetJobAlerted(c)
  \/ PauseOrResumeJob(c) \/ PauseOrResumePort(c) \/ ControlPrintProcessor(c)
  \/ PauseOrResumeLogged(c) \/ RestartJob(c) \/ SetJobTail(c)

----------------------------------------------------------------------------
(* The thread of port p.  pt[p].job is its local pIniJob.                    *)

PortFrame == UNCHANGED <<queue, app, client, sched, commands>>

PortAt(p, pcs) == Enter(p) /\ pt[p].pc \in pcs
PortGoesTo(p, pc) == pt' = [pt EXCEPT ![p].pc = pc]

\* The top of the loop: the thread is ready for a job.
PortThreadWaits_Unsignalled(p) ==
  /\ PortAt(p, {"started"}) \/ (Hold(p) /\ pt[p].pc = "top")
  /\ port' = [port EXCEPT ![p].Status = @ \cup {"WAITING"}]
  /\ PortGoesTo(p, "wait") /\ splSem' = NoThread
  /\ UNCHANGED <<Status, cRef, job, listVars, globalVars, del>> /\ PortFrame
PortThreadWaits(p) ==
  /\ PortAt(p, {"started"}) \/ (Hold(p) /\ pt[p].pc = "top")
  /\ port' = [port EXCEPT ![p].Status = @ \cup {"WAITING"}]
  /\ schedulerSignal' = TRUE
  /\ PortGoesTo(p, "wait") /\ splSem' = NoThread
  /\ UNCHANGED <<Status, cRef, job, listVars, cFullPrintingJobs, del>> /\ PortFrame

PortThreadExits(p) ==
  /\ PortAt(p, {"wait"}) /\ port[p].Semaphore /\ "RUNTHREAD" \notin port[p].Status
  /\ port' = [port EXCEPT ![p].Status = @ \ {"THREADRUNNING", "WAITING"},
                          ![p].Semaphore = FALSE]
  /\ PortGoesTo(p, "none")
  /\ UNCHANGED <<splSem, Status, cRef, job, listVars, globalVars, del>> /\ PortFrame

\* Woken with a job; it is traced outside SplSem.
PortThreadTakes(p) ==
  LET j == port[p].pIniJob
  IN  /\ PortAt(p, {"wait"}) /\ port[p].Semaphore /\ "RUNTHREAD" \in port[p].Status
      /\ j # NoJob
      /\ port' = [port EXCEPT ![p].Semaphore = FALSE]
      /\ pt' = [pt EXCEPT ![p] = PortThreadAt("taken", j)]
      /\ AddRef(j, 1)
      /\ UNCHANGED <<splSem, Status, job, listVars, globalVars, del>> /\ PortFrame

\* A restarted job begins anew.
PortThreadBegins(p) ==
  LET j == pt[p].job
  IN  /\ PortAt(p, {"taken"})
      /\ AddRef(j, -1)
      /\ Status' = [Status EXCEPT ![j] =
                      IF "RESTART" \in @ THEN @ \ {"RESTART", "INTERRUPTED"} ELSE @]
      /\ PortGoesTo(p, "devq")
      /\ UNCHANGED <<splSem, job, port, listVars, globalVars, del>> /\ PortFrame

\* CallDevQueryPrint: a driver may refuse the job when the queue asks it.
DevQueryPrint(p) ==
  /\ Outside(p) /\ pt[p].pc = "devq"
  /\ \/ PortGoesTo(p, "open")
     \/ /\ "ENABLE_DEVQ" \in Attributes
        /\ pt' = [pt EXCEPT ![p].pc = "post", ![p].devq = FALSE]
  /\ UNCHANGED <<splSem, Status, cRef, job, port, listVars, globalVars, del>> /\ PortFrame

OpenPrintProcessor(p) ==
  /\ PortAt(p, {"open"})
  /\ \/ /\ Status' = [Status EXCEPT ![pt[p].job] = @ \cup {"PRINTING"}]
        /\ port' = [port EXCEPT ![p].hProc = "running"]
        /\ PortGoesTo(p, "print")
     \/ /\ "OpenPrintProcessor" \in Failures
        /\ PortGoesTo(p, "discard") /\ UNCHANGED <<Status, port>>
  /\ UNCHANGED <<splSem, cRef, job, listVars, globalVars, del>> /\ PortFrame

\* The job whose data is read for j: the current one of its chain.
Source(j) == IF job[j].pCurrentIniJob = NoJob THEN j ELSE job[j].pCurrentIniJob

\* PrintRawJob: start the document on the port, open the job's data.
PrintRawJob(p) ==
  LET j == pt[p].job
  IN  /\ PortAt(p, {"print"})
      /\ \/ /\ PortGoesTo(p, "read") /\ AddRef(j, 1)
            /\ job' = [job EXCEPT ![Source(j)].unread = job[Source(j)].data]
         \/ /\ "StartDocPort" \in Failures
            /\ pt' = [pt EXCEPT ![p].pc = "close", ![p].failed = TRUE]
            /\ UNCHANGED <<cRef, job>>
      /\ UNCHANGED <<splSem, Status, port, listVars, globalVars, del>> /\ PortFrame

\* The reader has caught up with a job that is still being spooled.
MustWait_Never(j) == FALSE
MustWait(j) == job[j].WaitForWrite # "null" /\ Has(j, {"SPOOLING"}) /\ job[Source(j)].unread = 0

\* One ReadPrinter call up to its result or its wait for data ("again" is the
\* loop inside it, after a wait).
ReadPrinter(p) ==
  LET j == pt[p].job
      cancelled == IF MustWait(j) THEN Has(j, {"PENDING_DELETION", "RESTART", "ABANDON"})
                   ELSE pt[p].pc = "read" /\ Has(j, {"PENDING_DELETION", "RESTART"})
  IN  /\ PortAt(p, {"read", "again"})
      /\ \/ /\ cancelled
            /\ PortGoesTo(p, "closejob") /\ UNCHANGED <<Status, job>>
         \/ /\ ~ cancelled /\ MustWait(j)
            /\ job' = [job EXCEPT ![j].WaitForWrite = "reset"]
            /\ PortGoesTo(p, "readwait") /\ UNCHANGED Status
         \/ /\ ~ cancelled /\ ~ MustWait(j)
            /\ Status' = [Status EXCEPT ![j] = @ \ {"TIMEOUT", "ABANDON"}]
            /\ job' = [job EXCEPT ![Source(j)].unread = IF @ > 0 THEN @ - 1 ELSE 0]
            /\ PortGoesTo(p, IF job[Source(j)].unread > 0 THEN "write" ELSE "closejob")
      /\ UNCHANGED <<splSem, cRef, port, listVars, globalVars, del>> /\ PortFrame

ReadPrinterWakes(p) ==
  /\ Outside(p) /\ pt[p].pc = "readwait" /\ job[pt[p].job].WaitForWrite = "set"
  /\ PortGoesTo(p, "again")
  /\ UNCHANGED <<splSem, Status, cRef, job, port, listVars, globalVars, del>> /\ PortFrame

\* dwFastPrintWaitTimeout is over (data may have come since): freeze the job if
\* another one could use the port.
ReadPrinterTimesOut(p) ==
  LET j == pt[p].job
  IN  /\ PortAt(p, {"readwait"})
      /\ IF AssignFreeJobToFreePort = {}
         THEN /\ Status' = [Status EXCEPT ![j] = @ \cup {"TIMEOUT"}]
              /\ PortGoesTo(p, "again") /\ UNCHANGED job
         ELSE /\ Status' = [Status EXCEPT ![j] = @ \cup {"TIMEOUT", "ABANDON"}]
              /\ job' = [job EXCEPT ![j].WaitForWrite = "null"]
              /\ PortGoesTo(p, "closejob")
      /\ UNCHANGED <<splSem, cRef, port, listVars, globalVars, del>> /\ PortFrame

\* Between reading and writing the print processor obeys Control.
WritePort(p) ==
  /\ Outside(p) /\ pt[p].pc = "write" /\ port[p].hProc # "paused"
  /\ PortGoesTo(p, IF port[p].hProc = "aborted" THEN "closejob" ELSE "read")
  /\ UNCHANGED <<splSem, Status, cRef, job, port, listVars, globalVars, del>> /\ PortFrame

\* ClosePrinter of the job handle.
ClosePrinter(p) ==
  /\ PortAt(p, {"closejob"})
  /\ AddRef(pt[p].job, -1) /\ PortGoesTo(p, "enddoc")
  /\ UNCHANGED <<Status, job, port, listVars, globalVars>> /\ PortFrame
  /\ DeleteJobCheckAndLeave(p, pt[p].job)

\* LocalEndDocPrinter on the port handle, up to the monitor's EndDocPort.
EndDocPort(p) ==
  LET j == pt[p].job
  IN  /\ PortAt(p, {"enddoc"})
      /\ AddRef(j, 1)
      /\ job' = [job EXCEPT ![j].dwJobControlsPending = (@ + 1) % DwordModulus]
      /\ Status' = [Status EXCEPT ![j] =
           IF Has(j, {"PENDING_DELETION", "RESTART"}) THEN @ \cup {"INTERRUPTED"} ELSE @]
      /\ PortGoesTo(p, "sent")
      /\ UNCHANGED <<splSem, port, listVars, globalVars, del>> /\ PortFrame

\* A job the monitor has finished with is deleted, unless it is kept or its
\* chain goes on.
DeleteSentJob(p, j) ==
  LET current == job[j].pCurrentIniJob
      last    == IF current = NoJob THEN TRUE ELSE job[current].NextJobId = NoJob
  IN  IF "KEEPPRINTEDJOBS" \notin Attributes /\ last
      THEN Call(p, j, FALSE) ELSE UNCHANGED del

\* The monitor's SetJob(JOB_CONTROL_SENT_TO_PRINTER), in the port's thread.
SentToPrinter(p) ==
  LET j       == pt[p].job
      pending == (job[j].dwJobControlsPending - 1) % DwordModulus
      printed == pending = 0 /\ ~ Has(j, {"INTERRUPTED", "SPOOLING"})
      alert   == printed /\ ~ Restarting(j) /\ job[j].pCurrentIniJob = NoJob
  IN  /\ PortAt(p, {"sent"})
      /\ job' = [job EXCEPT ![j].dwJobControlsPending = pending]
      /\ Status' = [Status EXCEPT ![j] =
                      IF printed THEN (@ \cup {"PRINTED"}) \ {"COMPLETE"} ELSE @]
      /\ IF alert
         THEN AddRef(j, 1) /\ PortGoesTo(p, "alert") /\ UNCHANGED <<splSem, del>>
         ELSE /\ PortGoesTo(p, "tail") /\ splSem' = p /\ UNCHANGED cRef
              /\ IF pending = 0 THEN DeleteSentJob(p, j) ELSE UNCHANGED del
      /\ UNCHANGED <<port, listVars, globalVars>> /\ PortFrame

SentToPrinterAlerted(p) ==
  LET j == pt[p].job
  IN  /\ PortAt(p, {"alert"})
      /\ AddRef(j, -1)
      /\ Status' = [Status EXCEPT ![j] = @ \ {"INTERRUPTED"}]
      /\ PortGoesTo(p, "tail") /\ splSem' = p /\ DeleteSentJob(p, j)
      /\ UNCHANGED <<job, port, listVars, globalVars>> /\ PortFrame

\* The end of that LocalSetJob.
SentToPrinterTail(p) ==
  LET j == pt[p].job
  IN  /\ Hold(p) /\ pt[p].pc = "tail"
      /\ PortGoesTo(p, "ended")
      /\ schedulerSignal' = (schedulerSignal \/ j \in Queued)
      /\ UNCHANGED <<Status, cRef, job, port, listVars, cFullPrintingJobs>> /\ PortFrame
      /\ IF j \in Queued THEN DeleteJobCheckAndLeave(p, j)
                         ELSE splSem' = NoThread /\ UNCHANGED del

\* EndDocPort has returned.
EndDocPortDone_Leaks(p) ==
  /\ PortAt(p, {"ended"})
  /\ PortGoesTo(p, "close")
  /\ UNCHANGED <<Status, cRef, job, port, listVars, globalVars>> /\ PortFrame
  /\ DeleteJobCheckAndLeave(p, pt[p].job)
EndDocPortDone(p) ==
  /\ PortAt(p, {"ended"})
  /\ AddRef(pt[p].job, -1) /\ PortGoesTo(p, "close")
  /\ UNCHANGED <<Status, job, port, listVars, globalVars>> /\ PortFrame
  /\ DeleteJobCheckAndLeave(p, pt[p].job)

\* Print has returned.
PrintDone(p) ==
  /\ PortAt(p, {"close"})
  /\ Status' = [Status EXCEPT ![pt[p].job] = @ \ {"PRINTING"}]
  /\ PortGoesTo(p, "closeproc")
  /\ UNCHANGED <<splSem, cRef, job, port, listVars, globalVars, del>> /\ PortFrame

ClosePrintProcessor(p) ==
  /\ Outside(p) /\ pt[p].pc = "closeproc" /\ PrintProcFree
  /\ port' = [port EXCEPT ![p].hProc = "closed"]
  /\ PortGoesTo(p, IF pt[p].failed THEN "discard" ELSE "post")
  /\ UNCHANGED <<splSem, Status, cRef, job, listVars, globalVars, del>> /\ PortFrame

DiscardJobFromPortThread(p) ==
  /\ PortAt(p, {"discard"})
  /\ Status' = [Status EXCEPT ![pt[p].job] =
                  IF Restarting(pt[p].job) THEN @ ELSE @ \cup {"PENDING_DELETION"}]
  /\ PortGoesTo(p, "post")
  /\ UNCHANGED <<splSem, cRef, job, port, listVars, globalVars, del>> /\ PortFrame

\* The job after pt[p].job in its chain, if the chain goes on.
NextInChain(j) ==
  LET current == job[j].pCurrentIniJob
      next    == IF current = NoJob THEN NoJob ELSE job[current].NextJobId
  IN  IF ~ Has(j, {"PENDING_DELETION", "RESTART"}) /\ next \in Queued THEN next ELSE NoJob

\* After printing: leave the schedule list, move along the chain, set the
\* outcome; a job that ran to its end is logged outside SplSem.
PortThreadFinishes(p) ==
  LET j      == pt[p].job
      next   == NextInChain(j)
      listed == j \in scheduleList
      logged == pt[p].devq /\ ~ Has(j, {"TIMEOUT", "RESTART"}) /\ next = NoJob
  IN  /\ PortAt(p, {"post"})
      /\ scheduleList' = scheduleList \ {j}
      /\ availMemory' = IF listed THEN Release(availMemory, j) ELSE availMemory
      /\ schedulerSignal' = (schedulerSignal \/ listed)
      /\ job' = [job EXCEPT ![j].pCurrentIniJob = next]
      /\ port' = [port EXCEPT ![p].pIniJob = IF next = NoJob THEN NoJob ELSE @]
      /\ cFullPrintingJobs' = cFullPrintingJobs - (IF next = NoJob THEN 1 ELSE 0)
      /\ Status' = [Status EXCEPT ![j] =
           IF ~ pt[p].devq THEN @ \cup {"BLOCKED_DEVQ"}
           ELSE IF logged /\ "PRINTED" \notin @
           THEN @ \cup {IF job[j].Size = 0 THEN "PRINTED" ELSE "COMPLETE"}
           ELSE @]
      /\ AddRef(j, (IF listed THEN -1 ELSE 0) + (IF logged THEN 1 ELSE 0))
      /\ IF logged THEN PortGoesTo(p, "log") /\ UNCHANGED splSem
                   ELSE PortGoesTo(p, "keep") /\ splSem' = p
      /\ UNCHANGED <<waitingList, del>> /\ PortFrame

Kept_Printed(j) == "KEEPPRINTEDJOBS" \in Attributes \/ Has(j, {"TIMEOUT", "PRINTED"})
Kept(j) == "KEEPPRINTEDJOBS" \in Attributes \/ Has(j, {"TIMEOUT"})

\* A job that is to be kept, or that timed out while spooling, stays in the
\* queue: its deletion is taken back and its shadow file written.
PortThreadKeeps(p) ==
  LET j == pt[p].job
      d == IF pt[p].pc = "log" THEN 1 ELSE 0
  IN  /\ PortAt(p, {"log"}) \/ (Hold(p) /\ pt[p].pc = "keep")
      /\ IF Kept(j)
         THEN /\ Status' = [Status EXCEPT ![j] =
                   (@ \ {"PENDING_DELETION"}) \cup (IF "PRINTED" \in @ THEN {} ELSE {"COMPLETE"})]
              /\ AddRef(j, 1 - d) /\ PortGoesTo(p, "shadow") /\ splSem' = NoThread
         ELSE /\ AddRef(j, 0 - d) /\ PortGoesTo(p, "release") /\ splSem' = p
              /\ UNCHANGED Status
      /\ UNCHANGED <<job, port, listVars, globalVars, del>> /\ PortFrame

\* Give up the reference of the assignment; RemoveIniPortFromIniJob.
PortThreadReleases(p) ==
  LET j == pt[p].job
      d == IF pt[p].pc = "shadow" THEN 1 ELSE 0
  IN  /\ PortAt(p, {"shadow"}) \/ (Hold(p) /\ pt[p].pc = "release")
      /\ AddRef(j, 0 - 1 - d)
      /\ port' = [port EXCEPT ![p].cJobs = @ - 1]
      /\ job' = [job EXCEPT ![j].pIniPort = NoPort]
      /\ \E back \in Recreated(pt[p].pc = "shadow") :
           Status' = [Status EXCEPT ![j] =
             @ \ (back \cup (IF port[p].pIniJob # j THEN {"DESPOOLING"} ELSE {})
                  \cup (IF "RESTART" \in @ THEN {"PRINTED", "BLOCKED_DEVQ", "COMPLETE"} ELSE {}))]
      /\ pt' = [pt EXCEPT ![p] = PortThreadAt("top", NoJob)]
      /\ UNCHANGED <<listVars, globalVars>> /\ PortFrame
      /\ DeleteJobCheckAndHold(p, j)

PortThread(p) ==
  \/ PortThreadWaits(p) \/ PortThreadExits(p) \/ PortThreadTakes(p)
  \/ PortThreadBegins(p) \/ DevQueryPrint(p) \/ OpenPrintProcessor(p)
  \/ PrintRawJob(p) \/ ReadPrinter(p) \/ ReadPrinterWakes(p)
  \/ ReadPrinterTimesOut(p) \/ WritePort(p) \/ ClosePrinter(p)
  \/ EndDocPort(p) \/ SentToPrinter(p) \/ SentToPrinterAlerted(p)
  \/ SentToPrinterTail(p) \/ EndDocPortDone(p) \/ PrintDone(p)
  \/ ClosePrintProcessor(p) \/ DiscardJobFromPortThread(p)
  \/ PortThreadFinishes(p) \/ PortThreadKeeps(p) \/ PortThreadReleases(p)

----------------------------------------------------------------------------
(* The scheduler thread.  It holds SplSem through a pass over the waiting    *)
(* list and the ports, except while it logs, creates or destroys a thread.  *)

SchedulerFrame == UNCHANGED <<queue, app, client, del, commands>>

SchedulerAt(pc) == Hold(Scheduler) /\ sched.pc = pc

\* Signalled, or a minute has passed with jobs on the waiting list.
SchedulerWakes ==
  /\ Enter(Scheduler) /\ sched.pc = "wait"
  /\ schedulerSignal \/ waitingList # <<>>
  /\ schedulerSignal' = FALSE
  /\ splSem' = Scheduler /\ sched' = [sched EXCEPT !.pc = "update"]
  /\ UNCHANGED <<Status, cRef, job, port, listVars, cFullPrintingJobs, pt>> /\ SchedulerFrame

\* UpdateJobList, the schedule list: a job has been rendering for seven minutes.
JobExpires(j) ==
  /\ SchedulerAt("update") /\ j \in scheduleList
  /\ scheduleList' = scheduleList \ {j} /\ availMemory' = Release(availMemory, j)
  /\ AddRef(j, -1) /\ schedulerSignal' = TRUE
  /\ UNCHANGED <<splSem, Status, job, port, waitingList, cFullPrintingJobs, pt, sched>>
  /\ SchedulerFrame

NeedsNoScheduling(j) ==
  Has(j, {"PRINTING", "PRINTED", "COMPLETE", "ABANDON", "PENDING_DELETION"})

\* UpdateJobList, the waiting list: drop the jobs that need no scheduling.
DropWaitingJob(j) ==
  /\ SchedulerAt("update") /\ OnWaitingList(j) /\ NeedsNoScheduling(j)
  /\ waitingList' = Without(waitingList, j)
  /\ AddRef(j, -1)
  /\ UNCHANGED <<splSem, Status, job, port, scheduleList, availMemory, globalVars, pt, sched>>
  /\ SchedulerFrame

UpdateJobList ==
  /\ SchedulerAt("update")
  /\ \A i \in DOMAIN waitingList : ~ NeedsNoScheduling(waitingList[i])
  /\ sched' = [sched EXCEPT !.pc = "first"]
  /\ UNCHANGED <<splSem, Status, cRef, job, port, listVars, globalVars, pt>>
  /\ SchedulerFrame

\* A job of the waiting list may be scheduled on port p.
Assignable(j, p) ==
  /\ Schedulable(j)
  /\ {"THREADRUNNING", "WAITING"} \subseteq port[p].Status
  /\ port[p].pIniJob \in {NoJob, j}

\* The jobs the rule SPL_USE_MEMORY admits.
Fitting == {j \in Jobs : EnoughMemory(j)}

\* GetJobFromWaitingList: the first job of the list that the rule admits.
FirstFromWaitingList(admitted) ==
  LET found == {i \in DOMAIN waitingList :
                  waitingList[i] \in admitted /\ \E p \in Ports : Assignable(waitingList[i], p)}
  IN  {waitingList[i] : i \in {i \in found : \A k \in found : i <= k}}

\* The job is a new one for the port: a single job, or the first of its chain.
Starts_Unlinked(j) == job[j].NextJobId = NoJob
Starts(j) == job[j].pCurrentIniJob = NoJob

\* Give job j to port p, whose thread waits, and wake it.
AssignJob(p, j, d) ==
  /\ port' = [port EXCEPT ![p].Status = @ \ {"WAITING"}, ![p].pIniJob = j,
                          ![p].Semaphore = TRUE, ![p].InCriticalSection = {},
                          ![p].cJobs = @ + (IF job[j].pIniPort = p THEN 0 ELSE 1)]
  /\ job' = [job EXCEPT ![j].pIniPort = p,
               ![j].pCurrentIniJob = IF @ = NoJob /\ job[j].NextJobId # NoJob THEN j ELSE @,
               ![j].WaitForWrite = IF Has(j, {"SPOOLING"}) THEN "reset" ELSE "null"]
  /\ Status' = [Status EXCEPT ![j] = @ \cup {"DESPOOLING"}]
  /\ cFullPrintingJobs' = cFullPrintingJobs + (IF Starts(j) THEN 1 ELSE 0)
  /\ AddRef(j, 1 + d)

\* AddToJobList(JOB_SCHEDULE_LIST); no duplicates.  scheduleList' and
\* availMemory'.
AddToScheduleList(j) ==
  IF Required[j] > 0 /\ j \notin scheduleList
  THEN scheduleList' = scheduleList \cup {j} /\ availMemory' = Reserve(availMemory, j)
  ELSE UNCHANGED <<scheduleList, availMemory>>

\* SchedulerCheckPort with a fixed job: from the waiting list to a port.
ScheduleFromWaitingList(j, p) ==
  /\ Assignable(j, p)
  /\ AddToScheduleList(j)
  /\ waitingList' = Without(waitingList, j)
  /\ AssignJob(p, j, IF j \in scheduleList THEN -1 ELSE 0)
  /\ UNCHANGED <<splSem, schedulerSignal, pt>> /\ SchedulerFrame

\* A job has waited a minute and nothing was scheduled in that time.
ScheduleFirstJob(p) ==
  /\ SchedulerAt("first")
  /\ sched' = [sched EXCEPT !.pc = "waiting"]
  /\ \E j \in FirstFromWaitingList(Jobs) : ScheduleFromWaitingList(j, p)

NoFirstJob ==
  /\ SchedulerAt("first")
  /\ sched' = [sched EXCEPT !.pc = "waiting"]
  /\ UNCHANGED <<splSem, Status, cRef, job, port, listVars, globalVars, pt>> /\ SchedulerFrame

ScheduleByMemory(p) ==
  /\ SchedulerAt("waiting")
  /\ \E j \in FirstFromWaitingList(Fitting) : ScheduleFromWaitingList(j, p)
  /\ UNCHANGED sched

NoMoreByMemory ==
  /\ SchedulerAt("waiting") /\ FirstFromWaitingList(Fitting) = {}
  /\ sched' = [sched EXCEPT !.pc = "ports", !.todo = Ports]
  /\ UNCHANGED <<splSem, Status, cRef, job, port, listVars, globalVars, pt>> /\ SchedulerFrame

----------------------------------------------------------------------------
(* SchedulerCheckPort, for each port of the pass.                            *)

Busy(p) == port[p].pIniJob # NoJob /\ "WAITING" \notin port[p].Status
Ready_NotWaiting(p) == "THREADRUNNING" \in port[p].Status
Ready(p) == {"THREADRUNNING", "WAITING"} \subseteq port[p].Status

CheckPort(p) == SchedulerAt("ports") /\ p \in sched.todo
NextPort(p) == [sched EXCEPT !.todo = @ \ {p}]

\* Rule 1: push out a job that has timed out when another one could print.
MustAbandon(p) ==
  /\ Busy(p) /\ Has(port[p].pIniJob, {"TIMEOUT"})
  /\ job[port[p].pIniJob].WaitForWrite # "null" /\ AssignFreeJobToFreePort # {}

AbandonJob(p) ==
  LET j == port[p].pIniJob
  IN  /\ CheckPort(p) /\ MustAbandon(p)
      /\ AddRef(j, 1)
      /\ Status' = [Status EXCEPT ![j] = @ \cup {"ABANDON"}]
      /\ sched' = [NextPort(p) EXCEPT !.pc = "abandon", !.job = j]
      /\ splSem' = NoThread
      /\ UNCHANGED <<job, port, listVars, globalVars, pt>> /\ SchedulerFrame

\* The timeout has been logged.
AbandonLogged ==
  LET j == sched.job
  IN  /\ Enter(Scheduler) /\ sched.pc = "abandon"
      /\ AddRef(j, -1)
      /\ job' = [job EXCEPT ![j].WaitForWrite = IF @ = "null" THEN "null" ELSE "set"]
      /\ sched' = [sched EXCEPT !.pc = "ports", !.job = NoJob]
      /\ splSem' = Scheduler
      /\ UNCHANGED <<Status, port, listVars, globalVars, pt>> /\ SchedulerFrame

\* The job for a port that is ready: the rest of its chain first.
Candidate(p) == IF port[p].pIniJob # NoJob THEN {port[p].pIniJob} ELSE AssignFreeJobToFreePort

\* CheckMemoryAvailable turns the job away.
MustWaitForMemory_Queue(j) == Required[j] > 0 /\ waitingList # <<>>
MustWaitForMemory(j) ==
  Required[j] > 0 /\ (waitingList # <<>> \/ ~ EnoughMemory(j))

SchedulePort(p) ==
  /\ CheckPort(p) /\ Ready(p)
  /\ \E j \in Candidate(p) :
       /\ ~ MustWaitForMemory(j)
       /\ AddToScheduleList(j)
       /\ AssignJob(p, j, IF scheduleList' = scheduleList THEN 0 ELSE 1)
  /\ sched' = NextPort(p)
  /\ UNCHANGED <<splSem, waitingList, schedulerSignal, pt>> /\ SchedulerFrame

\* No job for this port, or one that must wait for memory: the thread goes.
DestroyPortThread(p) ==
  /\ CheckPort(p) /\ Ready(p) /\ \A j \in Candidate(p) : MustWaitForMemory(j)
  /\ LET waiter == {j \in Candidate(p) : ~ OnWaitingList(j)}
     IN  /\ waitingList' = IF waiter = {} THEN waitingList
                           ELSE Append(waitingList, CHOOSE j \in waiter : TRUE)
         /\ cRef' = [j \in Jobs |-> IF j \in waiter THEN cRef[j] + 1 ELSE cRef[j]]
  /\ port' = [port EXCEPT ![p].Status = @ \ {"RUNTHREAD"}, ![p].Semaphore = TRUE]
  /\ sched' = [NextPort(p) EXCEPT !.pc = "destroy", !.port = p]
  /\ splSem' = NoThread
  /\ UNCHANGED <<Status, job, scheduleList, availMemory, globalVars, pt>> /\ SchedulerFrame

PortThreadGone ==
  /\ Enter(Scheduler) /\ sched.pc = "destroy" /\ pt[sched.port].pc = "none"
  /\ port' = [port EXCEPT ![sched.port].Status = @ \ {"WAITING"}]
  /\ sched' = [sched EXCEPT !.pc = "ports", !.port = NoPort]
  /\ splSem' = Scheduler
  /\ UNCHANGED <<Status, cRef, job, listVars, globalVars, pt>> /\ SchedulerFrame

CreatePortThread(p) ==
  /\ CheckPort(p) /\ ~ Busy(p) /\ "THREADRUNNING" \notin port[p].Status
  /\ AssignFreeJobToFreePort # {}
  /\ port' = [port EXCEPT ![p].Status = @ \cup {"RUNTHREAD"}]
  /\ pt' = [pt EXCEPT ![p].pc = "started"]
  /\ sched' = [NextPort(p) EXCEPT !.pc = "create", !.port = p]
  /\ splSem' = NoThread
  /\ UNCHANGED <<Status, cRef, job, listVars, globalVars>> /\ SchedulerFrame

PortThreadReady ==
  /\ Enter(Scheduler) /\ sched.pc = "create" /\ pt[sched.port].pc # "started"
  /\ port' = [port EXCEPT ![sched.port].Status = @ \cup {"THREADRUNNING"}]
  /\ sched' = [sched EXCEPT !.pc = "ports", !.port = NoPort]
  /\ splSem' = Scheduler
  /\ UNCHANGED <<Status, cRef, job, listVars, globalVars, pt>> /\ SchedulerFrame

\* Nothing to do for this port.
SkipPort(p) ==
  /\ CheckPort(p)
  /\ \/ Busy(p) /\ ~ MustAbandon(p)
     \/ /\ ~ Busy(p) /\ "WAITING" \notin port[p].Status
        /\ "THREADRUNNING" \in port[p].Status \/ AssignFreeJobToFreePort = {}
  /\ sched' = NextPort(p)
  /\ UNCHANGED <<splSem, Status, cRef, job, port, listVars, globalVars, pt>> /\ SchedulerFrame

SchedulerSleeps ==
  /\ SchedulerAt("ports") /\ sched.todo = {}
  /\ sched' = [sched EXCEPT !.pc = "wait"] /\ splSem' = NoThread
  /\ UNCHANGED <<Status, cRef, job, port, listVars, globalVars, pt>> /\ SchedulerFrame

SchedulerThread ==
  \/ SchedulerWakes \/ UpdateJobList \/ NoFirstJob \/ NoMoreByMemory
  \/ AbandonLogged \/ PortThreadGone \/ PortThreadReady \/ SchedulerSleeps
  \/ \E j \in Jobs : JobExpires(j) \/ DropWaitingJob(j)
  \/ \E p \in Ports : \/ ScheduleFirstJob(p) \/ ScheduleByMemory(p)
                      \/ AbandonJob(p) \/ SchedulePort(p)
                      \/ DestroyPortThread(p) \/ CreatePortThread(p) \/ SkipPort(p)

----------------------------------------------------------------------------
Next ==
  \/ \E t \in Threads : DeleteJob(t)
  \/ \E j \in Jobs : Application(j)
  \/ \E c \in Clients : Client(c)
  \/ \E p \in Ports : PortThread(p)
  \/ SchedulerThread

Spec == Init /\ [][Next]_vars

=============================================================================
