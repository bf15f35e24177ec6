------------------------------ MODULE JobStore ------------------------------
(***************************************************************************)
(* What the local print provider keeps of its jobs: the bitmap of job ids, *)
(* the queue in memory, and one spool file and one shadow file per job,    *)
(* named after the job's id (there is no file pool: the printer keeps its  *)
(* printed jobs, has a spool directory of its own, or pooling is off).  A  *)
(* crash leaves the files only, and the queue is rebuilt from them when    *)
(* the spooler starts again.  The printer prints a job when it is spooled  *)
(* to its end (PRINTER_ATTRIBUTE_QUEUED).                                  *)
(*                                                                         *)
(* Memory is guarded by one lock, SplSem, that is given up around every    *)
(* access to a file.  An action is either one stretch of a thread that     *)
(* holds SplSem or one access to a file without it.  Jobs are named by the *)
(* document they carry.                                                    *)
(*                                                                         *)
(* An operator X_Fault placed before an operator X is not part of Spec: it *)
(* is X with a plausible bug.                                              *)
(***************************************************************************)
EXTENDS Integers, FiniteSets

CONSTANTS
  Docs,             \* documents, each submitted once at most
  AddJobs,          \* those submitted by AddJob and ScheduleJob, not StartDocPrinter
  Emf,              \* those of a datatype that is rendered, not RAW
  Mapped,           \* those whose application asks for the spool file's handle
  Clients,          \* threads of applications and users, a printer handle each
  Port,             \* the port thread
  NoDoc,
  Keep,             \* PRINTER_ATTRIBUTE_KEEPPRINTEDJOBS
  Failures,         \* the calls that may fail
  MinIds,           \* ids the bitmap has room for at the start, 0 included
  MaxIds,           \* bound: ids it has room for at last
  MaxCrashes        \* bound: crashes of the spooler

Threads == Clients \cup {Port}
Ids == 0 .. MaxIds
AllFailures == {"SpoolThisJob", "CreateJobEntry", "AddJob", "ReallocJobIdMap", "DevQueryPrint"}

ASSUME ConstantsAssumption ==
  /\ IsFiniteSet(Docs) /\ NoDoc \notin Docs
  /\ IsFiniteSet(Clients) /\ Port \notin Clients
  /\ AddJobs \subseteq Docs /\ Emf \subseteq Docs /\ Mapped \subseteq Docs
  /\ Keep \in BOOLEAN /\ Failures \subseteq AllFailures
  /\ MinIds \in Nat \ {0, 1} /\ MaxIds \in Nat /\ MinIds <= MaxIds
  /\ MaxCrashes \in Nat

VARIABLES
  idMap,            \* the ids whose bit is on
  dwCurrentJobId, dwMaxJobId,
  job,              \* INIJOB of each document
  handle,           \* PSPOOL of each client
  thread,           \* where each thread is, on which document and id
  spool,            \* the document in the spool file of an id
  shadow,           \* the shadow file of an id
  crashes,          \* crashes so far (bounded by MaxCrashes)
  died,             \* history: crashes while this document was being printed
  asked             \* history: whether users have deleted, or restarted, this document

mapVars == <<idMap, dwCurrentJobId, dwMaxJobId>>
disk == <<spool, shadow>>
history == <<crashes, died, asked>>
vars == <<mapVars, job, handle, thread, disk, history>>

\* The bits of Status that matter here.  PRINTED stands for JOB_PRINTED and
\* JOB_COMPLETE, which keep the scheduler away alike.
Flags == {"SPOOLING", "SCHEDULE_JOB", "DESPOOLING", "PRINTING", "PRINTED", "RESTART",
          "BLOCKED_DEVQ", "PENDING_DELETION", "SHADOW_DELETED"}

NoJob == [state |-> "new", JobId |-> 0, Status |-> {}, cRef |-> 0, dwReboots |-> 0]
NoShadow == [file |-> "none", doc |-> NoDoc, Status |-> {}, dwReboots |-> 0]
Torn == [NoShadow EXCEPT !.file = "torn"]
Idle == [pc |-> "idle", doc |-> NoDoc, id |-> 0, then |-> "idle"]
NewHandle == [mapped |-> [i \in Ids |-> "none"], closing |-> FALSE,
              STARTDOC |-> FALSE, ADDJOB |-> FALSE, pIniJob |-> NoDoc]

Init ==
  /\ idMap = {} /\ dwCurrentJobId = 1 /\ dwMaxJobId = MinIds
  /\ job = [d \in Docs |-> NoJob]
  /\ handle = [c \in Clients |-> NewHandle]
  /\ thread = [t \in Threads |-> Idle]
  /\ spool = [i \in Ids |-> NoDoc] /\ shadow = [i \in Ids |-> NoShadow]
  /\ crashes = 0 /\ died = [d \in Docs |-> 0] /\ asked = [d \in Docs |-> {}]

----------------------------------------------------------------------------
(* The queue, the files and the threads.                                    *)

Queued == {d \in Docs : job[d].state = "queued"}
FindJob(id) == {d \in Queued : job[d].JobId = id}
Is(d, flag) == flag \in job[d].Status

At(t, pc) == thread[t].pc = pc
GoTo(t, pc) == thread' = [thread EXCEPT ![t].pc = pc]
\* A call is over: the thread goes on with its caller.
Resumed(t, pc) == IF pc \in {"idle", "close"} THEN [Idle EXCEPT !.pc = pc]
                  ELSE [thread[t] EXCEPT !.pc = pc, !.then = "idle"]
Resume(t, pc) == thread' = [thread EXCEPT ![t] = Resumed(t, pc)]
SetJob(d, j) == job' = [job EXCEPT ![d] = j]

\* WriteShadowJob holds the shadow file open; no one else can open or delete it.
ShadowInUse(id) ==
  \E t \in Threads : thread[t].pc \in {"write", "closeFile"} /\ thread[t].id = id

\* The spooler, or the print processor, has the spool file open.
SpoolInUse(id) ==
  \/ \E d \in FindJob(id) : (Is(d, "SPOOLING") /\ d \notin AddJobs) \/ Is(d, "PRINTING")
  \/ \E c \in Clients : At(c, "queue") /\ thread[c].id = id

\* DeleteFile on the spool file: an application that has its handle may have
\* it open too.
DeleteSpoolMayFail(id) ==
  spool[id] = NoDoc \/ SpoolInUse(id) \/ \E c \in Clients : handle[c].mapped[id] # "none"
DeleteSpoolMaySucceed(id) == spool[id] # NoDoc /\ ~ SpoolInUse(id)

----------------------------------------------------------------------------
(* The bitmap of ids.                                                       *)

FreeIds(from, to) == {i \in from .. to : i \notin idMap}
Lowest(i, S) == i \in S /\ \A k \in S : i <= k

\* The scan of GetNextId: above the current id, then below it, then the bitmap
\* grows (by one id here, not by 128); 0 when there is no memory for that.
NextId(id) ==
  LET above == FreeIds(dwCurrentJobId + 1, dwMaxJobId - 1)
      below == FreeIds(1, dwCurrentJobId - 1)
  IN \/ Lowest(id, above) /\ UNCHANGED dwMaxJobId
     \/ above = {} /\ Lowest(id, below) /\ UNCHANGED dwMaxJobId
     \/ /\ above \cup below = {} /\ dwMaxJobId < MaxIds
        /\ id = dwMaxJobId /\ dwMaxJobId' = dwMaxJobId + 1
     \/ /\ above \cup below = {} /\ "ReallocJobIdMap" \in Failures
        /\ id = 0 /\ UNCHANGED dwMaxJobId

GetNextId(id) ==
  /\ NextId(id)
  /\ idMap' = idMap \cup ({id} \ {0})
  /\ dwCurrentJobId' = IF id = 0 THEN dwCurrentJobId ELSE id

vMarkOff(id) == idMap' = idMap \ {id} /\ UNCHANGED <<dwCurrentJobId, dwMaxJobId>>

----------------------------------------------------------------------------
(* DeleteJob, called by thread t for document d whose INIJOB is j by now;   *)
(* the thread goes on at pc then.                                           *)

\* The shadow file of a job that is still referenced is forgotten.
DeleteUnlessPrinting_KeepsShadow(t, d, j, then) ==
  IF j.cRef > 0 \/ "SPOOLING" \in j.Status
    THEN SetJob(d, j) /\ Resume(t, then)
    ELSE /\ SetJob(d, [j EXCEPT !.state = "gone"])
         /\ thread' = [thread EXCEPT ![t] = [pc |-> "removeShadow", doc |-> d,
                                             id |-> j.JobId, then |-> then]]

\* With references left, only the shadow file goes; with none, the job goes,
\* and then its files.
DeleteUnlessPrinting(t, d, j, then) ==
  IF j.cRef > 0
    THEN /\ SetJob(d, [j EXCEPT !.Status = @ \cup {"SHADOW_DELETED"}, !.cRef = @ + 1])
         /\ thread' = [thread EXCEPT ![t] = [pc |-> "deleteShadow", doc |-> d,
                                             id |-> j.JobId, then |-> then]]
  ELSE IF "SPOOLING" \in j.Status
    THEN SetJob(d, j) /\ Resume(t, then)
  ELSE /\ SetJob(d, [j EXCEPT !.state = "gone"])
       /\ thread' = [thread EXCEPT ![t] =
            [pc |-> IF "SHADOW_DELETED" \in j.Status THEN "removeSpool" ELSE "removeShadow",
             doc |-> d, id |-> j.JobId, then |-> then]]

\* A job that is printing is first taken from its print processor.
DeleteJob(t, d, j, then) ==
  IF "RESTART" \in j.Status
    THEN SetJob(d, j) /\ Resume(t, then)
  ELSE IF "PRINTING" \in j.Status /\ "PENDING_DELETION" \notin j.Status
    THEN /\ SetJob(d, [j EXCEPT !.Status = @ \cup {"PENDING_DELETION"}, !.cRef = @ + 1])
         /\ thread' = [thread EXCEPT ![t] = [pc |-> "cancel", doc |-> d,
                                             id |-> j.JobId, then |-> then]]
  ELSE DeleteUnlessPrinting(t, d, [j EXCEPT !.Status = @ \cup {"PENDING_DELETION"}], then)

DeleteJobCheck(t, d, j, then) ==
  IF j.cRef = 0 /\ "PENDING_DELETION" \in j.Status
    THEN DeleteJob(t, d, j, then)
    ELSE SetJob(d, j) /\ Resume(t, then)

\* Control(JOB_CONTROL_CANCEL) has returned.
Cancelled(t) ==
  /\ At(t, "cancel")
  /\ LET d == thread[t].doc
     IN DeleteUnlessPrinting(t, d, [job[d] EXCEPT !.cRef = @ - 1], thread[t].then)
  /\ UNCHANGED <<mapVars, handle, disk, history>>

\* DeleteFile on the shadow file of a job that is still referenced.
DeleteShadow(t) ==
  /\ At(t, "deleteShadow")
  /\ LET id == thread[t].id
     IN IF shadow[id].file = "none" \/ ShadowInUse(id)
          THEN GoTo(t, "shadowKept") /\ UNCHANGED shadow
          ELSE GoTo(t, "shadowDeleted") /\ shadow' = [shadow EXCEPT ![id] = NoShadow]
  /\ UNCHANGED <<mapVars, job, handle, spool, history>>

ShadowDeleted(t) ==
  /\ At(t, "shadowDeleted") \/ At(t, "shadowKept")
  /\ LET d == thread[t].doc
     IN SetJob(d, [job[d] EXCEPT !.cRef = @ - 1,
                     !.Status = IF At(t, "shadowKept") THEN @ \ {"SHADOW_DELETED"} ELSE @])
  /\ Resume(t, thread[t].then)
  /\ UNCHANGED <<mapVars, handle, disk, history>>

\* The id is freed when the job is gone, before its files are.
RemoveShadow_FreesId(t) ==
  /\ At(t, "removeShadow")
  /\ vMarkOff(thread[t].id)
  /\ shadow' = [shadow EXCEPT ![thread[t].id] = NoShadow]
  /\ GoTo(t, "removeSpool")
  /\ UNCHANGED <<job, handle, spool, history>>

\* The job is gone: its shadow file goes before its spool file.
RemoveShadow(t) ==
  /\ At(t, "removeShadow")
  /\ shadow' = IF ShadowInUse(thread[t].id) THEN shadow
               ELSE [shadow EXCEPT ![thread[t].id] = NoShadow]
  /\ GoTo(t, "removeSpool")
  /\ UNCHANGED <<mapVars, job, handle, spool, history>>

\* A spool file that cannot be deleted is left, with its id, to ClosePrinter.
RemoveSpool(t) ==
  /\ At(t, "removeSpool")
  /\ LET id == thread[t].id
     IN \/ /\ DeleteSpoolMaySucceed(id)
           /\ spool' = [spool EXCEPT ![id] = NoDoc]
           /\ GoTo(t, "freeId")
        \/ /\ DeleteSpoolMayFail(id)
           /\ UNCHANGED spool
           /\ Resume(t, thread[t].then)
  /\ UNCHANGED <<mapVars, job, handle, shadow, history>>

\* The id is not freed.
FreeId_Forgotten(t) ==
  /\ At(t, "freeId")
  /\ Resume(t, thread[t].then)
  /\ UNCHANGED <<mapVars, job, handle, disk, history>>

\* The entries of handles that are not being closed go with the id, except
\* those of AddJob.
FreeId(t) ==
  /\ At(t, "freeId")
  /\ LET id == thread[t].id
     IN /\ vMarkOff(id)
        /\ handle' = [c \in Clients |->
             IF handle[c].closing \/ handle[c].mapped[id] # "plain" THEN handle[c]
             ELSE [handle[c] EXCEPT !.mapped[id] = "none"]]
  /\ Resume(t, thread[t].then)
  /\ UNCHANGED <<job, disk, history>>

----------------------------------------------------------------------------
(* WriteShadowJob(d, TRUE): SplSem is given up, the file is created, which  *)
(* empties it, then written, then closed.                                   *)

\* EndDocPrinter, its shadow file written: the reference of the document that
\* was being spooled goes.
EndDocPrinterRest(t, d, j) ==
  /\ IF "PENDING_DELETION" \in j.Status
       THEN DeleteJob(t, d, [j EXCEPT !.cRef = @ - 1], "idle")
       ELSE SetJob(d, [j EXCEPT !.cRef = @ - 1]) /\ Resume(t, "idle")
  /\ handle' = [handle EXCEPT ![t].STARTDOC = FALSE,
       ![t].pIniJob = IF "PENDING_DELETION" \in j.Status THEN NoDoc ELSE @]

\* RemoveIniPortFromIniJob: the port has done with the job.
RemoveIniPortFromIniJob(t, d, j) ==
  /\ DeleteJobCheck(t, d,
       [j EXCEPT !.cRef = @ - 1,
          !.Status = @ \ ({"DESPOOLING"} \cup IF "RESTART" \in @ THEN {"PRINTED", "BLOCKED_DEVQ"}
                                              ELSE {})], "idle")
  /\ UNCHANGED handle

\* What follows the shadow file.
ShadowWritten(t, d, j, then) ==
  CASE then = "endDoc" -> EndDocPrinterRest(t, d, j)
    [] then = "query"  -> SetJob(d, j) /\ UNCHANGED handle
                          /\ thread' = [thread EXCEPT ![t] = [Idle EXCEPT !.pc = "query", !.doc = d]]
    [] then = "kept"   -> RemoveIniPortFromIniJob(t, d, [j EXCEPT !.cRef = @ - 1])

WriteShadowJob(t, d, j, then) ==
  IF "SHADOW_DELETED" \in j.Status
    THEN ShadowWritten(t, d, j, then)
    ELSE /\ SetJob(d, j) /\ UNCHANGED handle
         /\ thread' = [thread EXCEPT ![t] = [pc |-> "createFile", doc |-> d,
                                             id |-> j.JobId, then |-> then]]

\* Someone else who writes the file keeps it from being opened.
CreateShadowFile(t) ==
  /\ At(t, "createFile")
  /\ LET id == thread[t].id
     IN IF ShadowInUse(id)
          THEN GoTo(t, "unwritten") /\ UNCHANGED shadow
          ELSE GoTo(t, "write") /\ shadow' = [shadow EXCEPT ![id] = Torn]
  /\ UNCHANGED <<mapVars, job, handle, spool, history>>

\* The file gets the status the job has when it is written.
Shadow(d, j) == [file |-> "good", doc |-> d, dwReboots |-> j.dwReboots,
                 Status |-> j.Status \cap {"SPOOLING", "PENDING_DELETION", "PRINTED"}]

WriteShadowFile(t) ==
  /\ At(t, "write")
  /\ shadow' = [shadow EXCEPT ![thread[t].id] = Shadow(thread[t].doc, job[thread[t].doc])]
  /\ GoTo(t, "closeFile")
  /\ UNCHANGED <<mapVars, job, handle, spool, history>>

CloseShadowFile(t) ==
  /\ At(t, "closeFile")
  /\ GoTo(t, "written")
  /\ UNCHANGED <<mapVars, job, handle, disk, history>>

\* With SplSem again: the shadow file is there now, whoever deleted it before.
Reenter(t) ==
  /\ thread[t].pc \in {"written", "unwritten"}
  /\ LET d == thread[t].doc
     IN ShadowWritten(t, d,
          [job[d] EXCEPT !.Status = IF At(t, "written") THEN @ \ {"SHADOW_DELETED"} ELSE @],
          thread[t].then)
  /\ UNCHANGED <<mapVars, disk, history>>

----------------------------------------------------------------------------
(* StartDocPrinter and EndDocPrinter of client c.                           *)

StartDocPrinter(c, d) ==
  /\ At(c, "idle") /\ d \notin AddJobs /\ job[d].state = "new"
  /\ ~ handle[c].STARTDOC /\ ~ handle[c].ADDJOB
  /\ \E id \in Ids :
       /\ GetNextId(id)
       /\ thread' = [thread EXCEPT ![c] = [pc |-> "create", doc |-> d, id |-> id, then |-> "idle"]]
  /\ SetJob(d, [job[d] EXCEPT !.state = "submitted"])
  /\ UNCHANGED <<handle, disk, history>>

\* SpoolThisJob without SplSem: the spool file is created, or emptied if there
\* is one.  When the call fails from here on, it keeps the id.
CreateSpoolFile(c) ==
  /\ At(c, "create")
  /\ \/ /\ spool' = [spool EXCEPT ![thread[c].id] = thread[c].doc]
        /\ GoTo(c, "queue") /\ UNCHANGED job
     \/ /\ "SpoolThisJob" \in Failures
        /\ SetJob(thread[c].doc, [job[thread[c].doc] EXCEPT !.state = "gone"])
        /\ spool' \in {spool, [spool EXCEPT ![thread[c].id] = thread[c].doc]}
        /\ Resume(c, "idle")
  /\ UNCHANGED <<mapVars, handle, shadow, history>>

NewJob(d, id, Status) ==
  [state |-> "queued", JobId |-> id, Status |-> Status, cRef |-> 1, dwReboots |-> 0]

SpoolThisJob(c) ==
  /\ At(c, "queue")
  /\ LET d == thread[c].doc
     IN \/ /\ SetJob(d, NewJob(d, thread[c].id, {"SPOOLING"}))
           /\ handle' = [handle EXCEPT ![c].STARTDOC = TRUE, ![c].pIniJob = d]
           /\ Resume(c, "idle")
        \/ /\ "CreateJobEntry" \in Failures
           /\ SetJob(d, [job[d] EXCEPT !.state = "gone"])
           /\ GoTo(c, "deleteFile") /\ UNCHANGED handle
  /\ UNCHANGED <<mapVars, disk, history>>

\* CreateJobEntry has failed: the spool file goes, its id does not.
SpoolThisJobFails(c) ==
  /\ At(c, "deleteFile")
  /\ spool' = [spool EXCEPT ![thread[c].id] = NoDoc]
  /\ Resume(c, "idle")
  /\ UNCHANGED <<mapVars, job, handle, shadow, history>>

\* The application gets the handle of the spool file it is writing.
GetSpoolFileHandle(c) ==
  /\ At(c, "idle") /\ handle[c].STARTDOC /\ ~ handle[c].ADDJOB
  /\ handle[c].pIniJob \in Mapped
  /\ LET id == job[handle[c].pIniJob].JobId
     IN /\ handle[c].mapped[id] = "none"
        /\ handle' = [handle EXCEPT ![c].mapped[id] = "plain"]
  /\ UNCHANGED <<mapVars, job, thread, disk, history>>

\* No shadow file is written.
EndDocPrinter_NoShadow(c) ==
  /\ At(c, "idle") /\ handle[c].STARTDOC /\ ~ handle[c].ADDJOB
  /\ LET d == handle[c].pIniJob
     IN EndDocPrinterRest(c, d, [job[d] EXCEPT !.Status = @ \ {"SPOOLING"}])
  /\ UNCHANGED <<mapVars, disk, history>>

EndDocPrinter(c) ==
  /\ At(c, "idle") /\ handle[c].STARTDOC /\ ~ handle[c].ADDJOB
  /\ LET d == handle[c].pIniJob
     IN WriteShadowJob(c, d, [job[d] EXCEPT !.Status = @ \ {"SPOOLING"}], "endDoc")
  /\ UNCHANGED <<mapVars, disk, history>>

----------------------------------------------------------------------------
(* AddJob and ScheduleJob of client c, and ClosePrinter.                    *)

\* LocalAddJob asks for an id and gives up SplSem before it makes the job.  A
\* buffer too small for the name of the file costs no id, but the next one is
\* another (bound: such calls do not get to the end of the bitmap).
AddJob(c, d) ==
  /\ At(c, "idle") /\ d \in AddJobs /\ job[d].state = "new"
  /\ \E id \in Ids :
       \/ /\ GetNextId(id)
          /\ thread' = [thread EXCEPT ![c] = [pc |-> "addJob", doc |-> d, id |-> id, then |-> "idle"]]
          /\ SetJob(d, [job[d] EXCEPT !.state = "submitted"])
       \/ /\ "AddJob" \in Failures
          /\ NextId(id) /\ id \in dwCurrentJobId + 1 .. dwMaxJobId - 2
          /\ dwCurrentJobId' = id
          /\ UNCHANGED <<idMap, thread, job>>
  /\ UNCHANGED <<handle, disk, history>>

LocalAddJob(c) ==
  /\ At(c, "addJob")
  /\ LET d == thread[c].doc
         id == thread[c].id
     IN \/ /\ SetJob(d, NewJob(d, id, {"SPOOLING"}))
           /\ handle' = [handle EXCEPT ![c].mapped[id] = "addJob",
                                       ![c].ADDJOB = TRUE, ![c].pIniJob = d]
           /\ UNCHANGED mapVars
        \/ /\ "CreateJobEntry" \in Failures
           /\ SetJob(d, [job[d] EXCEPT !.state = "gone"])
           /\ vMarkOff(id) /\ UNCHANGED handle
  /\ Resume(c, "idle")
  /\ UNCHANGED <<disk, history>>

\* The application writes the file AddJob named.
WriteSpoolFile(c, d) ==
  /\ At(c, "idle") /\ d \in Queued \cap AddJobs /\ ~ Is(d, "SCHEDULE_JOB")
  /\ handle[c].mapped[job[d].JobId] = "addJob"
  /\ spool' = [spool EXCEPT ![job[d].JobId] = d]
  /\ UNCHANGED <<mapVars, job, handle, thread, shadow, history>>

MaySchedule(c, d) ==
  /\ ~ handle[c].STARTDOC /\ d \in AddJobs /\ ~ Is(d, "SCHEDULE_JOB")
  /\ handle[c].mapped[job[d].JobId] # "none"

\* A missing file goes unnoticed.
LocalScheduleJob_AnyFile(c, d, then) ==
  LET id == job[d].JobId
      j == [job[d] EXCEPT !.cRef = @ - 1, !.Status = (@ \ {"SPOOLING"}) \cup {"SCHEDULE_JOB"}]
  IN /\ handle' = [handle EXCEPT ![c].mapped[id] = "plain", ![c].ADDJOB = FALSE,
                                 ![c].pIniJob = NoDoc]
     /\ shadow' = [shadow EXCEPT ![id] = Shadow(d, j)]
     /\ IF "PENDING_DELETION" \in j.Status
          THEN DeleteJob(c, d, j, then)
          ELSE SetJob(d, j) /\ Resume(c, then)
     /\ UNCHANGED <<mapVars, spool, history>>

\* A job whose file is missing, or that was deleted meanwhile, is deleted.
\* WriteShadowJob(d, FALSE) keeps SplSem.
LocalScheduleJob(c, d, then) ==
  LET id == job[d].JobId
      j == [job[d] EXCEPT !.cRef = @ - 1, !.Status = (@ \ {"SPOOLING"}) \cup {"SCHEDULE_JOB"}]
      file == spool[id] # NoDoc
  IN /\ handle' = [handle EXCEPT ![c].mapped[id] = "plain", ![c].ADDJOB = FALSE,
                                 ![c].pIniJob = NoDoc]
     /\ shadow' = IF file /\ "SHADOW_DELETED" \notin j.Status
                    THEN [shadow EXCEPT ![id] = Shadow(d, j)] ELSE shadow
     /\ IF file /\ "PENDING_DELETION" \notin j.Status
          THEN SetJob(d, j) /\ Resume(c, then)
          ELSE DeleteJob(c, d, j, then)
     /\ UNCHANGED <<mapVars, spool, history>>

ScheduleJob(c, d) ==
  /\ At(c, "idle") /\ d \in Queued /\ MaySchedule(c, d)
  /\ LocalScheduleJob(c, d, "idle")

\* A document that was begun is ended first: an EndDocPrinter of its own.
ClosePrinter(c) ==
  /\ At(c, "idle") /\ handle[c] # NewHandle
  /\ ~ handle[c].STARTDOC \/ handle[c].ADDJOB
  /\ handle' = [handle EXCEPT ![c].closing = TRUE]
  /\ Resume(c, "close")
  /\ UNCHANGED <<mapVars, job, disk, history>>

MappedIds(c) == {i \in Ids : handle[c].mapped[i] # "none"}

\* Only the job that AddJob made last is scheduled.
CloseNext_LastOnly(c) ==
  /\ At(c, "close")
  /\ \E id \in MappedIds(c) :
       thread' = [thread EXCEPT ![c].id = id,
                    ![c].pc = IF handle[c].pIniJob \in FindJob(id) THEN "schedule" ELSE "pop"]
  /\ UNCHANGED <<mapVars, job, handle, disk, history>>

\* Every entry is scheduled, if AddJob made it, and then taken off the list.
CloseNext(c) ==
  /\ At(c, "close")
  /\ \E id \in MappedIds(c) :
       thread' = [thread EXCEPT ![c].id = id,
                    ![c].pc = IF handle[c].mapped[id] = "addJob" THEN "schedule" ELSE "pop"]
  /\ UNCHANGED <<mapVars, job, handle, disk, history>>

CloseSchedules(c) ==
  /\ At(c, "schedule")
  /\ LET jobs == {d \in FindJob(thread[c].id) : MaySchedule(c, d)}
     IN IF jobs = {} THEN /\ GoTo(c, "pop")
                          /\ UNCHANGED <<mapVars, job, handle, disk, history>>
        ELSE \E d \in jobs : LocalScheduleJob(c, d, "pop")

ClosePops(c) ==
  /\ At(c, "pop")
  /\ LET id == thread[c].id
     IN /\ handle' = [handle EXCEPT ![c].mapped[id] = "none"]
        /\ IF FindJob(id) = {} THEN GoTo(c, "forget") ELSE Resume(c, "close")
  /\ UNCHANGED <<mapVars, job, disk, history>>

\* The job is gone: its file is deleted without SplSem, then its id is freed.
CloseDeletesFile(c) ==
  /\ At(c, "forget")
  /\ LET id == thread[c].id
     IN \/ DeleteSpoolMaySucceed(id) /\ spool' = [spool EXCEPT ![id] = NoDoc]
        \/ DeleteSpoolMayFail(id) /\ UNCHANGED spool
  /\ GoTo(c, "forgotten")
  /\ UNCHANGED <<mapVars, job, handle, shadow, history>>

CloseFreesId(c) ==
  /\ At(c, "forgotten")
  /\ vMarkOff(thread[c].id)
  /\ Resume(c, "close")
  /\ UNCHANGED <<job, handle, disk, history>>

Closed(c) ==
  /\ At(c, "close") /\ MappedIds(c) = {}
  /\ handle' = [handle EXCEPT ![c] = NewHandle]
  /\ Resume(c, "idle")
  /\ UNCHANGED <<mapVars, job, disk, history>>

----------------------------------------------------------------------------
(* What users do to a job of the queue, and the port thread.                *)

\* SetJob(JOB_CONTROL_DELETE) takes a restart back.
DeleteByUser(c, d) ==
  /\ At(c, "idle") /\ d \in Queued
  /\ DeleteJob(c, d, [job[d] EXCEPT !.Status = @ \ {"RESTART"}], "idle")
  /\ asked' = [asked EXCEPT ![d] = @ \cup {"DELETE"}]
  /\ UNCHANGED <<mapVars, handle, disk, crashes, died>>

\* SetJob(JOB_CONTROL_RESTART) on a job that is printing or was printed.  It is
\* of interest later only where attempts are counted.
RestartJob(c, d) ==
  /\ At(c, "idle") /\ d \in Queued
  /\ ~ Is(d, "PENDING_DELETION") /\ (Is(d, "PRINTING") \/ Is(d, "PRINTED"))
  /\ SetJob(d, [job[d] EXCEPT !.Status = (@ \cup {"RESTART"}) \
       IF "DESPOOLING" \in @ THEN {} ELSE {"PRINTED", "BLOCKED_DEVQ"}])
  /\ asked' = IF d \in Emf THEN [asked EXCEPT ![d] = @ \cup {"RESTART"}] ELSE asked
  /\ UNCHANGED <<mapVars, handle, thread, disk, crashes, died>>

\* The form or the device changes: what DevQueryPrint refused is tried again.
UnblockJobs(c) ==
  /\ At(c, "idle") /\ \E d \in Queued : Is(d, "BLOCKED_DEVQ")
  /\ job' = [d \in Docs |-> [job[d] EXCEPT !.Status = @ \ {"BLOCKED_DEVQ"}]]
  /\ UNCHANGED <<mapVars, handle, thread, disk, history>>

\* The port takes no reference.
AssignJob_Unreferenced(d) ==
  /\ At(Port, "idle") /\ d \in Queued
  /\ job[d].Status \cap (Flags \ {"SCHEDULE_JOB", "RESTART", "SHADOW_DELETED"}) = {}
  /\ SetJob(d, [job[d] EXCEPT !.Status = @ \cup {"DESPOOLING"}])
  /\ thread' = [thread EXCEPT ![Port] = [Idle EXCEPT !.pc = "assigned", !.doc = d]]
  /\ UNCHANGED <<mapVars, handle, disk, history>>

\* The scheduler gives the port a job that is spooled.
AssignJob(d) ==
  /\ At(Port, "idle") /\ d \in Queued
  /\ job[d].Status \cap (Flags \ {"SCHEDULE_JOB", "RESTART", "SHADOW_DELETED"}) = {}
  /\ SetJob(d, [job[d] EXCEPT !.Status = @ \cup {"DESPOOLING"}, !.cRef = @ + 1])
  /\ thread' = [thread EXCEPT ![Port] = [Idle EXCEPT !.pc = "assigned", !.doc = d]]
  /\ UNCHANGED <<mapVars, handle, disk, history>>

\* dwReboots counts the attempts at a document that is rendered.
Attempt(d, j) ==
  IF d \in Emf
    THEN [j EXCEPT !.Status = @ \ {"RESTART"},
            !.dwReboots = IF "RESTART" \in j.Status /\ @ > 0 THEN @ ELSE @ + 1]
    ELSE [j EXCEPT !.Status = @ \ {"RESTART"}]

PortBegins ==
  /\ At(Port, "assigned")
  /\ LET d == thread[Port].doc
     IN IF d \in Emf THEN WriteShadowJob(Port, d, Attempt(d, job[d]), "query")
        ELSE ShadowWritten(Port, d, Attempt(d, job[d]), "query")
  /\ UNCHANGED <<mapVars, disk, history>>

\* DevQueryPrint refuses the job, or the print processor gets it; one that is
\* deleted by now may not be opened.
PortQueries ==
  /\ At(Port, "query")
  /\ LET d == thread[Port].doc
     IN \/ "DevQueryPrint" \in Failures /\ GoTo(Port, "refused") /\ UNCHANGED job
        \/ Is(d, "PENDING_DELETION") /\ GoTo(Port, "end") /\ UNCHANGED job
        \/ /\ SetJob(d, [job[d] EXCEPT !.Status = @ \cup {"PRINTING"}])
           /\ GoTo(Port, "printing")
  /\ UNCHANGED <<mapVars, handle, disk, history>>

\* JOB_CONTROL_SENT_TO_PRINTER, unless the print processor stopped before.
PortSends ==
  /\ At(Port, "printing")
  /\ LET d == thread[Port].doc
         j == [job[d] EXCEPT !.Status = @ \cup {"PRINTED"}]
     IN \/ ~ Keep /\ DeleteJob(Port, d, j, "sent")
        \/ Keep /\ SetJob(d, j) /\ GoTo(Port, "sent")
        \/ job[d].Status \cap {"PENDING_DELETION", "RESTART"} # {}
           /\ GoTo(Port, "sent") /\ UNCHANGED job
  /\ UNCHANGED <<mapVars, handle, disk, history>>

PortStops ==
  /\ At(Port, "sent")
  /\ LET d == thread[Port].doc
     IN SetJob(d, [job[d] EXCEPT !.Status = @ \ {"PRINTING"}])
  /\ GoTo(Port, "end")
  /\ UNCHANGED <<mapVars, handle, disk, history>>

\* A kept job is complete, whatever came of it, and one attempt less.
Kept(d, j) ==
  [j EXCEPT !.Status = (@ \ {"PENDING_DELETION"}) \cup {"PRINTED"}, !.cRef = @ + 1,
            !.dwReboots = IF d \in Emf THEN @ - 1 ELSE @]

PortEnds ==
  /\ At(Port, "end") \/ At(Port, "refused")
  /\ LET d == thread[Port].doc
         j == [job[d] EXCEPT !.Status = @ \cup IF At(Port, "refused") THEN {"BLOCKED_DEVQ"}
                                                ELSE IF "RESTART" \in @ THEN {} ELSE {"PRINTED"}]
     IN IF Keep THEN WriteShadowJob(Port, d, Kept(d, j), "kept")
        ELSE RemoveIniPortFromIniJob(Port, d, j)
  /\ UNCHANGED <<mapVars, disk, history>>

----------------------------------------------------------------------------
(* The spooler goes down, and starts again.                                 *)

\* One attempt more is accepted, or one less.
Readable_OneMore(id) ==
  /\ spool[id] # NoDoc /\ shadow[id].file = "good"
  /\ shadow[id].Status \cap {"SPOOLING", "PENDING_DELETION"} = {}
  /\ shadow[id].dwReboots <= 2
Readable_OneLess(id) ==
  /\ spool[id] # NoDoc /\ shadow[id].file = "good"
  /\ shadow[id].Status \cap {"SPOOLING", "PENDING_DELETION"} = {}
  /\ shadow[id].dwReboots < 1

\* ReadShadowJob accepts the files of an id.
Readable(id) ==
  /\ spool[id] # NoDoc /\ shadow[id].file = "good"
  /\ shadow[id].Status \cap {"SPOOLING", "PENDING_DELETION"} = {}
  /\ shadow[id].dwReboots <= 1

\* ReadShadowJob, for the document of a shadow file.
ReadShadowJob(id) ==
  [state |-> "queued", JobId |-> id, Status |-> shadow[id].Status \cap {"PRINTED"}, cRef |-> 0,
   dwReboots |-> shadow[id].dwReboots]

\* The ids of the jobs that are read are not marked.
Restart_Unmarked ==
  LET read == {i \in Ids : Readable(i)}
      id(d) == CHOOSE i \in read : shadow[i].doc = d
  IN /\ job' = [d \in Docs |->
          IF \E i \in read : shadow[i].doc = d THEN ReadShadowJob(id(d))
          ELSE IF job[d].state = "new" THEN NoJob ELSE [NoJob EXCEPT !.state = "gone"]]
     /\ idMap' = {} /\ dwCurrentJobId' = 1 /\ dwMaxJobId' = MinIds
     /\ spool' = [i \in Ids |-> IF i \in read THEN spool[i] ELSE NoDoc]
     /\ shadow' = [i \in Ids |-> IF i \in read \/ spool[i] = NoDoc THEN shadow[i] ELSE NoShadow]
     /\ handle' = [c \in Clients |-> NewHandle]
     /\ thread' = [t \in Threads |-> Idle]

\* Of a job that is not read, the spool file goes and the shadow file stays.
Restart_LeavesShadow ==
  LET read == {i \in Ids : Readable(i)}
      id(d) == CHOOSE i \in read : shadow[i].doc = d
  IN /\ job' = [d \in Docs |->
          IF \E i \in read : shadow[i].doc = d THEN ReadShadowJob(id(d))
          ELSE IF job[d].state = "new" THEN NoJob ELSE [NoJob EXCEPT !.state = "gone"]]
     /\ idMap' = read /\ dwCurrentJobId' = 1 /\ dwMaxJobId' = MinIds
     /\ spool' = [i \in Ids |-> IF i \in read THEN spool[i] ELSE NoDoc]
     /\ UNCHANGED shadow
     /\ handle' = [c \in Clients |-> NewHandle]
     /\ thread' = [t \in Threads |-> Idle]

\* ProcessShadowJobs goes by the spool files: what it cannot read it deletes,
\* and a shadow file without a spool file it does not see.
Restart ==
  LET read == {i \in Ids : Readable(i)}
      id(d) == CHOOSE i \in read : shadow[i].doc = d
  IN /\ job' = [d \in Docs |->
          IF \E i \in read : shadow[i].doc = d THEN ReadShadowJob(id(d))
          ELSE IF job[d].state = "new" THEN NoJob ELSE [NoJob EXCEPT !.state = "gone"]]
     /\ idMap' = read /\ dwCurrentJobId' = 1
     /\ dwMaxJobId' \in {i + 1 : i \in read} \cup {MinIds}
     /\ MinIds <= dwMaxJobId' /\ \A i \in read : i < dwMaxJobId'
     /\ spool' = [i \in Ids |-> IF i \in read THEN spool[i] ELSE NoDoc]
     /\ shadow' = [i \in Ids |-> IF i \in read \/ spool[i] = NoDoc THEN shadow[i] ELSE NoShadow]
     /\ handle' = [c \in Clients |-> NewHandle]
     /\ thread' = [t \in Threads |-> Idle]

Crash ==
  /\ crashes < MaxCrashes /\ crashes' = crashes + 1
  /\ died' = [d \in Docs |-> IF thread[Port].doc = d /\ thread[Port].pc = "printing"
                               THEN died[d] + 1 ELSE died[d]]
  /\ UNCHANGED asked
  /\ Restart

----------------------------------------------------------------------------
FileStep(t) ==
  \/ Cancelled(t) \/ DeleteShadow(t) \/ ShadowDeleted(t)
  \/ RemoveShadow(t) \/ RemoveSpool(t) \/ FreeId(t)
  \/ CreateShadowFile(t) \/ WriteShadowFile(t) \/ CloseShadowFile(t) \/ Reenter(t)

ClientStep(c) ==
  \/ CreateSpoolFile(c) \/ SpoolThisJob(c) \/ SpoolThisJobFails(c)
  \/ GetSpoolFileHandle(c) \/ EndDocPrinter(c) \/ LocalAddJob(c)
  \/ ClosePrinter(c) \/ CloseNext(c) \/ CloseSchedules(c) \/ ClosePops(c)
  \/ CloseDeletesFile(c) \/ CloseFreesId(c) \/ Closed(c)
  \/ UnblockJobs(c)
  \/ \E d \in Docs : \/ StartDocPrinter(c, d) \/ AddJob(c, d) \/ WriteSpoolFile(c, d)
                     \/ ScheduleJob(c, d) \/ DeleteByUser(c, d) \/ RestartJob(c, d)

PortStep ==
  \/ \E d \in Docs : AssignJob(d)
  \/ PortBegins \/ PortQueries \/ PortSends \/ PortStops \/ PortEnds

Next ==
  \/ \E t \in Threads : FileStep(t)
  \/ \E c \in Clients : ClientStep(c)
  \/ PortStep
  \/ Crash

Spec == Init /\ [][Next]_vars

=============================================================================
