------------------------- MODULE JobStoreProperties -------------------------
(***************************************************************************)
(* What the job ids and the files of the spool directory must do, while    *)
(* the spooler runs and across its crashes.                                *)
(***************************************************************************)
EXTENDS JobStore

Pcs == {"idle", "create", "queue", "deleteFile", "addJob", "close", "schedule", "pop",
        "forget", "forgotten", "cancel", "deleteShadow", "shadowDeleted", "shadowKept",
        "removeShadow", "removeSpool", "freeId", "createFile", "write", "closeFile",
        "written", "unwritten", "assigned", "query", "refused", "printing", "sent", "end"}

JobRecords ==
  [state : {"new", "submitted", "queued", "gone"}, JobId : Ids, Status : SUBSET Flags,
   cRef : Int, dwReboots : Int]

HandleRecords ==
  [mapped : [Ids -> {"none", "plain", "addJob"}], closing : BOOLEAN,
   STARTDOC : BOOLEAN, ADDJOB : BOOLEAN, pIniJob : Docs \cup {NoDoc}]

ThreadRecords ==
  [pc : Pcs, doc : Docs \cup {NoDoc}, id : Ids,
   then : {"idle", "close", "pop", "sent", "endDoc", "query", "kept"}]

ShadowRecords ==
  [file : {"none", "torn", "good"}, doc : Docs \cup {NoDoc}, Status : SUBSET Flags,
   dwReboots : Int]

Types ==
  /\ idMap \subseteq Ids /\ dwCurrentJobId \in Ids /\ dwMaxJobId \in 1 .. MaxIds + 1
  /\ job \in [Docs -> JobRecords]
  /\ handle \in [Clients -> HandleRecords]
  /\ thread \in [Threads -> ThreadRecords]
  /\ spool \in [Ids -> Docs \cup {NoDoc}]
  /\ shadow \in [Ids -> ShadowRecords]
  /\ crashes \in Nat /\ died \in [Docs -> Nat]
  /\ asked \in [Docs -> SUBSET {"DELETE", "RESTART"}]

\* Type invariant of the job store; the two DWORDs that are counted down never
\* go below zero.
TypeOK == Types /\ \A d \in Docs : job[d].cRef >= 0 /\ job[d].dwReboots >= 0

----------------------------------------------------------------------------
(* Ids.                                                                     *)

\* Who uses an id: the job of that id, a thread that is making one, a thread
\* that is deleting the files of one.
HoldsId(t, id) ==
  /\ thread[t].pc \in {"create", "queue", "addJob", "removeShadow", "removeSpool", "freeId"}
  /\ thread[t].id = id
Holders(id) == FindJob(id) \cup {t \in Threads : HoldsId(t, id)}

\* A job id names one job at a time: GetNextId gives no id that a job, or a
\* thread in the middle of StartDocPrinter, AddJob or DeleteJob, still uses, and
\* an id has its bit on as long as it is used, although SplSem is given up
\* between the bitmap, the queue and the files.
JobIdsUnique == \A id \in Ids : /\ \A x, y \in Holders(id) : x = y
                                /\ Holders(id) # {} => id \in idMap

\* ClosePrinter will free the id.
LeftToClose(id) ==
  \E c \in Clients : \/ handle[c].mapped[id] # "none"
                     \/ thread[c].pc \in {"forget", "forgotten"} /\ thread[c].id = id

\* DeleteJob and ClosePrinter lose no id: one whose bit is on belongs to a job,
\* to a thread that is making or deleting one, or to a handle whose ClosePrinter
\* will free it (job.c leaves an id whose file it cannot delete to that).
NoIdLeak == \A id \in idMap : Holders(id) # {} \/ LeftToClose(id)

\* The jobs of AddJob are run down with their handle: one that is not scheduled
\* yet is on the list of a handle whose ClosePrinter will schedule it, however
\* many the handle has, and whoever deletes the job meanwhile.  Where two jobs of
\* the queue have one id (IdReuse.cfg), to schedule one takes both off the list.
AddJobsRunDown ==
  \A d \in Queued \cap AddJobs :
    Is(d, "SPOOLING") =>
       \E c \in Clients : handle[c].mapped[job[d].JobId] = "addJob"

\* Not so: what pIniJob of a handle points to is a job of the queue.  EndDocPrinter
\* leaves the pointer when it gives its reference up, and the next EndDocPrinter of
\* the handle takes a reference to it before it asks for STARTDOC.
HandlesKeepJobs == \A c \in Clients : handle[c].pIniJob \in Queued \cup {NoDoc}

----------------------------------------------------------------------------
(* Files.                                                                   *)

\* The document is in the queue to be printed, and complete.
Spooled(d) ==
  d \in Queued /\ ~ Is(d, "PENDING_DELETION") /\ (d \in AddJobs => ~ Is(d, "SPOOLING"))

\* The spool file of a job that waits to be printed, or is printed, holds that
\* job's document: no other job has emptied, overwritten or deleted it, whatever
\* happened to their ids, handles and files before, or in an earlier session.
SpoolFileIntact == \A d \in Docs : Spooled(d) => spool[job[d].JobId] = d

\* No thread is in a call, and every handle is closed.
Quiet == (\A t \in Threads : At(t, "idle")) /\ (\A c \in Clients : handle[c] = NewHandle)

\* No file is left behind: once all calls are over and all handles closed, a file
\* of the spool directory belongs to a job of the queue (DeleteJob removes both
\* files, ProcessShadowJobs those that a crash has left).
NoFileLeak ==
  Quiet => \A id \in Ids :
             spool[id] # NoDoc \/ shadow[id].file # "none" => FindJob(id) # {}

----------------------------------------------------------------------------
(* Crashes.                                                                 *)

\* A thread is in WriteShadowJob for d, or in the part of DeleteJob that deletes
\* the shadow file of a job that is still in use.
Writing(d) ==
  \E t \in Threads : thread[t].doc = d
    /\ thread[t].pc \in {"createFile", "write", "closeFile", "written", "unwritten"}
Deleting(d) ==
  \E t \in Threads : thread[t].doc = d
    /\ thread[t].pc \in {"cancel", "deleteShadow", "shadowDeleted", "shadowKept"}

\* EndDocPrinter or ScheduleJob has returned, no one has asked for the job to go,
\* and it has not been tried twice already.
Acknowledged(d) ==
  /\ d \in Queued /\ ~ Is(d, "SPOOLING") /\ ~ Is(d, "PENDING_DELETION")
  /\ "DELETE" \notin asked[d] /\ ~ Writing(d) /\ job[d].dwReboots <= 1

\* A crash loses no document whose EndDocPrinter or ScheduleJob has returned: the
\* job is in the queue when the spooler is up again, unless its shadow file was
\* being rewritten at that moment.
AcknowledgedSurvives ==
  [][crashes' # crashes => \A d \in Docs : Acknowledged(d) => d \in Queued']_vars

\* Not so: a crash loses no document that waits because DevQueryPrint refused it
\* (it was never printed, but an attempt was counted each time it was refused).
BlockedSurvives ==
  [][crashes' # crashes =>
       \A d \in Docs : d \in Queued /\ Is(d, "BLOCKED_DEVQ") /\ ~ Is(d, "DESPOOLING")
                        /\ asked[d] = {} /\ ~ Writing(d) => d \in Queued']_vars

\* A deletion is final: a job whose deletion has returned does not come back when
\* the spooler starts again, whether it was still in use when the spooler died or
\* had left the queue long before (init.c accepts a shadow file as it finds it).
DeletedStaysDeleted ==
  [][\A d \in Docs :
       \/ job[d].state = "gone" /\ (\A t \in Threads : thread[t].doc # d)
       \/ /\ crashes' # crashes /\ d \in Queued
          /\ Is(d, "PENDING_DELETION") /\ ~ Is(d, "SPOOLING") /\ ~ Writing(d) /\ ~ Deleting(d)
       => d \notin Queued']_vars

\* A document that takes the spooler down is not printed for ever: ReadShadowJob
\* discards a rendered document that was being printed in three sessions that
\* crashed, if no user has deleted or restarted it.
PoisonDiscarded == \A d \in Emf : asked[d] = {} => died[d] <= 3

\* Not so: two such sessions are the last (ReadShadowJob accepts no more than one
\* attempt in the shadow file).
PoisonDiscardedAtOnce == \A d \in Emf : asked[d] = {} => died[d] <= 2

=============================================================================
