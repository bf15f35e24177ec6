------------------------------ MODULE FilePool ------------------------------
(***************************************************************************)
(* The pool of spool files.  A job takes an item of the pool, a spool file *)
(* and a shadow file of one name, and gives it back when it is deleted;    *)
(* the item is then emptied and kept, its files open, for the next job, or *)
(* deleted.  The scheduler deletes what has been free for too long.  The   *)
(* files of a crash are taken into the pool when the spooler starts again. *)
(*                                                                         *)
(* SplSem guards the jobs, but no call on the pool is made under it that   *)
(* may touch a file: an action is one stretch of a thread that holds       *)
(* SplSem, or one access to the pool or to a file without it.  Of a job    *)
(* there is what decides who uses its item: the application that spools    *)
(* it, the port thread that prints it, and the users who delete it.        *)
(*                                                                         *)
(* An operator X_Fault placed before an operator X is not part of Spec: it *)
(* is X with a plausible bug.                                              *)
(***************************************************************************)
EXTENDS Integers, Sequences, FiniteSets

CONSTANTS
  Docs,             \* documents, each spooled once
  Pages,            \* pages of each document
  Rendered,         \* documents that are rendered, not RAW
  Rapid,            \* documents that may be printed while they are spooled
  Large,            \* documents larger than FP_LARGE_SIZE
  Mapped,           \* documents whose application may ask for the spool file's handle
  PrinterBad,       \* the printer may be in error, or offline
  Ports,            \* number of port threads
  MaxFiles,         \* MaxFiles of CreateFilePool
  Items,            \* bound: numbers in the names of the files, from 0
  Failures,         \* the calls that may fail
  MaxCrashes,       \* bound: crashes of the spooler
  NoDoc

ASSUME ConstantsAssumption ==
  /\ IsFiniteSet(Docs) /\ NoDoc \notin Docs
  /\ Rendered \subseteq Docs /\ Rapid \subseteq Docs
  /\ Large \subseteq Docs /\ Mapped \subseteq Docs
  /\ PrinterBad \in BOOLEAN
  /\ Pages \in Nat \ {0} /\ Ports \in Nat \ {0} /\ MaxFiles \in Nat /\ MaxCrashes \in Nat
  /\ Items \subseteq Nat
  /\ Failures \subseteq {"CreateSplWriter", "CreateJobEntry"}

VARIABLES
  app,              \* where the application of each document is
  port,             \* where the port thread that prints a document is
  job,              \* INIJOB of each document
  cancelling,       \* documents a user has deleted, whose print processor is told so
  hReadFile,        \* the handle the port thread reads from
  read,             \* the pages it has read
  item,             \* the items of the pool, by number
  FreeFiles,        \* the list of free items, FileInUse being the rest
  old,              \* the free items whose time is over
  CurrentNum,
  scheduler,        \* where the scheduler is
  SchedulerSignal,
  SchedulerTimeout, \* whether it waits for a time
  spl, shd,         \* the files on the disk, by number
  toDelete,         \* shadow files still to be deleted, by number and caller
  crashes           \* crashes so far (bounded by MaxCrashes)

pool == <<FreeFiles, old, CurrentNum>>
sched == <<scheduler, SchedulerSignal, SchedulerTimeout>>
reader == <<hReadFile, read>>
disk == <<spl, shd, toDelete>>
vars == <<app, port, job, cancelling, reader, item, pool, sched, disk, crashes>>

Callers == {"DeleteJob", "SpoolThisJob", "TrimPool"}  \* of ReleasePoolHandle and DeletePoolFile

Closed == -1        \* INVALID_HANDLE_VALUE; an open handle is its position

NoItem == [phase |-> "none", Status |-> {}, SplWrite |-> Closed, SplRead |-> Closed,
           Shd |-> FALSE, by |-> "none"]
NoSpl == [exists |-> FALSE, data |-> <<>>]
NoShd == [file |-> "none", doc |-> NoDoc, Status |-> {}]
NoJob == [queued |-> FALSE, Status |-> {}, hFileItem |-> 0]

Init ==
  /\ app = [d \in Docs |-> "new"] /\ port = [d \in Docs |-> "none"]
  /\ job = [d \in Docs |-> NoJob] /\ cancelling = {}
  /\ hReadFile = [d \in Docs |-> "none"] /\ read = [d \in Docs |-> 0]
  /\ item = [i \in Items |-> NoItem]
  /\ FreeFiles = <<>> /\ old = {} /\ CurrentNum = 0
  /\ scheduler = "wait" /\ SchedulerSignal = FALSE /\ SchedulerTimeout = FALSE
  /\ spl = [i \in Items |-> NoSpl] /\ shd = [i \in Items |-> NoShd]
  /\ toDelete = [i \in Items |-> [by \in Callers |-> 0]]
  /\ crashes = 0

Is(d, flag) == flag \in job[d].Status
ItemOf(d) == item[job[d].hFileItem]
SetItem(d, it) == item' = [item EXCEPT ![job[d].hFileItem] = it]
AppAt(d, pc) == app' = [app EXCEPT ![d] = pc]
PortAt(d, pc) == port' = [port EXCEPT ![d] = pc]
CHECK_SCHEDULER == SchedulerSignal' = TRUE /\ UNCHANGED <<scheduler, SchedulerTimeout>>

----------------------------------------------------------------------------
(* The handles of an item.                                                  *)

\* The writer of a new item creates its spool file.
GetWriterFromHandle(it) ==
  [it EXCEPT !.SplWrite = IF @ = Closed THEN 0 ELSE @, !.Status = @ \cup {"SPL_WRITING"}]

\* The handle of the writer is the reader's when no one writes and there is no
\* other.
ReadsFromWriter(it) ==
  "SPL_WRITING" \notin it.Status /\ it.SplWrite # Closed /\ it.SplRead = Closed

\* The writer's handle is not put back to the beginning.
GetReaderFromHandle_NoSeek(it) ==
  IF ReadsFromWriter(it)
    THEN [it EXCEPT !.Status = @ \cup {"SPL_READING"}]
    ELSE [it EXCEPT !.SplRead = IF @ = Closed THEN 0 ELSE @, !.Status = @ \cup {"SPL_READING"}]

GetReaderFromHandle(it) ==
  IF ReadsFromWriter(it)
    THEN [it EXCEPT !.SplWrite = IF "SPL_READING" \in it.Status THEN @ ELSE 0,
                    !.Status = @ \cup {"SPL_READING"}]
    ELSE [it EXCEPT !.SplRead = IF @ = Closed THEN 0 ELSE @, !.Status = @ \cup {"SPL_READING"}]

\* FinishedWriting(TRUE), FinishedWriting(FALSE) and FinishedReading, each with
\* its CloseFilesCheck.
FinishedWriting(it) ==
  [it EXCEPT !.SplWrite = IF "SPL_WRITE_CLOSED" \in it.Status THEN Closed ELSE @,
             !.Status = @ \ {"SPL_WRITING"}]
FinishedShadow(it) ==
  [it EXCEPT !.Shd = @ /\ "SHD_CLOSED" \notin it.Status, !.Status = @ \ {"SHD_WRITING"}]
FinishedReading(it) ==
  [it EXCEPT !.SplRead = IF "SPL_READ_CLOSED" \in it.Status THEN Closed ELSE @,
             !.Status = @ \ {"SPL_READING"}]

\* A handle that is in use is closed like the others.
FPCloseFiles_InUse(it) == [it EXCEPT !.SplWrite = Closed, !.SplRead = Closed, !.Shd = FALSE]

\* FPCloseFiles(it, TRUE): a handle in use is marked, and closed by whoever uses
\* it; the shadow file goes by the flags of the spool file's writer.
FPCloseFiles(it) ==
  LET writing == "SPL_WRITING" \in it.Status
      reading == "SPL_READING" \in it.Status
  IN [it EXCEPT !.SplWrite = IF writing THEN @ ELSE Closed,
                !.SplRead = IF reading THEN @ ELSE Closed,
                !.Shd = @ /\ writing,
                !.Status = @ \cup
                  (IF writing /\ (it.SplWrite # Closed \/ it.Shd) THEN {"SPL_WRITE_CLOSED"} ELSE {})
                  \cup (IF reading /\ it.SplRead # Closed THEN {"SPL_READ_CLOSED"} ELSE {})]

InUse(it) == it.Status \cap {"SPL_READING", "SPL_WRITING", "SHD_WRITING"} # {}

----------------------------------------------------------------------------
(* GetFileItemHandle and GetWriterFromHandle in SpoolThisJob: the oldest    *)
(* free item, or a new one.                                                 *)

\* The number is taken although there are files of that name.
NextNumber_Taken(i) == i = CurrentNum

\* CreatePoolFile passes over the names of which there is a spool file.
NextNumber(i) ==
  /\ i >= CurrentNum /\ ~ spl[i].exists
  /\ \A k \in Items : k >= CurrentNum /\ k < i => spl[k].exists

GetFreeItem(i) ==
  /\ FreeFiles # <<>> /\ i = Head(FreeFiles)
  /\ FreeFiles' = Tail(FreeFiles) /\ old' = old \ {i} /\ UNCHANGED CurrentNum
  /\ item' = [item EXCEPT ![i] = GetWriterFromHandle([@ EXCEPT !.phase = "used", !.by = "none"])]
  /\ UNCHANGED spl

GetNewItem(i) ==
  /\ FreeFiles = <<>> /\ NextNumber(i)
  /\ CurrentNum' = i + 1 /\ UNCHANGED <<FreeFiles, old>>
  /\ item' = [item EXCEPT ![i] = GetWriterFromHandle([NoItem EXCEPT !.phase = "used"])]
  /\ spl' = [spl EXCEPT ![i] = [exists |-> TRUE, data |-> <<>>]]

\* The file of a new item cannot be created: the call returns, and keeps the item.
CreateSplWriterFails(i) ==
  /\ "CreateSplWriter" \in Failures
  /\ FreeFiles = <<>> /\ NextNumber(i)
  /\ CurrentNum' = i + 1 /\ UNCHANGED <<FreeFiles, old>>
  /\ item' = [item EXCEPT ![i] = [NoItem EXCEPT !.phase = "used"]]
  /\ UNCHANGED spl

StartDocPrinter(d) ==
  /\ app[d] = "new"
  /\ \E i \in Items :
       \/ /\ GetFreeItem(i) \/ GetNewItem(i)
          /\ job' = [job EXCEPT ![d].hFileItem = i]
          /\ AppAt(d, "item")
       \/ /\ CreateSplWriterFails(i)
          /\ AppAt(d, "done") /\ UNCHANGED job
  /\ UNCHANGED <<port, cancelling, reader, sched, shd, toDelete, crashes>>

----------------------------------------------------------------------------
(* ReleasePoolHandle.  The caller is the only one to know the item by now.  *)

\* An item with a handle in use stays with the items in use.
ReleasePoolHandle(it, by) == IF InUse(it) THEN it ELSE [it EXCEPT !.phase = "leaving", !.by = by]

\* FreeSize is read without the lock of the pool.
Recycled(it) ==
  /\ Len(FreeFiles) < MaxFiles
  /\ "DONT_RECYCLE" \notin it.Status
  /\ it.SplWrite # Closed \/ it.SplRead # Closed

\* The shadow file is left as it is.
TruncateShadow_Forgotten(i) ==
  /\ item[i].phase = "leaving" /\ Recycled(item[i])
  /\ item' = [item EXCEPT ![i].phase = "truncate"]
  /\ UNCHANGED <<app, port, job, cancelling, reader, pool, sched, disk, crashes>>

\* TruncateFiles, the shadow file first: only an open file is emptied.
TruncateShadow(i) ==
  /\ item[i].phase = "leaving" /\ Recycled(item[i])
  /\ item' = [item EXCEPT ![i].phase = "truncate"]
  /\ shd' = IF item[i].Shd THEN [shd EXCEPT ![i] = [NoShd EXCEPT !.file = "empty"]] ELSE shd
  /\ UNCHANGED <<app, port, job, cancelling, reader, pool, sched, spl, toDelete, crashes>>

\* The scheduler is not told.
Returned_Unsignalled(by) == UNCHANGED sched

\* DeleteJob tells the scheduler that an item came back; SpoolThisJob does not.
Returned(by) == IF by = "DeleteJob" THEN CHECK_SCHEDULER ELSE UNCHANGED sched

\* The handles are left where they are.
Truncated_NoSeek(it) == it

\* TruncateFiles: a reader that is the only handle becomes the writer.
Truncated(it) ==
  [it EXCEPT !.SplWrite = 0,
             !.SplRead = IF it.SplWrite # Closed /\ @ # Closed THEN 0 ELSE Closed]

\* Then the spool file, and the item is free.
TruncateSpool(i) ==
  /\ item[i].phase = "truncate"
  /\ item' = [item EXCEPT ![i] = [Truncated(@) EXCEPT !.phase = "free", !.by = "none"]]
  /\ spl' = [spl EXCEPT ![i].data = <<>>]
  /\ FreeFiles' = Append(FreeFiles, i) /\ UNCHANGED <<old, CurrentNum>>
  /\ Returned(item[i].by)
  /\ UNCHANGED <<app, port, job, cancelling, reader, shd, toDelete, crashes>>

\* DeletePoolFile, in ReleasePoolHandle or TrimPool: the spool file first, and
\* with it the name is free for a new item.
DeleteSpool(i) ==
  /\ item[i].phase = "delete" \/ (item[i].phase = "leaving" /\ ~ Recycled(item[i]))
  /\ item' = [item EXCEPT ![i] = NoItem]
  /\ spl' = [spl EXCEPT ![i] = NoSpl]
  /\ toDelete' = [toDelete EXCEPT ![i][item[i].by] = @ + 1]
  /\ UNCHANGED <<app, port, job, cancelling, reader, pool, sched, shd, crashes>>

\* A file that is open, by now of another item, is not deleted.
DeleteShadow(i) ==
  \E by \in Callers :
    /\ toDelete[i][by] > 0
    /\ toDelete' = [toDelete EXCEPT ![i][by] = @ - 1]
    /\ shd' = IF item[i].Shd THEN shd ELSE [shd EXCEPT ![i] = NoShd]
    /\ Returned(by)
    /\ UNCHANGED <<app, port, job, cancelling, reader, item, pool, spl, crashes>>

----------------------------------------------------------------------------
(* DeleteJob of document d, whose INIJOB is j and item it by now, with refs *)
(* references on the job.                                                   *)

\* The handles are finished with: those of the shadow file unless they are
\* already, and the item is released.
Released(j, it) ==
  LET shadow == IF "SHADOW_DELETED" \in j.Status THEN it ELSE FinishedShadow(it)
  IN ReleasePoolHandle(FinishedReading(FinishedWriting(shadow)), "DeleteJob")

\* An item is released though its job is referenced.
DeleteJob_Referenced(d, j, it, refs) ==
  /\ job' = [job EXCEPT ![d] = NoJob]
  /\ SetItem(d, Released(j, it))

\* The shadow file of a job that is referenced is finished with at once.
DeleteJob(d, j, it, refs) ==
  IF refs
    THEN /\ job' = [job EXCEPT ![d] =
              [j EXCEPT !.Status = @ \cup {"PENDING_DELETION", "SHADOW_DELETED"}]]
         /\ SetItem(d, FinishedShadow(it))
    ELSE /\ job' = [job EXCEPT ![d] = NoJob]
         /\ SetItem(d, Released(j, it))

AppRefs(d) == app[d] \in {"spooling", "closing", "closed", "shadow", "write"}
PortRefs(d) == port[d] # "none"
UserRefs(d) == d \in cancelling

\* The print processor of a job that is printing is told first, without SplSem.
Cancels(d) == Is(d, "PRINTING") /\ ~ Is(d, "PENDING_DELETION")
Pending(d) == job' = [job EXCEPT ![d].Status = @ \cup {"PENDING_DELETION"}]

DeleteByUser(d) ==
  /\ job[d].queued
  /\ IF Cancels(d)
       THEN Pending(d) /\ cancelling' = cancelling \cup {d} /\ UNCHANGED item
       ELSE /\ DeleteJob(d, job[d], ItemOf(d), AppRefs(d) \/ PortRefs(d) \/ UserRefs(d))
            /\ UNCHANGED cancelling
  /\ UNCHANGED <<app, port, reader, pool, sched, disk, crashes>>

Cancelled(d) ==
  /\ d \in cancelling /\ cancelling' = cancelling \ {d}
  /\ DeleteJob(d, job[d], ItemOf(d), AppRefs(d) \/ PortRefs(d))
  /\ UNCHANGED <<app, port, reader, pool, sched, disk, crashes>>

----------------------------------------------------------------------------
(* The application: StartDocPrinter goes on, WritePrinter, EndDocPrinter.   *)

SpoolThisJob(d) ==
  /\ app[d] = "item"
  /\ \/ /\ job' = [job EXCEPT ![d].queued = TRUE, ![d].Status = {"SPOOLING"}]
        /\ AppAt(d, "spooling")
        /\ CHECK_SCHEDULER /\ UNCHANGED item
     \/ /\ "CreateJobEntry" \in Failures
        /\ SetItem(d, ReleasePoolHandle(FinishedWriting(ItemOf(d)), "SpoolThisJob"))
        /\ AppAt(d, "done") /\ UNCHANGED <<job, sched>>
  /\ UNCHANGED <<port, cancelling, reader, pool, disk, crashes>>

\* An application that gets the handle of the spool file keeps it.
GetSpoolFileHandle(d) ==
  /\ d \in Mapped /\ app[d] = "spooling" /\ "DONT_RECYCLE" \notin ItemOf(d).Status
  /\ SetItem(d, [ItemOf(d) EXCEPT !.Status = @ \cup {"DONT_RECYCLE"}])
  /\ UNCHANGED <<app, port, job, cancelling, reader, pool, sched, disk, crashes>>

WriteAt(data, pos, d) ==
  SubSeq(data, 1, pos) \o <<d>> \o SubSeq(data, pos + 2, Len(data))

WritePrinter(d) ==
  /\ app[d] = "spooling" /\ ~ Is(d, "PENDING_DELETION")
  /\ LET i == job[d].hFileItem
         pos == item[i].SplWrite
     IN /\ pos \in 0 .. Pages - 1
        /\ spl' = [spl EXCEPT ![i].data = WriteAt(@, pos, d)]
        /\ item' = [item EXCEPT ![i].SplWrite = pos + 1]
  /\ UNCHANGED <<app, port, job, cancelling, reader, pool, sched, shd, toDelete, crashes>>

\* CleanUp of EndDocPrinter, its shadow file written.
EndDocPrinterRest(d, j, it) ==
  /\ AppAt(d, "done")
  /\ IF "PENDING_DELETION" \in j.Status
       THEN DeleteJob(d, j, it, PortRefs(d) \/ UserRefs(d)) /\ UNCHANGED sched
       ELSE job' = [job EXCEPT ![d] = j] /\ SetItem(d, it) /\ CHECK_SCHEDULER

\* WriteShadowJob begins, in SplSem: not if the shadow file is deleted.
EndSpooling(d) ==
  LET j == [job[d] EXCEPT !.Status = @ \ {"SPOOLING"}]
      it == FinishedWriting(ItemOf(d))
  IN IF "SHADOW_DELETED" \in j.Status
       THEN EndDocPrinterRest(d, j, it)
       ELSE /\ job' = [job EXCEPT ![d] = j] /\ SetItem(d, it)
            /\ AppAt(d, "shadow") /\ UNCHANGED sched

\* A large document that is not printing, or one that the printer will not take
\* now, does not keep its files open.
MayClose(d) ==
  /\ ~ Is(d, "PRINTING")
  /\ d \in Large \/ (PrinterBad /\ ~ Is(d, "DESPOOLING"))

EndDocPrinter(d) ==
  /\ app[d] = "spooling"
  /\ Is(d, "PENDING_DELETION") \/ ItemOf(d).SplWrite = Pages
  /\ \/ /\ MayClose(d)
        /\ AppAt(d, "closing") /\ UNCHANGED <<job, item, sched>>
     \/ /\ ~ (d \in Large /\ MayClose(d))
        /\ EndSpooling(d)
  /\ UNCHANGED <<port, cancelling, reader, pool, disk, crashes>>

\* CloseFiles, without SplSem.
EndDocCloses(d) ==
  /\ app[d] = "closing"
  /\ SetItem(d, FPCloseFiles(ItemOf(d)))
  /\ AppAt(d, "closed") /\ UNCHANGED <<port, job, cancelling, reader, pool, sched, disk, crashes>>

EndDocClosed(d) ==
  /\ app[d] = "closed"
  /\ EndSpooling(d)
  /\ UNCHANGED <<port, cancelling, reader, pool, disk, crashes>>

----------------------------------------------------------------------------
(* WriteShadowJob without SplSem, of the application or the port.           *)

\* GetWriterFromHandle(FALSE): a file that is created is empty.
OpenShadow(d) ==
  LET i == job[d].hFileItem
  IN /\ item' = [item EXCEPT ![i].Shd = TRUE, ![i].Status = @ \cup {"SHD_WRITING"}]
     /\ shd' = IF item[i].Shd THEN shd ELSE [shd EXCEPT ![i] = [NoShd EXCEPT !.file = "empty"]]

\* WriteFile, and in SplSem again: the file is there, whoever deleted it before.
WriteShadow(d) ==
  shd' = [shd EXCEPT ![job[d].hFileItem] =
            [file |-> "good", doc |-> d,
             Status |-> job[d].Status \cap {"SPOOLING", "PENDING_DELETION"}]]

\* The shadow file stays deleted.
ShadowExists_Stale(j) == j

ShadowExists(j) == [j EXCEPT !.Status = @ \ {"SHADOW_DELETED"}]

AppOpensShadow(d) ==
  /\ app[d] = "shadow"
  /\ OpenShadow(d) /\ AppAt(d, "write")
  /\ UNCHANGED <<port, job, cancelling, reader, pool, sched, spl, toDelete, crashes>>

AppWritesShadow(d) ==
  /\ app[d] = "write"
  /\ WriteShadow(d)
  /\ EndDocPrinterRest(d, ShadowExists(job[d]), ItemOf(d))
  /\ UNCHANGED <<port, cancelling, reader, pool, spl, toDelete, crashes>>

----------------------------------------------------------------------------
(* The port thread.                                                         *)

\* A rendered document counts its attempts in the shadow file.
CountsAttempt(d) == d \in Rendered /\ ~ Is(d, "SHADOW_DELETED")

PortBegins(d) ==
  /\ port[d] = "assigned" /\ CountsAttempt(d)
  /\ PortAt(d, "shadow")
  /\ UNCHANGED <<app, job, cancelling, reader, item, pool, sched, disk, crashes>>

PortOpensShadow(d) ==
  /\ port[d] = "shadow"
  /\ OpenShadow(d) /\ PortAt(d, "write")
  /\ UNCHANGED <<app, job, cancelling, reader, pool, sched, spl, toDelete, crashes>>

PortWritesShadow(d) ==
  /\ port[d] = "write"
  /\ WriteShadow(d)
  /\ job' = [job EXCEPT ![d] = ShadowExists(job[d])]
  /\ PortAt(d, "begin")
  /\ UNCHANGED <<app, cancelling, reader, item, pool, sched, spl, toDelete, crashes>>

PortPrints(d) ==
  /\ port[d] = "begin" \/ (port[d] = "assigned" /\ ~ CountsAttempt(d))
  /\ job' = [job EXCEPT ![d].Status = @ \cup {"PRINTING"}]
  /\ PortAt(d, "open")
  /\ UNCHANGED <<app, cancelling, reader, item, pool, sched, disk, crashes>>

\* OpenPrinter(", Job n"): a job that is deleted is refused.
OpenPrinter(d) ==
  /\ port[d] = "open"
  /\ IF Is(d, "PENDING_DELETION")
       THEN PortAt(d, "printed") /\ UNCHANGED <<reader, item>>
       ELSE /\ PortAt(d, "reading")
            /\ SetItem(d, GetReaderFromHandle(ItemOf(d)))
            /\ hReadFile' = [hReadFile EXCEPT ![d] =
                 IF ReadsFromWriter(ItemOf(d)) THEN "SplWrite" ELSE "SplRead"]
            /\ UNCHANGED read
  /\ UNCHANGED <<app, job, cancelling, pool, sched, disk, crashes>>

Position(d) == ItemOf(d)[hReadFile[d]]
AtEnd(d) == Position(d) >= Len(spl[job[d].hFileItem].data)

\* At the end of the file, a document that is still spooled is waited for.
ReadPrinter(d) ==
  /\ port[d] = "reading" /\ ~ Is(d, "PENDING_DELETION") /\ ~ AtEnd(d)
  /\ read' = [read EXCEPT ![d] = @ + 1]
  /\ SetItem(d, [ItemOf(d) EXCEPT ![hReadFile[d]] = @ + 1])
  /\ UNCHANGED <<app, port, job, cancelling, hReadFile, pool, sched, disk, crashes>>

\* JOB_CONTROL_SENT_TO_PRINTER deletes the job; a job deleted before stops.
PortSends(d) ==
  /\ port[d] = "reading"
  /\ \/ /\ AtEnd(d) /\ ~ Is(d, "SPOOLING") /\ Cancels(d)
        /\ Pending(d) /\ PortAt(d, "cancel")
     \/ /\ Is(d, "PENDING_DELETION")
        /\ PortAt(d, "stopped") /\ UNCHANGED job
  /\ UNCHANGED <<app, cancelling, reader, item, pool, sched, disk, crashes>>

PortSent(d) ==
  /\ port[d] = "cancel"
  /\ DeleteJob(d, job[d], ItemOf(d), TRUE)
  /\ PortAt(d, "sent")
  /\ UNCHANGED <<app, cancelling, reader, pool, sched, disk, crashes>>

\* ClosePrinter puts the handle back to the beginning.
ClosePrinter(d) ==
  /\ port[d] \in {"sent", "stopped"}
  /\ SetItem(d, [ItemOf(d) EXCEPT ![hReadFile[d]] = 0])
  /\ hReadFile' = [hReadFile EXCEPT ![d] = "none"] /\ read' = [read EXCEPT ![d] = 0]
  /\ PortAt(d, "printed")
  /\ UNCHANGED <<app, job, cancelling, pool, sched, disk, crashes>>

PortStops(d) ==
  /\ port[d] = "printed"
  /\ job' = [job EXCEPT ![d].Status = @ \ {"PRINTING"}]
  /\ PortAt(d, "end")
  /\ UNCHANGED <<app, cancelling, reader, item, pool, sched, disk, crashes>>

\* DeleteJobCheck: the last reference takes the job with it.
PortEnds(d) ==
  /\ port[d] = "end"
  /\ PortAt(d, "none")
  /\ LET j == [job[d] EXCEPT !.Status = @ \ {"DESPOOLING"}]
     IN IF Is(d, "PENDING_DELETION") /\ ~ AppRefs(d) /\ ~ UserRefs(d)
          THEN DeleteJob(d, j, ItemOf(d), FALSE)
          ELSE job' = [job EXCEPT ![d] = j] /\ UNCHANGED item
  /\ CHECK_SCHEDULER
  /\ UNCHANGED <<app, cancelling, reader, pool, disk, crashes>>

----------------------------------------------------------------------------
(* The scheduler.                                                           *)

Schedulable(d) ==
  /\ job[d].queued /\ port[d] = "none"
  /\ ~ Is(d, "PENDING_DELETION") /\ (Is(d, "SPOOLING") => d \in Rapid)

IdlePorts == Ports - Cardinality({d \in Docs : PortRefs(d)})
TrimOver == \A i \in Items : item[i].by # "TrimPool" /\ toDelete[i]["TrimPool"] = 0

\* A pass that gives a job to a port does not look at the pool.
SchedulerThread ==
  /\ scheduler = "wait" /\ TrimOver /\ (SchedulerSignal \/ SchedulerTimeout)
  /\ SchedulerSignal' = FALSE /\ SchedulerTimeout' = FALSE
  /\ IF IdlePorts = 0 \/ ~ \E d \in Docs : Schedulable(d)
       THEN scheduler' = "trim" /\ UNCHANGED <<port, job>>
       ELSE \E S \in SUBSET {d \in Docs : Schedulable(d)} :
              /\ S # {} /\ Cardinality(S) <= IdlePorts
              /\ port' = [d \in Docs |-> IF d \in S THEN "assigned" ELSE port[d]]
              /\ job' = [d \in Docs |-> IF d \in S THEN [job[d] EXCEPT !.Status = @ \cup {"DESPOOLING"}]
                                        ELSE job[d]]
              /\ UNCHANGED scheduler
  /\ UNCHANGED <<app, cancelling, reader, item, pool, disk, crashes>>

TimePasses(i) ==
  /\ item[i].phase = "free" /\ i \notin old
  /\ old' = old \cup {i}
  /\ UNCHANGED <<app, port, job, cancelling, reader, item, FreeFiles, CurrentNum, sched, disk, crashes>>

\* The items trimmed stay on the list.
TrimPool_Kept ==
  /\ scheduler = "trim" /\ scheduler' = "wait"
  /\ \E n \in 0 .. Len(FreeFiles) :
       LET trimmed == {FreeFiles[k] : k \in 1 .. n}
       IN /\ trimmed \subseteq old
          /\ n < Len(FreeFiles) => FreeFiles[n + 1] \notin old
          /\ old' = old \ trimmed
          /\ item' = [i \in Items |-> IF i \in trimmed
                        THEN [FPCloseFiles(item[i]) EXCEPT !.phase = "delete", !.by = "TrimPool"]
                        ELSE item[i]]
          /\ SchedulerTimeout' = (SchedulerTimeout \/ n < Len(FreeFiles))
  /\ UNCHANGED <<app, port, job, cancelling, reader, FreeFiles, CurrentNum, SchedulerSignal, disk, crashes>>

\* The items up to the first that is not too old leave the list, and are deleted
\* without the lock of the pool.  With items left the scheduler comes back.
TrimPool ==
  /\ scheduler = "trim" /\ scheduler' = "wait"
  /\ \E n \in 0 .. Len(FreeFiles) :
       LET trimmed == {FreeFiles[k] : k \in 1 .. n}
       IN /\ trimmed \subseteq old
          /\ n < Len(FreeFiles) => FreeFiles[n + 1] \notin old
          /\ FreeFiles' = SubSeq(FreeFiles, n + 1, Len(FreeFiles))
          /\ old' = old \ trimmed
          /\ item' = [i \in Items |-> IF i \in trimmed
                        THEN [FPCloseFiles(item[i]) EXCEPT !.phase = "delete", !.by = "TrimPool"]
                        ELSE item[i]]
          /\ SchedulerTimeout' = (SchedulerTimeout \/ n < Len(FreeFiles))
  /\ UNCHANGED <<app, port, job, cancelling, reader, CurrentNum, SchedulerSignal, disk, crashes>>

----------------------------------------------------------------------------
(* The spooler goes down, and starts again: ProcessShadowJobs goes by the   *)
(* spool files.  A pair it can read is a job, with an item of that name and *)
(* no handle open; of another both files are deleted.                       *)

Readable(i) ==
  /\ spl[i].exists /\ shd[i].file = "good" /\ shd[i].Status = {}

Crash ==
  /\ crashes < MaxCrashes /\ crashes' = crashes + 1
  /\ LET accepted == {i \in Items : Readable(i)}
         itemOf(d) == CHOOSE i \in accepted : shd[i].doc = d
     IN /\ item' = [i \in Items |-> IF i \in accepted THEN [NoItem EXCEPT !.phase = "used"] ELSE NoItem]
        /\ job' = [d \in Docs |-> IF \E i \in accepted : shd[i].doc = d
                     THEN [NoJob EXCEPT !.queued = TRUE, !.hFileItem = itemOf(d)] ELSE NoJob]
        /\ spl' = [i \in Items |-> IF i \in accepted THEN spl[i] ELSE NoSpl]
        /\ shd' = [i \in Items |-> IF i \in accepted \/ ~ spl[i].exists THEN shd[i] ELSE NoShd]
  /\ app' = [d \in Docs |-> IF app[d] = "new" THEN "new" ELSE "done"]
  /\ port' = [d \in Docs |-> "none"] /\ cancelling' = {}
  /\ hReadFile' = [d \in Docs |-> "none"] /\ read' = [d \in Docs |-> 0]
  /\ FreeFiles' = <<>> /\ old' = {} /\ CurrentNum' = 0
  /\ toDelete' = [i \in Items |-> [by \in Callers |-> 0]]
  /\ scheduler' = "wait" /\ SchedulerSignal' = TRUE /\ SchedulerTimeout' = FALSE

----------------------------------------------------------------------------
AppStep(d) ==
  \/ SpoolThisJob(d) \/ GetSpoolFileHandle(d) \/ WritePrinter(d) \/ EndDocPrinter(d)
  \/ EndDocCloses(d) \/ EndDocClosed(d) \/ AppOpensShadow(d) \/ AppWritesShadow(d)

PortStep(d) ==
  \/ PortBegins(d) \/ PortOpensShadow(d) \/ PortWritesShadow(d) \/ PortPrints(d)
  \/ OpenPrinter(d) \/ ReadPrinter(d) \/ PortSends(d) \/ PortSent(d)
  \/ ClosePrinter(d) \/ PortStops(d) \/ PortEnds(d)

ReleaseStep(i) ==
  \/ TruncateShadow(i) \/ TruncateSpool(i) \/ DeleteSpool(i) \/ DeleteShadow(i)

Next ==
  \/ \E d \in Docs : StartDocPrinter(d) \/ AppStep(d) \/ PortStep(d)
                     \/ DeleteByUser(d) \/ Cancelled(d)
  \/ \E i \in Items : ReleaseStep(i) \/ TimePasses(i)
  \/ SchedulerThread \/ TrimPool
  \/ Crash

Spec == Init /\ [][Next]_vars

\* The threads of the spooler run, and time passes; applications and users need
\* do nothing.
FairSpec ==
  /\ Spec
  /\ WF_vars(SchedulerThread) /\ WF_vars(TrimPool)
  /\ \A d \in Docs : WF_vars(PortStep(d))
  /\ \A i \in Items : WF_vars(ReleaseStep(i)) /\ WF_vars(TimePasses(i))

=============================================================================
