# Verification of the Windows print spooler and still image service

TLA+ models of the parts of `src/` in which several threads share state under
locks that are left and taken again in the middle of an operation: the local
print provider (`src/print/spooler/localspl`), once for the life of a job among
its threads, once for what it keeps on disk and across crashes and once for the
pool its spool files come from, and the lock manager of the still image service
(`src/wia/core/server`). TLC checks the models on small instances, TLAPS proves
the main safety properties of each of them for every instance.

| module | what it is |
| --- | --- |
| `LocalSpooler` | a print job from `StartDocPrinter` to `DeleteJob`: application, clients, scheduler thread, port threads |
| `LocalSpoolerProperties` | its type invariant, safety, action and liveness properties, its fairness |
| `MCLocalSpooler` | small instances of it |
| `LocalSpoolerTypes` | proof of the type invariant |
| `LocalSpoolerProofs` | proofs about restart and deletion, and about the hand-over of jobs to ports |
| `LocalSpoolerPorts` | proofs about what scheduler and port threads keep in step: counts, lists and memory |
| `LocalSpoolerReferences` | proofs that `cRef` is exact, that nothing points at a freed job, and that a deletion is final |
| `JobStore` | job ids, the queue, spool and shadow files: `StartDocPrinter`, `AddJob`, `DeleteJob`, `ClosePrinter`, crashes and recovery |
| `JobStoreProperties` | what ids and files must do, in a session and across crashes |
| `MCJobStore` | small instances of `JobStore` |
| `JobStoreProofs` | proofs that no two jobs have one id, and of the type invariant |
| `JobStoreFiles` | proofs that a job keeps its spool file, that no id and no file is left behind, and what a crash may not lose or bring back |
| `FilePool` | the pool of spool files: how jobs take, use and give back its items, how the scheduler trims it, what it finds after a crash |
| `FilePoolProperties` | what jobs and the pool promise each other |
| `MCFilePool` | small instances of `FilePool` |
| `FilePoolProofs` | proof of its invariants: who has an item, the free list, where the handles are, what the files hold |
| `DeviceLock` | who may use a scanner or camera, when its port is closed, how its driver is unloaded |
| `DeviceLockProperties` | what that must achieve |
| `DeviceMutex` | the abstract promise: one user of a device at a time |
| `MCDeviceLock` | small instances of `DeviceLock` |
| `DeviceLockProofs` | types, exact owners, refinement of `DeviceMutex`, unloading, open ports |

`tlc -config Control.cfg MCLocalSpooler` runs a check, `tlapm DeviceLockProofs.tla`
a proof. `PROJECT.json` maps every definition to the lines it models.

## 1. The system

### Print spooler (`src/print/spooler`)

| component | state | operations | hard behaviour | what makes it correct |
| --- | --- | --- | --- | --- |
| job lifetime (`localspl/job.c`) | `INIJOB`: `Status`, `cRef`, `pIniPort`, `NextJobId`; the printer's list | `SetJob` commands, `DeleteJob`, `INCJOBREF`, `DECJOBREF` | `DeleteJob` leaves `SplSem` up to four times; `Status` is changed by four kinds of threads | the count is exact, nothing in use is freed, a deletion is carried out |
| scheduler thread (`schedule.c`) | `pScheduleList`, `pWaitingList`, `AvailMemoryForRendering`, `SchedulerSignal` | `SchedulerCheckSpooler`, `SchedulerCheckPort`, `AssignFreeJobToFreePort` | waits for threads it destroys, abandons stalled jobs | a job is on one port at most, every spooled job is printed |
| port threads (`port.c`) | `INIPORT`: `Status`, `Semaphore`, `pIniJob`, `cJobs` | `PortThread`, `PrintDocumentThruPrintProcessor`, `DiscardJobFromPortThread` | hand-over of jobs and of its own end by flags and an event | no job is lost between scheduler and thread |
| spooling calls (`spooler.c`) | size and data of the spool file, `WaitForWrite` | `StartDoc`, `WritePrinter`, `ReadPrinter`, `AbortPrinter`, `EndDocPrinter` | reader and writer of one file; the reader gives up after a time | what counts as printed was read |
| print processor (`prtprocs/winprint`) | its own thread state, pause and abort events | the read/write loop, `ControlPrintProcessor` | control comes from outside `SplSem` | it reaches the job it was meant for |
| job ids, AddJob (`jobid.c`, `addjob.c`, `openprn.c`) | bitmap of ids, handles | `GetNextId`, `LocalAddJob`, `LocalScheduleJob`, `ClosePrinter` | ids marked used and released outside `SplSem` | ids are unique and none is lost |
| file pool (`filepool.cxx`) | lists of free and used files | get, return, trim | trimming while files are used | a file has one user |
| change notification (`change.c`, router, client) | notifications gathered per handle | add, get, refresh, overflow | the answer to one call races with new events | no event is lost without a refresh |
| start-up (`init.c`) | shadow files | rebuild the queue | the spooler stopped between two writes | no job is lost, none that was deleted comes back |
| monitors, router, RPC, cluster, drivers | configuration | pass calls on | none of their own in the life of a job | |

The router passes an application's calls to localspl. `StartDocPrinter` makes an
`INIJOB` and puts it in the printer's list; the scheduler thread, woken by
`SchedulerSignal`, finds a free port for it and wakes or creates that port's
thread through `INIPORT.Semaphore`; the port thread opens the job as a printer
of its own, lets the print processor read it and write it to the port, and
releases it. Any of these threads, or a client's `SetJob`, may drop the last
reference and thus run `DeleteJob`.

### Fax service (`src/faxsrv/service/server`)

`queue.c` keeps parent jobs and their recipients, with reference counts, a timer
for what is due and a file for each job; `tapi.c` and `faxdev.c` the lines. Hard:
removal from inside a scan, recovery of half-written pairs of files, a line that
becomes free while the timer skips jobs. Correct when every recipient reaches a
final state, a parent goes with its last recipient, and no job waits for ever.

### Still image service (`src/wia/core/server`)

| component | state | operations | hard behaviour | what makes it correct |
| --- | --- | --- | --- | --- |
| lock manager (`lockmgr.cpp`) | `LockInfo` of each device; `m_bSched`, `m_lSchedWaitTime` | `RequestLock`, `RequestUnlock`, `AutoUnlock` | idle ports are closed by a timer; two fields are shared by all and protected by nothing | one user at a time, an open port for each, idle ports are closed |
| work item scheduler (`sched.cpp`) | sorted list of items | schedule, remove, run | an item may run before the call that made it returns | an item is run once |
| device manager (`wiadevman.cpp`, `stidev.cpp`) | list of active devices, drivers | arrival, removal, `UnLoadDriver` | a driver goes while threads wait for its device | no driver is unloaded under a user |
| items, transfers, events | item trees, notifications | data transfer, event dispatch | callbacks into clients | |

Everything else under `src/` (drivers, kernel drivers, user interface, build
files) has no part in these protocols; `PROJECT.json` lists it.

## 2. LocalSpooler

### Correspondence with the code

`SplSem` is a variable. An action is one stretch of code between entering and
leaving it; when `DeleteJob` or `DeleteJobCheck` runs inside such a stretch, it
is followed by `DeleteJob` actions that hold the section. Every point at which
another thread can run is thus a state. The code between two sections that
touches nothing shared is folded into the neighbouring action.

| state | code |
| --- | --- |
| `queue` | `pIniFirstJob` and the list of the one printer |
| `Status`, `cRef`, `job` | `INIJOB`; `signature` says whether it exists or was freed; `Size`, `data`, `unread` are what the spool file holds |
| `port` | `INIPORT`: the bits `PP_RUNTHREAD`, `PP_THREADRUNNING`, `PP_WAITING`, `pIniJob`, `cJobs`, `Semaphore`, the print processor |
| `waitingList`, `scheduleList`, `availMemory` | the two lists and the memory that ration EMF jobs |
| `app`, `client`, `pt`, `sched`, `del` | where each application, client, port thread and the scheduler is, and where each of them is inside `DeleteJob` |

| actions | code |
| --- | --- |
| `StartDocPrinter`, `WritePrinter`, `AbortPrinter`, `EndDocPrinter`, `EndDocRelease`, `EndDocLogged` | `spooler.c`, the application |
| `SetJob...`, `PauseOrResume...`, `RestartJob`, `ControlPrintProcessor` | `job.c`, a client |
| `SchedulerThread` and its parts, `AssignFreeJobToFreePort` | `schedule.c` |
| `PortThread` and its parts, `ReadPrinter`, `EndDocPort...` | `port.c`, `spooler.c`, `winprint/raw.c` |
| `DeleteJob` and its parts | `job.c`, on whatever thread called it |

`dwFastPrintSlowDownThreshold` is 2 and lengths go to 3: below, at and above the
point where a job may print while it spools. `dwJobControlsPending` counts modulo
`DwordModulus`, so that going below zero wraps as it does in a DWORD.

Assumed: jobs are RAW or EMF documents that are spooled (no direct printing, print
to file or AddJob), with one `EndDocPrinter` for each `StartDocPrinter`; no start
or until time, no idle time; one printer, always good, with one or several ports,
which the scheduler passes in any order; no language monitor; opening the job and
deleting its files succeed; `JOB_ERROR` and `JOB_PAPEROUT` do not arise. The
number of tries of a waiting job is left out: it expires or goes on. A plain
`Status |=` is atomic, as are the Interlocked ones.

Merged or left out, since no property here tells it apart: `WritePrinter` is one
step though it leaves `SplSem` to write the data and to signal the reader
(`spooler.c` 1766 to 2108); `ReadPrinter` does not wait when it is throttled (3000
to 3016); `EndDocPrinter` leaves `SplSem` also where it looks at the handle, flushes
and closes the files (3446, 3723, 3762; `FilePool` has the last);
`OpenPrintProcessor` sets `hProc` (`port.c` 1004) and `JOB_PRINTING` (1033) in one
step, and a job whose print processor is missing (838 to 867) and `PP_ERROR` do not
occur. When `WriteShadowJob` comes back it may clear `JOB_SHADOW_DELETED`
(`Recreated`): it does if it could create the file, which is not modelled here, and
after a kept job's it may do so in the model even if it had found the mark.

### Properties

* `RefCountExact`: `cRef` is exactly the number of threads, lists, handles and chain
  links that use the job. Everything else rests on it.
* `NoDangling`: nothing points at a freed job, although the section was left
  since it was decided to free it.
* `DeletionIsFinal`, `DeletionCompletes`: a deletion is not taken back, and is
  carried out. `NoOrphanedDeletion` (it is not forgotten) is its safety part, for
  the configurations below that break it.
* `DeletingNotRestarting`: the two bits that would exclude each other's handling.
* `OnePortPerJob`, `ClaimedJobsDespool`, `PortHandshake`, `PortCounts`: how scheduler and port threads hand over jobs.
* `MemoryAccounted`: what is left of the memory for rendering (`availMemory`) and what
  the jobs of `pScheduleList` were promised (`MemoryInUse`) never come to less than
  the total, so that none is lost; and no step takes the account out of balance
  (`Balanced`: the two are equal to the total, or one job that needs more than there
  is renders alone) but `SPL_FIRST_JOB`, which schedules a job that has waited a minute
  whether its memory is there or not (`Forced`). From then on `AddToJobList` has
  floored at zero, and more is given back than was taken, up to the cap; when the
  list is empty the account is exact again.
* `ChainAcyclic`, `PrintedImpliesRead`, `ControlHitsOwnJob`.
* `SpooledJobPrints`: every spooled job is printed.

### Runs

| run | instance | shows |
| --- | --- | --- |
| Control | 1 job, 1 port, 2 clients with 2 commands of all but CHAIN and UNBLOCK, `AbortPrinter`, `FairSpec` | references and deletions under control from two sides; every deletion is carried out |
| Contention | 2 jobs that print while they spool, 1 port, `FairSpec` | no lost wakeup; a stalled job gives up the port |
| Pool | 2 spooled EMF jobs that need 2 and 4 of 3 units of memory, 2 ports, 1 command | hand-over, memory, waiting and schedule lists |
| Chain | 2 jobs, 2 commands of CHAIN and RESTART | chains and their references |
| Keep | KEEPPRINTEDJOBS and ENABLE_DEVQ, 1 job of 2 or 3 that prints while it spools, both failures of printing, 2 commands of UNBLOCK, RESTART, PAUSE, RESUME | reader and writer, the time-out of the reader, failures, refusals and unblocking |

Two of a kind are enough for what the code distinguishes: it compares a job with
the one other job that waits, and a port with the one other port that is free. The
amounts of `Pool` give each case of the memory account: a job that fits, one that must
have all of it to itself, and either of them pushed through beside the other, where
`AddToJobList` floors after a part of what it needs or at once.
Two commands allow every pair of clients' operations to overlap, and one
operation to find what another has left. Symmetry is used in safety runs only, and
in `Pool` not between the jobs, which differ.
DELETE is not a command of `Keep`, because of what `DeleteHitsNext` shows.
`Pool` starts in `SpooledInit`, the state after all applications have finished
and before the scheduler first ran; it is reachable from `Init`, since nothing
forces the scheduler to run earlier, and it spares the run the interleavings of
spooling that the other runs have. Deadlock is not checked: when all documents
are printed the spooler rightly stops.

`DeletionCompletes` is checked with `QUEUED`: without it a job may time out, and
its deletion is then taken back (`port.c` 762 to 773) as for jobs that are kept.
`PrintedImpliesRead` is not a property of `Control`, because CANCEL marks a job
printed before it was read, on purpose.

### What the code does otherwise

Each of these is a finding in `PROJECT.json`; the configurations reproduce them.

* `KeepUndoesDelete` (`DeletionIsFinal`): on a printer that keeps printed jobs the
  port thread takes a user's deletion back.
* `ChainLeaks` (`RefCountExact`): a job chained on while `DeleteJob` is outside
  `SplSem` keeps a reference for ever.
* `DeleteHitsNext` (`ControlHitsOwnJob`): deleting a job may cancel the next one.
* `FrozenPrinted` (`PrintedImpliesRead`): a frozen job ends as printed.

More configurations show what the hazards of `PROJECT.json` describe:
`ShadowOrphan` (`NoOrphanedDeletion`: a reference is dropped without a look whether
it was the last; `schedule.c` 304 and 1399 do the same), `ChainDangles`
(`NoDangling`: the port's `pIniJob` after the head of a chain was deleted) and
`ChainStuck` (`PortJobHasThread`: a chain of EMF jobs whose port loses its thread).

### Fairness

`FairSpec` has weak fairness for each thread on its own: an application only once
it has called `EndDocPrinter` (it may stop writing at any time), a client inside
`SetJob`, a port thread, the scheduler. A thread of the service waits only for
`SplSem`, for its event and for the print processor's section, which are guards
of its actions; the rest is its own code, which the system's scheduler runs on.
`SplSem` needs no strong fairness in these instances: whoever holds it leaves it
by a step of its own, and TLC shows that no thread is starved.

## 3. JobStore

### Correspondence with the code

`SplSem` is given up around every access to a file. An action is one stretch of a
thread that holds it, or one access to a file without it, so that the order of
bitmap, queue and files is the code's, and a crash may come between any two.
Jobs are named by the document they carry.

| state | code |
| --- | --- |
| `idMap`, `dwCurrentJobId`, `dwMaxJobId` | `JOB_ID_MAP` |
| `job` | `INIJOB` as far as ids, references, files and recovery depend on it |
| `handle` | `PSPOOL`: `Status`, `pIniJob` and the list `pMappedJob`, an entry being plain or made by AddJob |
| `spool`, `shadow` | the two files of an id: whose document one holds, what status the other recorded, whether its writing was cut short |
| `thread` | where each client and the port thread is, in `DeleteJob` or `WriteShadowJob` too |
| `crashes`, `died`, `asked` | history: crashes, those with a document being printed, what users asked |

| actions | code |
| --- | --- |
| `StartDocPrinter`, `CreateSpoolFile`, `SpoolThisJob`, `SpoolThisJobFails` | `SpoolThisJob`: id, then file, then job |
| `GetSpoolFileHandle`, `EndDocPrinter` | `spooler.c` |
| `AddJob`, `LocalAddJob`, `WriteSpoolFile`, `ScheduleJob` | `addjob.c`, and the application that writes the file |
| `ClosePrinter`, `CloseNext`, `CloseSchedules`, `ClosePops`, `CloseDeletesFile`, `CloseFreesId`, `Closed` | the loop over `pMappedJob` in `SplClosePrinter` |
| `DeleteByUser`, `Cancelled`, `DeleteShadow`, `ShadowDeleted`, `RemoveShadow`, `RemoveSpool`, `FreeId` | `DeleteJob`, on whatever thread |
| `CreateShadowFile`, `WriteShadowFile`, `CloseShadowFile`, `Reenter` | `WriteShadowJob` |
| `AssignJob`, `PortBegins`, `PortQueries`, `PortSends`, `PortStops`, `PortEnds` | scheduler and port thread, whose hand-over is in `LocalSpooler` |
| `Crash` | the process is gone at any point; `ProcessShadowJobs` and `ReadShadowJob` when it starts again |

`LocalSpooler` and `JobStore` are two views of one program: the first has every
thread, lock and event of the queue and no files, the second the files and ids and
a port that prints jobs one by one.

Assumed: files are not pooled (a printer that keeps its jobs, has its own spool
directory, or a spooler with pooling off; `FilePool` has the others); jobs are queued and not chained; memory
for an entry of `pMappedJob` is found; a file that no one has open can be created
and deleted; recovery is not interrupted. `JOB_PRINTED` and `JOB_COMPLETE` are one
flag. The window in which a printed job is logged is left out (its reference is in
`LocalSpooler`). Bounds: the bitmap grows by 1, not 128, up to `MaxIds`; calls of
`AddJob` with too small a buffer stop before the end of the bitmap; a document is
submitted once; `MaxCrashes`.

Wider than the code: `ClosePrinter` is a step for each entry of `pMappedJob`, although
`openprn.c` 1960 to 1997 keeps `SplSem` from one plain entry to the next.
`LocalScheduleJob` clears the fields of the handle with the step that calls
`DeleteJob` and not after it (`addjob.c` 567 to 569), which its own thread alone could
see; files that are empty or longer than 4 GB (562 to 600) do not occur.

### Properties

* `JobIdsUnique`: an id is used by one job, or by one thread that is making or
  deleting one, and is marked as long as it is.
* `NoIdLeak`: a marked id is used, or will be freed by a `ClosePrinter`.
* `SpoolFileIntact`: the spool file of a job that waits or prints holds its document.
* `NoFileLeak`: with all calls over and handles closed every file belongs to a job.
* `AddJobsRunDown`: an AddJob document is scheduled or deleted with its handle.
  Where two jobs have one id (`IdReuse`) one of them can be lost from the list.
* `AcknowledgedSurvives`, `DeletedStaysDeleted`: what a crash may not lose, and not
  bring back.
* `PoisonDiscarded`: a document that takes the spooler down is given up.

### Runs

| run | instance | shows |
| --- | --- | --- |
| Store | 2 RAW documents, 2 clients, ids that have to grow, 1 crash | ids and files from submission to deletion, before and after a restart |
| Reboots | 1 rendered document with its handle given out, KEEPPRINTEDJOBS, 4 crashes, calls that fail | the count of attempts; four crashes are one more than the document may cause |
| AddJob | 2 AddJob documents, 2 clients, failures of both halves of AddJob, 4 ids | schedule, delete and close in any order |
| IdReuse | 3 documents, one by AddJob; ends in a violation | an id freed twice |

Two documents are what it takes to confuse two jobs' ids or files while both
exist, three to have one created between two releases of an id; the code compares
nothing else. Two clients run `DeleteJob` or `ClosePrinter` for one job at once.

### What the code does otherwise

`IdReuse` is listed: `ClosePrinter` and `DeleteJob` both free the id of a deleted
AddJob document, a new document gets it in between, and its spool file is deleted.
Reproduced besides, each a finding in `PROJECT.json`:

* `NoMemory` (`SpoolFileIntact`): id 0 is used when the bitmap cannot grow.
* `IdLeak`, `MissingFile` (`NoIdLeak`): an id is lost when spooling fails after
  `GetNextId`, or when `DeleteJob` finds no spool file after `ClosePrinter` has
  dropped the entry.
* `AddJobStuck` (`AddJobsRunDown`): an AddJob document on a handle with a started
  document is refused by `ScheduleJob` and stays spooling for ever.
* `DeletedReturns` (`DeletedStaysDeleted`): the shadow file of a deleted job is
  written anew, or cannot be deleted, while another thread writes it.
* `ThreeCrashes` (`PoisonDiscardedAtOnce`): an attempt is not recorded while
  `EndDocPrinter` still writes the shadow file.
* `BlockedLost` (`BlockedSurvives`): a job that was refused twice and never printed
  is discarded as one that crashed the spooler.
* `SecondEndDoc` (`HandlesKeepJobs`): a handle points to a job that may be gone.

## 4. FilePool

### Correspondence with the code

On a printer that neither keeps its jobs nor has a spool directory of its own, a
job's two files come from a pool. `SplSem` guards the job, the pool's lock its
lists, and an item in use nobody: it belongs to the job that has its number. An
action is one stretch of a thread in `SplSem`, or one access to the pool or to a
file without it.

| state | code |
| --- | --- |
| `item` | `PoolItem`: the handles (closed, or where they are in the file), `Status`, and how far its release is (`phase`, `by`) |
| `FreeFiles`, `old`, `CurrentNum` | the free list, the free items whose time is over, the number of the next new name |
| `spl`, `shd`, `toDelete` | the files on the disk: whose pages one holds, what the other says; shadow files whose deletion follows that of the spool file |
| `job` | `INIJOB`: `Status`, `hFileItem`; its references follow from `app`, `port` and `cancelling` |
| `app`, `port`, `cancelling` | where the application, the port thread and the users who delete a document are |
| `hReadFile`, `read` | the handle the port thread reads from, and what it has read |
| `scheduler`, `SchedulerSignal`, `SchedulerTimeout` | whether it waits, what wakes it |

| actions | code |
| --- | --- |
| `StartDocPrinter`, `SpoolThisJob`, `WritePrinter`, `GetSpoolFileHandle` | `spooler.c`: take an item, create the job, fill the file |
| `EndDocPrinter`, `EndDocCloses`, `EndDocClosed`, `AppOpensShadow`, `AppWritesShadow` | `LocalEndDocPrinter`, with `CloseFiles` and `WriteShadowJob` outside `SplSem` |
| `PortBegins` to `PortEnds`, `OpenPrinter`, `ReadPrinter`, `ClosePrinter` | `port.c`, `openprn.c`, `spooler.c`: one document printed |
| `DeleteByUser`, `Cancelled`, `DeleteJob` | `job.c` |
| `TruncateShadow`, `TruncateSpool`, `DeleteSpool`, `DeleteShadow` | `ReleasePoolHandle`, file by file |
| `SchedulerThread`, `TrimPool`, `TimePasses` | `schedule.c`, `FilePool::TrimPool` |
| `Crash` | the process is gone; `ProcessShadowJobs` with pooled files |

Left out: who may open "Printer, Job n" to read a job, besides the port thread (such
handles share the position of the reader's, `openprn.c` 2053 to 2060); a change of the
spool directory and the deletion of items that it brings (`filepool.cxx` 2088 to
2091), `DestroyFilePool`; the count of attempts and what becomes of a bad job
(`JobStore` has it); the number of the names starting again at 99999 and the failure
when all of them are taken (1722, 1769, 1871), a file that cannot be emptied (1079
to 1100), and the tick counter. An error of the printer is a choice at the time it is asked
for. `Items` bounds the numbers, `Pages` the length of a document, `MaxCrashes`
the crashes; a document is spooled once.

### Properties

* `ItemsOwned`: an item in use has one job that will give it back. `DeleteJob` may
  finish with a shadow file while `WriteShadowJob` opens it, and the pool refuses an
  item with a handle in use: that job would keep it for ever.
* `FreeFilesReady`: the free list and the items agree, and a free item is empty, with
  its handles at the beginning.
* `JobsKeepTheirData`: what is spooled is the document's own, all of it, after a
  restart as well.
* `ReadsInOrder`, `WritesInOrder`: no one closes or moves a handle another uses,
  though the writer's handle may become the reader's and `CloseFiles` holds no lock.
* `PoolDrains`: a free item is taken or, in the end, deleted.

### Runs

| run | instance | shows |
| --- | --- | --- |
| Recycle | 2 documents of one page, one RAW and one large, rendered, printed while it spools; a pool of 1, 1 port, the job may not be created, 1 crash | ownership, contents and handles of items through two uses |
| Drains | 2 RAW documents, one whose handle is given out, a pool of 2, files that cannot be created, `FairSpec` | the pool empties without anyone printing |

Two documents are enough for one to find what the other left, and a pool of one
item makes them share it; one page is written, read and rewound. One more port,
two pages, or a printer in error were checked once as well (up to 2.2 million
states) and are not part of the runs. `Drains` has no document printed while it
spools: a pass of the scheduler that hands it over does not look at the pool and
drops its timer, and an application may then stall for ever.

Fairness: the scheduler and the port threads go on, releases come to an end, and
time passes. Neither applications nor users need do anything.

### What the code does otherwise

* `PoolOverflows` (`FreeWithinMaxFiles`): two threads that give items back both find
  room for one.
* `StaleShadow` (`FreeShadowsEmpty`): the item of a recovered job is reused with the
  shadow file of that job.
* `OrphanShadow` (`SpoolingNotAccepted`): a crash between the deletions of the two
  files leaves a shadow file for the next document of that number.
* `ItemLeaks` (`ItemsOwned`): an item whose file cannot be created is not given back.
* `PoolLingers` (`PoolDrains`): an item given back by `SpoolThisJob` stays, for want of
  a signal.

## 5. DeviceLock

### Correspondence with the code

An action is one stretch of a thread between two accesses to what others may
change at the same time. `hDeviceIsFree` is an auto-reset event: the wait that
succeeds resets it, and from there to `ClearLockInfo` the thread has the device.

| actions | code |
| --- | --- |
| `RequestLock`, `Granted`, `Offline`, `Busy` | `RequestLockHelper`: same thread again, wait, driver unloaded meanwhile, time-out |
| `LockDevice`, `LockDeviceFails` | `LockDevice` and the USD |
| `RequestUnlock`, `UnlockedForClient`, `ScheduleUnlock`, `UnlockScheduled` | `RequestUnlockHelper`: count and close, the flag of a client, schedule, set `m_bSched` |
| `AutoUnlock`, `CheckDevice`, `UpdateLockInfoStatus`, `RescheduleUnlock` | the timed callback, device by device |
| `UnLoadDriver`, `UnloadLocked`, `UninitializeItem`, `ItemUninitialized`, `UnloadUnlocks`, `DriverUnloaded`, `UnloadClears`, `LoadDriver` | `stidev.cpp`, and `idrvitem.cpp` for the items |

A server thread opens the port through the service's USD (`port`); a client is
given the device without it, and has a USD of its own, which is outside the
model. The flag `bDeviceIsLocked` means an open port in one case and not in the
other: most properties here are about that.

Assumed: `LockInfo` exists from the start, a thread uses one device at a time and
gives back what it took, a call of the USD is one step, `ScheduleWorkItem` finds
memory (`lockmgr.cpp` 663), drivers raise no exceptions, the flag REMOVING (set when a
device is deleted, 598 to 611) is not set, only the thread that has a device gives it
back (577 does not look who calls), a device whose driver was unloaded is gone until `LoadDriver`
(so `PrepForUse` loads nothing). `ScheduleUnlock` writes
`m_lSchedWaitTime`, reads `m_bSched` and schedules in one step (659 to 663); that the
flag is set only later is `UnlockScheduled`. Times are in units of the shortest holding time;
a work item runs at any time after it was scheduled.

### Properties

`OneHolder` (the refinement of `DeviceMutex`: every step takes or releases one
free device, or none), `OwnerExact` (`dwThreadId` and `lInUse` are right for every
device), `HolderHasPort` (a server thread that has a device has an open port),
`UnloadsAlone`, and `IdlePortsClose` (an open port that nobody uses is closed or
used in the end). `IdlePortsClose` and `HolderHasPort` are stated for devices that
only the service uses; for shared ones they do not hold, see below.

### Runs

`Devices`: a server thread with two devices, one shared with a client, holding
times 2 and 0 or 1, a driver that may refuse to open, one unloading, two work
items at once. Two devices with different times are what makes the shared
`m_lSchedWaitTime` wrong; two items are what an unprotected `m_bSched` leads to.

Reproduced: `UnloadTogether` (`UnloadsAlone`: the driver refuses `UnLoadDriver` its
lock, which goes on nevertheless), `ClientLeavesOpen`
(`IdlePortsCloseAnywhere`) and `ClientClearsFlag` (`HolderHasPortAnywhere`), what
`lockmgr.cpp` 647 does to a device shared with a client; `TimerFirst`
(`IdlePortsClose` when a work item may run before `ScheduleWorkItem` has returned:
`m_bSched` stays set for nothing); `UnlockFailsAtUnload` (`HolderHasPort` when the
USD fails to unlock: the flag survives the driver).

Fairness: a call of the lock manager goes on when it can; the timer thread runs
what is due; `UnLoadDriver` goes on, and, its list of items being finite, in the
end leaves the loop over them (the one strong fairness). No thread need ask for a
device or give it back.

## 6. Proofs

All theorems hold for any finite sets of jobs, documents, ports, clients and
devices and any threads, from `ConstantsAssumption` of the module (which TLC evaluates in every
run) and what is named below.

| theorem | statement | argument |
| --- | --- | --- |
| `TypeCorrect` | `Spec => []TypeOK` of `LocalSpooler` | `TypeInv` adds that a thread inside an operation is at a job or port (`DeletersHaveJobs`, `ClientsHaveJobs`, `PortsHaveJobs`): without it `job[...]` of a thread's job has no type |
| `NeverDeletingAndRestarting` | `Spec => []DeletingNotRestarting` | inductive with `TypeInv`: each writer of one bit looks at, or clears, the other in the same section |
| `NeverOnTwoPorts` | `Spec => []OnePortPerJob` | `Ownership`, which adds `ClaimedJobsDespool` (what a port has is marked DESPOOLING) and `PortHandshake` (who acts next): the scheduler assigns only jobs without that mark, to ports whose thread waits |
| `ClaimsDespool`, `PortsAgree` | `Spec => []ClaimedJobsDespool`, `Spec => []PortHandshake` | the other two conjuncts of `Ownership` |
| `PortsCounted` | `NoChains` implies `Spec => []PortCounts` | `PortsGivenJobs`: a job's `pIniPort` is the port that was given it, and the port's `pIniJob` is what its thread prints or is woken for. So `cJobs` and the count of printing ports change where the set they count does |
| `MemoryStaysAccounted` | `Spec => MemoryAccounted` | `MemoryHeld`: the units promised to the jobs of the schedule list are a finite set, with as many more for a job more as it requires (`UnitsOfOneMore`), and no fewer than are missing from `AvailMemoryForRendering`. `AddToJobList` keeps the balance for a job that has enough memory, and `RemoveFromJobList` always does (`ReservesMemory`, `ReleasesMemory`); `CheckMemoryAvailable` and `SPL_USE_MEMORY` let no other job pass, so only `SPL_FIRST_JOB` is left. `AllMemoryReturns`: an empty list means that all is free |
| `ReferencesExact` | `NoChains` implies `Spec => []RefCountExact` | `Counted`, which adds `OutOfReach`: no thread, list or port reaches a job that is not there yet, is out of the queue or is freed, but the one thread in `DeleteJob`. Neither holds without the other: a job leaves the queue only when nobody is counted, and it stays exactly counted because nobody reaches it after that |
| `NothingDangles` | the same, `Spec => []NoDangling` | `OutOfReach`, with `PortsGivenJobs` for the port's `pIniJob` |
| `DeletionsFinal` | `OnlyWhenSpooled` implies `Spec => DeletionIsFinal` | `NotWhileSpooling`: no job is despooled before it is spooled, so none times out and comes to the line that takes a deletion back; `KnownJobs`: who writes `Status` writes that of the job it holds |
| `ChainsEnd` | `Spec => []ChainAcyclic` | `NoCycle`: the next job of a chain is not one from which the job itself can be reached, which is to be in every set that no link leaves (`Reach`). The step that adds a link has looked along `ChainFrom`, a recursive function that goes as many links as there are jobs; this is far enough, because without a cycle each link leads to a job from which strictly fewer can be reached (`ReachShrinks`, `ReachSize`, `ChainReach`) |
| `PrintedWasRead` | `SpooledFirst` and `JobsAreLeft` imply `Spec => []PrintedImpliesRead` | `ReadInv`: a port's thread goes on to `EndDocPrinter` only with a job that was read or is to stop (`PortReads`), and one that is to stop is marked `INTERRUPTED` before the monitor's `SetJob` can mark it printed; a print processor is told to stop only by the `DeleteJob` of that `SetJob` (`DeletesOwn`), so no other deletion ends the reading early. By `PortsGivenJobs` and `OnePortPerJob` nobody else ends the document, by `NotWhileSpooling` nobody waits for the application to write more |
| `IdsUnique` | `StartDocOnly` implies `Spec => []JobIdsUnique` | `StoreInv`: `cRef` is exactly the number of threads and handles that use the job; who still uses a job outside `SplSem` has it referenced; only the thread that found no reference left has taken the job from the queue, and it alone keeps the id until it frees it |
| `CountsNotNegative` | the same, `Spec => []TypeOK` of `JobStore` | `StoreInv` for `cRef`; `RebootsOK` for `dwReboots`: the port thread counts an attempt before it takes it back |
| `AddJobsAreRunDown` | `AddJobOnly` implies `Spec /\ []QueueIdsUnique => []AddJobsRunDown` | `AddInv`: a job that is not scheduled is marked `addJob` on the list of a handle, and no `ClosePrinter` that has seen to its id is about to take it off (`SeenTo`) |
| `SpoolFilesIntact` | the same, `Spec => []SpoolFileIntact` | `FileInv`: the spool file of a job, or of one whose files are being deleted, is its own (`SpoolFiles`, `OwnIds`); a shadow file names the document whose spool file it stands beside (`ShadowOf`, `ShadowHeld`, `ShadowGone`), which is what makes a restart give a document its own files and no other's |
| `NoIdsLost` | that, and `SpoolThisJob` and `CreateJobEntry` do not fail, imply `Spec => []NoIdLeak` | `IdsHeld`: a marked id is a job's or a thread's that is making or deleting one. `RemoveSpool` cannot fail (`DeleteSucceeds`): nobody has the file of a job open that has left the queue |
| `NoFilesLost` | `StartDocOnly` and `SpoolThisJob` does not fail imply `Spec => []NoFileLeak` | `SpoolHeld`, the same for spool files; with `ShadowHeld` for shadow files |
| `NothingAcknowledgedLost` | `StartDocOnly` implies `Spec => AcknowledgedSurvives` | `CrashInv`, relative to `StoreInv` and `FileInv`: the shadow file of a job that waits is good, or a thread is about to write it (`WholeOK`); it is deleted, or marked so, only for a job that is to go (`MarkOK`); it records no more than one attempt unless the job does too, or a kept job is about to be written with one less (`TriesOK`: `PortBegins` counts an attempt before its file is written, `Kept` takes it back) |
| `DeletedJobsStayDeleted` | `StartDocOnly` and `PortOnlyReads` imply `Spec => DeletedStaysDeleted` | `DeletionInv`: a job that is deleted is still being spooled, or `ReadShadowJob` does not take its shadow file, or some thread has it in hand: one that is about to delete the file, or an `EndDocPrinter` that writes it and comes to `DeleteJob` next (`Unreadable`, `Handles`). With `FileInv` for a job that has left the queue: no other file names its document |
| `PoisonIsGivenUp` | `StartDocOnly` implies `Spec => []PoisonDiscarded` | `LimitedOK`: a document that nobody deleted or restarted has taken the spooler down no more often than its shadow file, the job in the queue and an attempt that is under way count, each at its place of the port thread (`FilesCount`, `QueueCounts`, `PortCounts`); relative to `StoreInv`, `FileInv`, `CrashInv` (which file a restart finds) and `RebootsOK` |
| `NoItemLost` | `FilesCanBeCreated` implies `Spec => []ItemsOwned` of `FilePool` | `PoolInv`: whoever has an item, a job or a `StartDocPrinter`, is its only owner (`Ownership`); who uses a job has it in the queue (`RefsQueued`), and who still writes a shadow file that `DeleteJob` has finished with is at that place of its code (`ShadowWriters`), so when the last reference goes no handle is in use; at most one shadow file names a document (`ShadowsNamed`), so a restart gives each job an item of its own |
| `FreeItemsReady` | the same, `Spec => []FreeFilesReady` | a conjunct of `Ownership` |
| `PagesAppended` | the same, `Spec => []WritesInOrder` | `HandleInv`, relative to `PoolInv`: for each document where the writer's handle is (`Writer`: behind the pages that are in the file) and where the reader's is (`Reader`: at `read`, and not the handle of one who writes). A port gives up `SPL_READING` only with a document that is deleted, so `GetReaderFromHandle` never finds the position of an earlier reader |
| `PoolTypes` | the same, `Spec => []TypeOK` of `FilePool` | `PoolInv`, `HandleInv` for the bounds of positions and pages, `OtherTypes` for the rest |
| `DataKept` | `FilesCanBeCreated` and `CrashesOnce` imply `Spec => []JobsKeepTheirData` | `ContentInv`: what is spooled is whole (`Spools`), since only a writer behind the last page, or of a deleted document, ends; and until the first crash a shadow file that names a document as spooled has all of it beside it (`ShadowTrue`). The latter needs that the shadow file of an item goes before the item is free, that it is open for whoever empties it, and that it bears SPOOLING as long as somebody writes (`ShadowOpen`) |
| `DocumentsReadWhole` | the same, `Spec => []ReadsInOrder` | `Reader` for the position; `Spools` for the end: a port that has come to the end of the file of a spooled document has read all pages |
| `DeviceTypeCorrect` | `Spec => []TypeOK` of `DeviceLock` | with `AtDevice`: whoever waits or has a lock is at a device |
| `OwnersKnown` | `UnloadNotRefused` implies `Spec => []OwnerExact` | `LockInv`: for each device exactly one of free, had by one thread, had by the timer; a thread that waits has nothing; `UnLoadDriver` has its lock until it clears it |
| `OneUserAtATime` | the same, `Spec => OneHolder` | `LockInv`; every step changes the user of one device at most, and only from or to nobody |
| `DriversUnloadAlone` | the same, `Spec => UnloadsAlone` | `UnLoadDriver` has the device when it unloads the driver |
| `PortsOpenForHolders` | that and `UnlockSucceeds` imply `Spec => []HolderHasPort` | `PortInv`: for a device that only the service uses, `bDeviceIsLocked` says that the port is open, it is set while a server thread has the device, and `UnLoadDriver` leaves it cleared; clients, who clear it without closing, are at other devices |

`UnloadNotRefused` says that the driver does not fail the `LockDevice` of
`UnLoadDriver`; `UnloadTogether.cfg` shows that it is needed. `StartDocOnly` says
that documents are printed with `StartDocPrinter` and not `AddJob`, that no
application asks for the handle of a spool file, and that the bitmap of ids can
grow. It is needed too: `IdReuse.cfg` shows the id of an `AddJob` document given
to two documents, `NoMemory.cfg` two documents with id 0. `IdLeak.cfg` shows the id,
and with it the file, that is lost when `SpoolThisJob` fails (`spooler.c` 741).
`AddJobOnly` says that every document comes by `AddJob`: `AddJobStuck.cfg` shows the
other kind on one handle with it. `QueueIdsUnique` says that no two jobs of the queue
have one id; it is weaker than `JobIdsUnique`, holds in all states of the run `AddJob`,
and is needed: with five documents, two clients and three ids TLC finds an id freed
twice, as in `IdReuse.cfg`, and given to two jobs of one handle, whose list knows jobs by
their ids; to schedule one takes the other off the list, and it stays spooling for ever.
`PortOnlyReads` says that the port thread writes no shadow files: no document is
rendered, and the printer does not keep its printed jobs. `DeletedReturns.cfg` shows
that the first is needed; with `Keep = TRUE` in `Store.cfg` TLC finds a deleted job
back in the queue too, whose shadow file the port thread wrote while the user
deleted it. `FilesCanBeCreated` says
that `GetWriterFromHandle` does not fail; `ItemLeaks.cfg` shows the item that is lost
if it does. `CrashesOnce` says that the spooler crashes at most once. After a restart
an item may be used with the shadow file of another document (`StaleShadow.cfg`,
`OrphanShadow.cfg`), and then a second crash makes it a job of that document with the
pages of this one: TLC finds `JobsKeepTheirData` violated with `MaxCrashes = 2`, which
is how the assumption was found. Who owns items and writes them needs no such limit.
`NoChains` says that `CHAIN` is not among the commands: `ChainLeaks.cfg`
and `ChainDangles.cfg` show a reference lost and a pointer left with it (the run
`Chain` checks on a small instance what does hold of chains). `OnlyWhenSpooled`
says that the printer has `QUEUED` set and `KEEPPRINTEDJOBS` not:
`KeepUndoesDelete.cfg` shows a deletion taken back on a printer that keeps its
jobs, and the time-out of `port.c` 762 to 773 does the same to a job that is
printed while it is spooled. `SpooledFirst` is the first half of it, `QUEUED`:
without it `FrozenPrinted.cfg` marks a frozen job as printed with data left.
`JobsAreLeft` says that nobody cancels, deletes or chains jobs; they are paused,
resumed and restarted, and applications abort their own. A CANCEL marks a job as
printed before it is read, on purpose; a DELETE may tell the print processor of the
next job to stop (`DeleteHitsNext.cfg`), which then ends as printed with data left;
and what a chain has read is counted at another job than the one that is marked.
`UnlockSucceeds` says that the USD does not fail to unlock: `UnlockFailsAtUnload.cfg`
shows the flag left set without a port. Each inductive invariant was first checked by TLC on a small instance (`PoolInv` and
`HandleInv` with two documents and two crashes, `DeletionInv` with one crash,
`ContentInv` with one crash and with two pages, `PortInv` with failures of locking,
`LimitedOK` with four crashes, `AddInv` in the run `AddJob`, `NoCycle` in the run `Chain`,
`ReadInv` with one job and two clients on a printer that keeps its jobs, and with two jobs).

The theorems about `LocalSpooler` are of `Spec`; the run `Pool` starts in
`SpooledInit`, whose states `Spec` reaches.

Induction over numbers is done with sets (`NatSets`): a set of naturals with 0 and
each successor is all of them, by the library's theorem on least elements. With it
`Iterates` and `ChainSteps` unfold the recursive function `ChainFrom`.

Only model-checked: the liveness properties (outside the prover's reach);
`RefCountExact`, `NoDangling` and `PortCounts` with chains; and `PrintedImpliesRead` on a
printer that prints while it spools (the run `Keep`, with one job), which `FrozenPrinted`
shows not to hold of all constants.

## 7. Not modelled

Protocols of their own, and the next to model, in this order:

* the fax queue (`queue.c`): recipients, retries, removal inside a scan, recovery
  of pairs of files;
* change notification (`change.c`, router, client): gathering, overflow and refresh;
* the rest of the file pool: users who open a job to read it, a change of the spool
  directory, `DestroyFilePool`, and the count of attempts of `JobStore` on pooled
  files;
* the client's own USD in `DeviceLock` (`device.c` 950 unlocks before it closes),
  and the handle array of the work item scheduler;
* `LocalSpooler` as a refinement of an abstract print queue.

Not to be modelled: rendering, printer and port drivers, the T.30 protocol, user
interface, configuration, security descriptors, RPC marshalling: device I/O and
data without a protocol between threads of their own. They are most of `src/`, so
that the share of it that the models cover is small.
