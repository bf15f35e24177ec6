--------------------------- MODULE MCLocalSpooler ---------------------------
(***************************************************************************)
(* Small instances of LocalSpooler for TLC.                                *)
(***************************************************************************)
EXTENDS LocalSpoolerProperties, TLC

\* All jobs alike, none of them EMF.
SamePriority == [j \in Jobs |-> 1]
NoEMF == [j \in Jobs |-> 0]
AllEMF == [j \in Jobs |-> 2]

\* EMF jobs of two units, but one that needs more than TotalMemoryForRendering = 3.
OneTooLarge == [j \in Jobs |-> IF j = CHOOSE k \in Jobs : TRUE THEN 4 ELSE 2]

Symmetry == Permutations(Jobs) \cup Permutations(Ports) \cup Permutations(Clients)
JobsDiffer == Permutations(Ports) \cup Permutations(Clients)

\* The state in which every job has been spooled and nothing was scheduled yet:
\* all applications have run, and no other thread.  A pool is checked from here,
\* where its own threads begin to act.
SpooledInit ==
  /\ splSem = NoThread
  /\ queue \in {q \in [1 .. Cardinality(Jobs) -> Jobs] :
                   \A j \in Jobs : \E i \in DOMAIN q : q[i] = j}
  /\ Status = [j \in Jobs |-> {}] /\ cRef = [j \in Jobs |-> 0]
  /\ job = [j \in Jobs |->
              [signature |-> "IJ_SIGNATURE", pIniPort |-> NoPort, NextJobId |-> NoJob,
               pCurrentIniJob |-> NoJob, WaitForWrite |-> "null",
               dwJobControlsPending |-> 0, Size |-> 0, data |-> 0, unread |-> 0]]
  /\ port = [p \in Ports |->
               [Status |-> {}, pIniJob |-> NoJob, cJobs |-> 0, Semaphore |-> FALSE,
                hProc |-> "closed", InCriticalSection |-> {}]]
  /\ waitingList = <<>> /\ scheduleList = {} /\ availMemory = TotalMemoryForRendering
  /\ schedulerSignal = TRUE /\ cFullPrintingJobs = 0
  /\ app = [j \in Jobs |-> "done"] /\ client = [c \in Clients |-> NoCall]
  /\ pt = [p \in Ports |-> PortThreadAt("none", NoJob)]
  /\ sched = [pc |-> "wait", todo |-> {}, port |-> NoPort, job |-> NoJob]
  /\ del = [t \in Threads |-> NotDeleting] /\ commands = 0

SpooledSpec == SpooledInit /\ [][Next]_vars

=============================================================================
