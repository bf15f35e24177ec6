----------------------- MODULE LocalSpoolerReferences -----------------------
(***************************************************************************)
(* INIJOB.cRef is exact, and a job whose memory DeleteJob frees is out of   *)
(* everybody's reach, for every number of jobs, ports and clients, as long *)
(* as jobs are not chained.                                                *)
(*                                                                         *)
(* The two are proved together.  A job goes out of the queue only when     *)
(* nobody is counted, so who reaches it from then on would be one who is   *)
(* not counted; and it is counted right because nobody reaches it once it  *)
(* is out of the queue.                                                    *)
(*                                                                         *)
(* The section after that shows that a deletion is final on a printer that *)
(* only prints what has been spooled and keeps no printed job; the next    *)
(* one is about chained jobs, and has no such hypothesis; the last one     *)
(* shows that what counts as printed was read, on a printer that spools    *)
(* its jobs first.                                                         *)
(***************************************************************************)
EXTENDS LocalSpoolerPorts, WellFoundedInduction

\* Nobody but DeleteJob holds job j, and no list has it.
Unreachable(j) ==
  /\ ~ AppHolds(j) /\ ClientsHolding(j) = {} /\ job[j].pIniPort = NoPort /\ sched.job # j
  /\ ~ OnWaitingList(j) /\ j \notin scheduleList /\ j \notin Queued

\* Job j is not there yet, or DeleteJob has freed it; or DeleteJob has unlinked it.
Absent(j) == app[j] = "idle" \/ Freed(j)
Unlinked(j) == \E t \in Threads : del[t].pc \in {"log", "free"} /\ del[t].job = j

\* Nobody reaches a job that is not there or is out of the queue, but for the one
\* thread that is about to free it.
OutOfReach ==
  \A j \in Jobs :
    /\ Absent(j) \/ Unlinked(j) => Unreachable(j)
    /\ Absent(j) => \A t \in Threads : del[t].job # j
    /\ Unlinked(j) => \A s, t \in Threads : del[s].job = j /\ del[t].job = j => s = t

----------------------------------------------------------------------------
(* INIJOB.cRef.                                                             *)

\* What the application and the scheduler hold of job k.
AppRef(k) == IF AppHolds(k) THEN 1 ELSE 0
SchedRef(k) == IF sched.job = k THEN 1 ELSE 0

\* What client c, port p, thread t, the application, the scheduler and the
\* lists hold of job k.
Held(c, p, t, k) ==
  AppRef(k) + In(c, ClientsHolding(k))
  + In(p, PortsGiven(k)) + In(p, PortsWithHandle(k)) + In(p, PortsAlerting(k))
  + SchedRef(k) + In(t, DeletersOf(k)) + Lists(k)

\* Everybody outside c, p and t holds of job k what it held before.
OthersHold(c, p, t, k) ==
  /\ ClientsHolding(k)' \ {c} = ClientsHolding(k) \ {c}
  /\ PortsGiven(k)' \ {p} = PortsGiven(k) \ {p}
  /\ PortsWithHandle(k)' \ {p} = PortsWithHandle(k) \ {p}
  /\ PortsAlerting(k)' \ {p} = PortsAlerting(k) \ {p}
  /\ DeletersOf(k)' \ {t} = DeletersOf(k) \ {t}

\* Only finitely many can hold a job.
LEMMA FiniteHolders ==
  ASSUME NEW k
  PROVE  /\ IsFiniteSet(ClientsHolding(k)) /\ IsFiniteSet(PortsGiven(k))
         /\ IsFiniteSet(PortsWithHandle(k)) /\ IsFiniteSet(PortsAlerting(k))
         /\ IsFiniteSet(DeletersOf(k))
<1>1. IsFiniteSet(Clients) /\ IsFiniteSet(Ports) /\ IsFiniteSet(Jobs)
  BY ConstantsAssumption DEF ConstantsAssumption
<1>2. IsFiniteSet(Threads)
  <2>1. IsFiniteSet({Scheduler}) BY FS_Singleton
  <2>2. IsFiniteSet(Jobs \cup Ports) BY <1>1, FS_Union
  <2>3. IsFiniteSet((Jobs \cup Ports) \cup Clients) BY <1>1, <2>2, FS_Union
  <2>4. IsFiniteSet(((Jobs \cup Ports) \cup Clients) \cup {Scheduler}) BY <2>1, <2>3, FS_Union
  <2> QED BY <2>4 DEF Threads
<1>3. ClientsHolding(k) \subseteq Clients /\ PortsGiven(k) \subseteq Ports
      /\ PortsWithHandle(k) \subseteq Ports /\ PortsAlerting(k) \subseteq Ports
      /\ DeletersOf(k) \subseteq Threads
  BY DEF ClientsHolding, PortsGiven, PortsWithHandle, PortsAlerting, DeletersOf
<1> QED BY <1>1, <1>2, <1>3, FS_Subset

\* A step keeps the count of job k exact if it adds to it as much as the one
\* client, port and thread it moves have come to hold.
LEMMA Accounts ==
  ASSUME Unchained, Unchained', NEW k \in Jobs, cRef[k] = References(k), cRef'[k] \in Int,
         NEW c, NEW p, NEW t, OthersHold(c, p, t, k),
         cRef'[k] = cRef[k] + (Held(c, p, t, k)' - Held(c, p, t, k))
  PROVE  cRef'[k] = References(k)'
<1>n. NoJob \notin Jobs BY ConstantsAssumption DEF ConstantsAssumption
<1>1. Predecessors(k) = {} /\ Predecessors(k)' = {} BY <1>n DEF Predecessors, Unchained
<1>2. Cardinality({}) = 0 BY FS_EmptySet
<1>3. /\ Cardinality(ClientsHolding(k)) \in Nat /\ Cardinality(ClientsHolding(k)') \in Nat
      /\ Cardinality(ClientsHolding(k)') =
           Cardinality(ClientsHolding(k)) + In(c, ClientsHolding(k)') - In(c, ClientsHolding(k))
  BY FiniteHolders, CountOne DEF OthersHold
<1>4. /\ Cardinality(PortsGiven(k)) \in Nat /\ Cardinality(PortsGiven(k)') \in Nat
      /\ Cardinality(PortsGiven(k)') =
           Cardinality(PortsGiven(k)) + In(p, PortsGiven(k)') - In(p, PortsGiven(k))
  BY FiniteHolders, CountOne DEF OthersHold
<1>5. /\ Cardinality(PortsWithHandle(k)) \in Nat /\ Cardinality(PortsWithHandle(k)') \in Nat
      /\ Cardinality(PortsWithHandle(k)') =
           Cardinality(PortsWithHandle(k)) + In(p, PortsWithHandle(k)') - In(p, PortsWithHandle(k))
  BY FiniteHolders, CountOne DEF OthersHold
<1>6. /\ Cardinality(PortsAlerting(k)) \in Nat /\ Cardinality(PortsAlerting(k)') \in Nat
      /\ Cardinality(PortsAlerting(k)') =
           Cardinality(PortsAlerting(k)) + In(p, PortsAlerting(k)') - In(p, PortsAlerting(k))
  BY FiniteHolders, CountOne DEF OthersHold
<1>7. /\ Cardinality(DeletersOf(k)) \in Nat /\ Cardinality(DeletersOf(k)') \in Nat
      /\ Cardinality(DeletersOf(k)') =
           Cardinality(DeletersOf(k)) + In(t, DeletersOf(k)') - In(t, DeletersOf(k))
  BY FiniteHolders, CountOne DEF OthersHold
<1>8. AppRef(k) \in Nat /\ AppRef(k)' \in Nat /\ SchedRef(k) \in Nat /\ SchedRef(k)' \in Nat
      /\ Lists(k) \in Nat /\ Lists(k)' \in Nat
  BY DEF AppRef, SchedRef, Lists
<1>9. \A x, S : In(x, S) \in Nat BY DEF In
<1>10. References(k) =
         AppRef(k) + Cardinality(ClientsHolding(k))
         + Cardinality(PortsGiven(k)) + Cardinality(PortsWithHandle(k))
         + Cardinality(PortsAlerting(k)) + SchedRef(k) + Cardinality(DeletersOf(k)) + Lists(k)
  <2> HIDE DEF ClientsHolding, PortsGiven, PortsWithHandle, PortsAlerting, DeletersOf, Lists
  <2> QED BY <1>1, <1>2, <1>3, <1>4, <1>5, <1>6, <1>7, <1>8 DEF References, AppRef, SchedRef
<1>11. References(k)' =
         AppRef(k)' + Cardinality(ClientsHolding(k)')
         + Cardinality(PortsGiven(k)') + Cardinality(PortsWithHandle(k)')
         + Cardinality(PortsAlerting(k)') + SchedRef(k)' + Cardinality(DeletersOf(k)') + Lists(k)'
  BY <1>1, <1>2, <1>3, <1>4, <1>5, <1>6, <1>7, <1>8 DEF References, AppRef, SchedRef
<1>12. cRef'[k] = cRef[k] +
         ((AppRef(k)' + In(c, ClientsHolding(k)')
           + In(p, PortsGiven(k)') + In(p, PortsWithHandle(k)') + In(p, PortsAlerting(k)')
           + SchedRef(k)' + In(t, DeletersOf(k)') + Lists(k)')
          - (AppRef(k) + In(c, ClientsHolding(k))
             + In(p, PortsGiven(k)) + In(p, PortsWithHandle(k)) + In(p, PortsAlerting(k))
             + SchedRef(k) + In(t, DeletersOf(k)) + Lists(k)))
  BY DEF Held
<1> QED BY <1>3, <1>4, <1>5, <1>6, <1>7, <1>8, <1>9, <1>10, <1>11, <1>12

\* What thread t holds of job k inside DeleteJob.
LEMMA DeletersHold ==
  ASSUME Unchained, NEW t \in Threads, NEW k \in Jobs
  PROVE  t \in DeletersOf(k) <=>
           del[t].job = k /\ del[t].pc \in {"cancel", "control", "shadow", "log"}
BY ConstantsAssumption DEF ConstantsAssumption, Unchained, DeletersOf

\* A step of DeleteJob counts what its own thread comes to hold.
LEMMA DeleteJobHolds ==
  ASSUME TypeInv, Unchained, Unchained', NEW t \in Threads, NEW k \in Jobs, DeleteJob(t)
  PROVE  cRef'[k] = cRef[k] + (In(t, DeletersOf(k)') - In(t, DeletersOf(k)))
<1> DEFINE Pcs == {"cancel", "control", "shadow", "log"}
           j == del[t].job
<1>d. del \in [Threads -> DelRecords] BY DEF TypeInv, TypeOK, DeleteTypes
<1>c. cRef \in [Jobs -> Int] BY DEF TypeInv, TypeOK, JobTypes
<1>n. NoJob \notin Jobs BY ConstantsAssumption DEF ConstantsAssumption
<1>0. /\ In(t, DeletersOf(k)) = IF j = k /\ del[t].pc \in Pcs THEN 1 ELSE 0
      /\ In(t, DeletersOf(k)') = IF del'[t].job = k /\ del'[t].pc \in Pcs THEN 1 ELSE 0
  <2>1. t \in DeletersOf(k) <=> j = k /\ del[t].pc \in Pcs BY DeletersHold
  <2>2. t \in DeletersOf(k)' <=> del'[t].job = k /\ del'[t].pc \in Pcs
    BY <1>n DEF Unchained, DeletersOf
  <2> QED BY <2>1, <2>2 DEF In
<1>1. SUFFICES cRef'[k] = cRef[k] +
                 ((IF del'[t].job = k /\ del'[t].pc \in Pcs THEN 1 ELSE 0)
                  - (IF j = k /\ del[t].pc \in Pcs THEN 1 ELSE 0))
  BY <1>0
<1> USE <1>d, <1>c, <1>n DEF DelRecords, Deleting, Reentering, Return, GoTo, NotDeleting, AddRef
<1>2. CASE DeleteJobStart(t)
  <2>1. CASE /\ del' = [del EXCEPT ![t].pc = "cancel", ![t].port = job[j].pIniPort,
                                   ![t].next = job[j].NextJobId]
             /\ AddRef(j, 1)
    <3>1. del'[t].pc = "cancel" /\ del'[t].job = j BY <2>1
    <3>2. del[t].pc = "start" BY <1>2 DEF DeleteJobStart
    <3> QED BY <2>1, <3>1, <3>2
  <2>2. CASE /\ UNCHANGED cRef
             /\ \/ Return(t)
                \/ del' = [del EXCEPT ![t].pc = "counted", ![t].next = job[j].NextJobId]
    <3>2. del[t].pc = "start" BY <1>2 DEF DeleteJobStart
    <3> QED BY <2>2, <3>2
  <2> QED BY <1>2, <2>1, <2>2 DEF DeleteJobStart
<1>3. CASE DeleteJobCancel(t)
  <2>1. \/ GoTo(t, "control") /\ UNCHANGED cRef
        \/ GoTo(t, "counted") /\ AddRef(j, -1)
    BY <1>3 DEF DeleteJobCancel
  <2>2. del[t].pc = "cancel" BY <1>3 DEF DeleteJobCancel
  <2> QED BY <2>1, <2>2
<1>4. CASE DeleteJobControl(t) BY <1>4 DEF DeleteJobControl
<1>5. CASE DeleteJobReferenced(t) BY <1>5 DEF DeleteJobReferenced
<1>6. CASE DeleteJobShadow(t) BY <1>6 DEF DeleteJobShadow
<1>7. CASE DeleteJobUnlink(t) BY <1>7 DEF DeleteJobUnlink
<1>8. CASE DeleteJobLogged(t) BY <1>8 DEF DeleteJobLogged
<1>9. CASE DeleteJobFree(t) BY <1>9 DEF DeleteJobFree
<1>10. CASE DeleteJobFiles(t)
  BY <1>10, QueuedType DEF DeleteJobFiles, Unchained, TypeInv, TypeOK
<1>11. CASE DeleteJobTraced(t) BY <1>11 DEF DeleteJobTraced, Unchained
<1> HIDE DEF DelRecords, Deleting, Reentering, Return, GoTo, NotDeleting, AddRef
<1> QED BY <1>2, <1>3, <1>4, <1>5, <1>6, <1>7, <1>8, <1>9, <1>10, <1>11 DEF DeleteJob

\* What the ports and their threads hold depends on their threads' places only.
LEMMA SamePortsHold ==
  ASSUME UNCHANGED pt, NEW k,
         \A p \in Ports : /\ port'[p].Status = port[p].Status /\ port'[p].pIniJob = port[p].pIniJob
                          /\ port'[p].Semaphore = port[p].Semaphore
  PROVE  /\ PortsGiven(k)' = PortsGiven(k) /\ PortsWithHandle(k)' = PortsWithHandle(k)
         /\ PortsAlerting(k)' = PortsAlerting(k)
BY DEF PortsGiven, Given, Woken, PortsWithHandle, PortsAlerting

\* DeleteJob's reference is counted when it leaves SplSem and given up after.
LEMMA DeleteJobExact ==
  ASSUME TypeInv, TypeInv', Unchained, Unchained', RefCountExact, NEW t \in Threads, DeleteJob(t)
  PROVE  RefCountExact'
<1> SUFFICES ASSUME NEW k \in Jobs PROVE cRef'[k] = References(k)' BY DEF RefCountExact
<1>1. /\ UNCHANGED <<app, client, pt, sched, waitingList, scheduleList>>
      /\ \A s \in Threads \ {t} : del'[s] = del[s]
  BY DeleteJobMoves
<1>2. /\ PortsGiven(k)' = PortsGiven(k) /\ PortsWithHandle(k)' = PortsWithHandle(k)
      /\ PortsAlerting(k)' = PortsAlerting(k)
  BY <1>1, DeleteJobPorts, SamePortsHold
<1>3. ClientsHolding(k)' = ClientsHolding(k) BY <1>1 DEF ClientsHolding
<1>4. AppRef(k)' = AppRef(k) /\ SchedRef(k)' = SchedRef(k) /\ Lists(k)' = Lists(k)
  BY <1>1 DEF AppRef, AppHolds, SchedRef, Lists, OnWaitingList
<1>5. DeletersOf(k)' \ {t} = DeletersOf(k) \ {t} BY <1>1 DEF DeletersOf
<1>6. OthersHold(NoThread, NoThread, t, k) BY <1>2, <1>3, <1>5 DEF OthersHold
<1>7. cRef'[k] = cRef[k] + (In(t, DeletersOf(k)') - In(t, DeletersOf(k))) BY DeleteJobHolds
<1>8. Held(NoThread, NoThread, t, k)' - Held(NoThread, NoThread, t, k)
        = In(t, DeletersOf(k)') - In(t, DeletersOf(k))
  <2>1. \A x, S : In(x, S) \in Nat BY DEF In
  <2>2. AppRef(k) \in Nat /\ SchedRef(k) \in Nat /\ Lists(k) \in Nat BY DEF AppRef, SchedRef, Lists
  <2> QED BY <1>2, <1>3, <1>4, <2>1, <2>2 DEF Held
<1>9. cRef'[k] \in Int BY DEF TypeInv, TypeOK, JobTypes
<1> QED BY <1>6, <1>7, <1>8, <1>9, Accounts DEF RefCountExact

\* A thread that only calls DeleteJob does not hold the job on its account yet.
LEMMA CallHoldsNothing ==
  ASSUME TypeInv, Unchained, NEW t \in Threads, NEW j, MayDelete(t, j), NEW k \in Jobs
  PROVE  DeletersOf(k)' = DeletersOf(k)
<1>d. del \in [Threads -> DelRecords] BY DEF TypeInv, TypeOK, DeleteTypes
<1>n. NoJob \notin Jobs BY ConstantsAssumption DEF ConstantsAssumption
<1>1. CASE UNCHANGED del BY <1>1 DEF DeletersOf
<1>2. ASSUME NEW leave, Call(t, j, leave) PROVE DeletersOf(k)' = DeletersOf(k)
  <2>1. /\ del[t].pc = "idle" /\ del'[t].pc = "start"
        /\ \A s \in Threads \ {t} : del'[s] = del[s]
    BY <1>d, <1>2 DEF MayDelete, Call
  <2> QED BY <2>1 DEF DeletersOf
<1> QED BY <1>1, <1>2 DEF MayDelete

\* Nobody counts a job that nothing reaches.
LEMMA UnreachableUnused ==
  ASSUME TypeInv, Unchained, PortsGivenJobs, NEW k \in Jobs, Unreachable(k), DeletersOf(k) = {}
  PROVE  References(k) = 0
<1>n. NoJob \notin Jobs /\ NoPort \notin Ports BY ConstantsAssumption DEF ConstantsAssumption
<1>1. Predecessors(k) = {} BY <1>n DEF Predecessors, Unchained
<1>2. PortsGiven(k) = {} BY <1>n DEF PortsGiven, Unreachable, PortsGivenJobs
<1>3. PortsWithHandle(k) = {} /\ PortsAlerting(k) = {}
  BY <1>2 DEF PortsGiven, Given, PortsWithHandle, PortsAlerting
<1>4. Cardinality({}) = 0 BY FS_EmptySet
<1> QED BY <1>1, <1>2, <1>3, <1>4 DEF References, Unreachable, Lists

\* An application counts what it holds of each job.
LEMMA ApplicationHolds ==
  ASSUME TypeInv, Unchained, PortsGivenJobs, RefCountExact, OutOfReach,
         NEW j \in Jobs, NEW k \in Jobs, Application(j)
  PROVE  cRef'[k] = cRef[k] + (AppRef(k)' - AppRef(k))
<1> USE DEF AppRef, AppHolds, AddRef
<1>c. cRef \in [Jobs -> Int] BY DEF TypeInv, TypeOK, JobTypes
<1>a. app \in [Jobs -> AppPcs] BY DEF TypeInv, TypeOK, ThreadTypes
<1>1. CASE StartDocPrinter(j)
  <2>1. app[j] = "idle" /\ app' = [app EXCEPT ![j] = "spooling"] /\ cRef' = [cRef EXCEPT ![j] = 1]
    BY <1>1 DEF StartDocPrinter
  <2>2. Unreachable(j) /\ \A t \in Threads : del[t].job # j
    BY <2>1 DEF OutOfReach, Absent
  <2>3. DeletersOf(j) = {}
    BY <2>2, ConstantsAssumption DEF ConstantsAssumption, DeletersOf, Unchained
  <2>4. cRef[j] = 0 BY <2>2, <2>3, UnreachableUnused DEF RefCountExact
  <2> QED BY <1>a, <1>c, <2>1, <2>4
<1>2. CASE WritePrinter(j) BY <1>c, <1>2 DEF WritePrinter
<1>3. CASE AbortPrinter(j) BY <1>a, <1>c, <1>3 DEF AbortPrinter
<1>4. CASE EndDocPrinter(j) BY <1>a, <1>c, <1>4 DEF EndDocPrinter
<1>5. CASE EndDocRelease(j)
  <2>1. /\ app[j] = "shadow"
        /\ \/ AddRef(j, -1) /\ app' = [app EXCEPT ![j] = "done"]
           \/ UNCHANGED cRef /\ app' = [app EXCEPT ![j] = "log"]
    BY <1>5 DEF EndDocRelease
  <2> QED BY <1>a, <1>c, <2>1
<1>6. CASE EndDocLogged(j) BY <1>a, <1>c, <1>6 DEF EndDocLogged
<1> QED BY <1>1, <1>2, <1>3, <1>4, <1>5, <1>6 DEF Application

\* An application leaves cRef exact.
LEMMA ApplicationExact ==
  ASSUME TypeInv, TypeInv', Unchained, Unchained', PortsGivenJobs, RefCountExact, OutOfReach,
         NEW j \in Jobs, Application(j)
  PROVE  RefCountExact'
<1> SUFFICES ASSUME NEW k \in Jobs PROVE cRef'[k] = References(k)' BY DEF RefCountExact
<1>1. UNCHANGED <<port, client, pt, sched, waitingList, scheduleList>> BY ApplicationMoves
<1>2. /\ PortsGiven(k)' = PortsGiven(k) /\ PortsWithHandle(k)' = PortsWithHandle(k)
      /\ PortsAlerting(k)' = PortsAlerting(k)
  BY <1>1, SamePortsHold
<1>3. ClientsHolding(k)' = ClientsHolding(k) BY <1>1 DEF ClientsHolding
<1>4. SchedRef(k)' = SchedRef(k) /\ Lists(k)' = Lists(k)
  BY <1>1 DEF SchedRef, Lists, OnWaitingList
<1>5. DeletersOf(k)' = DeletersOf(k) BY ApplicationDeletes, CallHoldsNothing DEF Threads
<1>6. OthersHold(NoThread, NoThread, NoThread, k) BY <1>2, <1>3, <1>5 DEF OthersHold
<1>7. cRef'[k] = cRef[k] + (AppRef(k)' - AppRef(k)) BY ApplicationHolds
<1>8. Held(NoThread, NoThread, NoThread, k)' - Held(NoThread, NoThread, NoThread, k)
        = AppRef(k)' - AppRef(k)
  <2>1. \A x, S : In(x, S) \in Nat BY DEF In
  <2>2. AppRef(k) \in Nat /\ AppRef(k)' \in Nat /\ SchedRef(k) \in Nat /\ Lists(k) \in Nat
    BY DEF AppRef, SchedRef, Lists
  <2> QED BY <1>2, <1>3, <1>4, <1>5, <2>1, <2>2 DEF Held
<1>9. cRef'[k] \in Int BY DEF TypeInv, TypeOK, JobTypes
<1> QED BY <1>6, <1>7, <1>8, <1>9, Accounts DEF RefCountExact

\* A client moves nobody but itself.
LEMMA ClientAlone ==
  ASSUME TypeInv, NEW c \in Clients, Client(c)
  PROVE  \A d \in Clients \ {c} : client'[d] = client[d]
<1>0. client \in [Clients -> ClientRecords] BY DEF TypeInv, TypeOK, ThreadTypes
<1> USE <1>0 DEF ClientGoesTo, Begin
<1>1. ASSUME NEW j \in Jobs,
             \/ \E command \in AllCommands : SetJobTrace(c, j, command)
             \/ SetJobDelete(c, j) \/ SetJobCancel(c, j) \/ \E n \in Jobs : SetJobChain(c, j, n)
      PROVE  \A d \in Clients \ {c} : client'[d] = client[d]
  BY <1>1 DEF SetJobTrace, SetJobDelete, SetJobCancel, SetJobChain
<1>2. CASE PauseOrResumeJob(c) BY <1>2 DEF PauseOrResumeJob
<1>3. CASE PauseOrResumePort(c) BY <1>3 DEF PauseOrResumePort
<1>4. CASE RestartJob(c) BY <1>4 DEF RestartJob
<1>5. CASE SetPrinterUnblock(c) \/ SetJobAlerted(c) \/ ControlPrintProcessor(c)
           \/ PauseOrResumeLogged(c) \/ SetJobTail(c)
  BY <1>5 DEF SetPrinterUnblock, SetJobAlerted, ControlPrintProcessor, PauseOrResumeLogged,
              SetJobTail
<1> HIDE DEF ClientGoesTo, Begin
<1> QED BY <1>1, <1>2, <1>3, <1>4, <1>5 DEF Client

\* A client counts what it holds of each job.
LEMMA ClientHolds ==
  ASSUME TypeInv, NoChains, NEW c \in Clients, NEW k \in Jobs, Client(c)
  PROVE  cRef'[k] = cRef[k] + (In(c, ClientsHolding(k)') - In(c, ClientsHolding(k)))
<1> DEFINE Pcs == {"trace", "capture", "control", "log", "alert"}
<1>c. cRef \in [Jobs -> Int] BY DEF TypeInv, TypeOK, JobTypes
<1>l. client \in [Clients -> ClientRecords] BY DEF TypeInv, TypeOK, ThreadTypes
<1>n. NoJob \notin Jobs BY ConstantsAssumption DEF ConstantsAssumption
<1>1. SUFFICES cRef'[k] = cRef[k] +
                 ((IF client'[c].job = k /\ client'[c].pc \in Pcs THEN 1 ELSE 0)
                  - (IF client[c].job = k /\ client[c].pc \in Pcs THEN 1 ELSE 0))
  BY DEF In, ClientsHolding
<1> USE <1>c, <1>l, <1>n DEF ClientRecords, SetJob, Begin, ClientGoesTo, NoCall, AddRef
<1>2. ASSUME NEW j \in Jobs, NEW command \in AllCommands, SetJobTrace(c, j, command)
      PROVE  cRef'[k] = cRef[k] +
                 ((IF client'[c].job = k /\ client'[c].pc \in Pcs THEN 1 ELSE 0)
                  - (IF client[c].job = k /\ client[c].pc \in Pcs THEN 1 ELSE 0))
  BY <1>2 DEF SetJobTrace
<1>3. ASSUME NEW j \in Jobs, SetJobDelete(c, j)
      PROVE  cRef'[k] = cRef[k] +
                 ((IF client'[c].job = k /\ client'[c].pc \in Pcs THEN 1 ELSE 0)
                  - (IF client[c].job = k /\ client[c].pc \in Pcs THEN 1 ELSE 0))
  BY <1>3 DEF SetJobDelete
<1>4. ASSUME NEW j \in Jobs, SetJobCancel(c, j)
      PROVE  cRef'[k] = cRef[k] +
                 ((IF client'[c].job = k /\ client'[c].pc \in Pcs THEN 1 ELSE 0)
                  - (IF client[c].job = k /\ client[c].pc \in Pcs THEN 1 ELSE 0))
  <2>1. \/ AddRef(j, 1) /\ Begin(c, "alert", j, "CANCEL")
        \/ UNCHANGED cRef /\ Begin(c, "tail", j, "CANCEL")
    BY <1>4 DEF SetJobCancel
  <2>2. client[c].pc = "idle" BY <1>4 DEF SetJobCancel
  <2> QED BY <2>1, <2>2
<1>5. \A j, n : ~ SetJobChain(c, j, n) BY DEF NoChains, SetJobChain
<1>6. CASE SetPrinterUnblock(c) BY <1>6 DEF SetPrinterUnblock
<1>7. CASE SetJobAlerted(c) BY <1>7 DEF SetJobAlerted
<1>8. CASE PauseOrResumeJob(c)
  <2>1. /\ UNCHANGED cRef /\ client[c].pc = "trace"
        /\ \/ \E p : client' = [client EXCEPT ![c].pc = "capture", ![c].port = p]
           \/ ClientGoesTo(c, "log")
    BY <1>8 DEF PauseOrResumeJob
  <2> QED BY <2>1
<1>9. CASE PauseOrResumePort(c)
  <2>1. /\ UNCHANGED cRef /\ client[c].pc = "capture"
        /\ ClientGoesTo(c, "control") \/ ClientGoesTo(c, "log")
    BY <1>9 DEF PauseOrResumePort
  <2> QED BY <2>1
<1>10. CASE ControlPrintProcessor(c) BY <1>10 DEF ControlPrintProcessor
<1>11. CASE PauseOrResumeLogged(c) BY <1>11 DEF PauseOrResumeLogged
<1>12. CASE RestartJob(c)
  <2>1. /\ AddRef(client[c].job, -1) /\ client[c].pc = "trace"
        /\ client' = [client EXCEPT ![c] = NoCall] \/ ClientGoesTo(c, "tail")
    BY <1>12 DEF RestartJob
  <2> QED BY <2>1
<1>13. CASE SetJobTail(c) BY <1>13 DEF SetJobTail
<1> HIDE DEF ClientRecords, SetJob, Begin, ClientGoesTo, NoCall, AddRef
<1> QED
  BY <1>2, <1>3, <1>4, <1>5, <1>6, <1>7, <1>8, <1>9, <1>10, <1>11, <1>12, <1>13 DEF Client

\* A client leaves cRef exact.
LEMMA ClientExact ==
  ASSUME TypeInv, TypeInv', NoChains, Unchained, Unchained', RefCountExact,
         NEW c \in Clients, Client(c)
  PROVE  RefCountExact'
<1> SUFFICES ASSUME NEW k \in Jobs PROVE cRef'[k] = References(k)' BY DEF RefCountExact
<1>1. UNCHANGED <<app, pt, sched, waitingList, scheduleList>> BY ClientMoves
<1>2. /\ PortsGiven(k)' = PortsGiven(k) /\ PortsWithHandle(k)' = PortsWithHandle(k)
      /\ PortsAlerting(k)' = PortsAlerting(k)
  BY <1>1, ClientPorts, SamePortsHold
<1>3. ClientsHolding(k)' \ {c} = ClientsHolding(k) \ {c} BY ClientAlone DEF ClientsHolding
<1>4. AppRef(k)' = AppRef(k) /\ SchedRef(k)' = SchedRef(k) /\ Lists(k)' = Lists(k)
  BY <1>1 DEF AppRef, AppHolds, SchedRef, Lists, OnWaitingList
<1>5. DeletersOf(k)' = DeletersOf(k) BY ClientDeletes, CallHoldsNothing DEF Threads
<1>6. OthersHold(c, NoThread, NoThread, k) BY <1>2, <1>3, <1>5 DEF OthersHold
<1>7. cRef'[k] = cRef[k] + (In(c, ClientsHolding(k)') - In(c, ClientsHolding(k))) BY ClientHolds
<1>8. Held(c, NoThread, NoThread, k)' - Held(c, NoThread, NoThread, k)
        = In(c, ClientsHolding(k)') - In(c, ClientsHolding(k))
  <2>1. \A x, S : In(x, S) \in Nat BY DEF In
  <2>2. AppRef(k) \in Nat /\ SchedRef(k) \in Nat /\ Lists(k) \in Nat BY DEF AppRef, SchedRef, Lists
  <2> QED BY <1>2, <1>4, <1>5, <2>1, <2>2 DEF Held
<1>9. cRef'[k] \in Int BY DEF TypeInv, TypeOK, JobTypes
<1> QED BY <1>6, <1>7, <1>8, <1>9, Accounts DEF RefCountExact

----------------------------------------------------------------------------
(* What the thread of a port holds.                                         *)

\* The references of a port's thread at pc, beside that of the assignment.
Handles(pc) ==
  (IF pc \in {"taken", "read", "again", "readwait", "write", "closejob",
              "sent", "alert", "tail", "ended", "log", "shadow"} THEN 1 ELSE 0)
  + (IF pc = "alert" THEN 1 ELSE 0)

\* What port p holds of job k: as the port it was given to, for its thread's handles and
\* for an alert.
PortHeld(p, k) == In(p, PortsGiven(k)) + In(p, PortsWithHandle(k)) + In(p, PortsAlerting(k))

\* The same, read off the thread's place in the code.
LEMMA PortHolds ==
  ASSUME NEW p \in Ports, NEW k
  PROVE  /\ PortHeld(p, k) = (IF Given(p, k) THEN 1 ELSE 0)
                             + (IF pt[p].job = k THEN Handles(pt[p].pc) ELSE 0)
         /\ PortHeld(p, k)' = (IF Given(p, k)' THEN 1 ELSE 0)
                              + (IF pt'[p].job = k THEN Handles(pt'[p].pc) ELSE 0)
<1> USE DEF In, PortsGiven, PortsWithHandle, PortsAlerting, Handles
<1>1. PortHeld(p, k) = (IF Given(p, k) THEN 1 ELSE 0)
                       + (IF pt[p].job = k THEN Handles(pt[p].pc) ELSE 0)
  BY DEF PortHeld
<1>2. PortHeld(p, k)' = (IF Given(p, k)' THEN 1 ELSE 0)
                        + (IF pt'[p].job = k THEN Handles(pt'[p].pc) ELSE 0)
  BY DEF PortHeld
<1> QED BY <1>1, <1>2

\* The thread of a port moves no other port.
LEMMA PortThreadAlone ==
  ASSUME TypeInv, NEW p \in Ports, PortThread(p)
  PROVE  \A q \in Ports \ {p} : port'[q] = port[q] /\ pt'[q] = pt[q]
<1>p. port \in [Ports -> PortRecords] BY DEF TypeInv, TypeOK, GlobalTypes
<1>t. pt \in [Ports -> PtRecords] BY DEF TypeInv, TypeOK, ThreadTypes
<1> USE <1>p, <1>t DEF PortGoesTo
<1>1. CASE \/ PortThreadWaits(p) \/ PortThreadTakes(p) \/ PortThreadBegins(p) \/ DevQueryPrint(p)
           \/ ReadPrinterWakes(p) \/ WritePort(p) \/ ClosePrinter(p)
  BY <1>1 DEF PortThreadWaits, PortThreadTakes, PortThreadBegins, DevQueryPrint, ReadPrinterWakes,
              WritePort, ClosePrinter
<1>2. CASE PortThreadExits(p)
  BY <1>2 DEF PortThreadExits
<1>3. CASE OpenPrintProcessor(p) \/ PrintRawJob(p) BY <1>3 DEF OpenPrintProcessor, PrintRawJob
<1>4. CASE ReadPrinter(p) \/ ReadPrinterTimesOut(p) BY <1>4 DEF ReadPrinter, ReadPrinterTimesOut
<1>5. CASE EndDocPort(p) \/ SentToPrinterAlerted(p) \/ SentToPrinterTail(p)
  BY <1>5 DEF EndDocPort, SentToPrinterAlerted, SentToPrinterTail
<1>6. CASE SentToPrinter(p)
  <2>1. UNCHANGED port /\ \E pc : PortGoesTo(p, pc) BY <1>6 DEF SentToPrinter
  <2> QED BY <2>1
<1>7. CASE \/ EndDocPortDone(p) \/ PrintDone(p) \/ ClosePrintProcessor(p)
           \/ DiscardJobFromPortThread(p)
  BY <1>7 DEF EndDocPortDone, PrintDone, ClosePrintProcessor, DiscardJobFromPortThread
<1>8. CASE PortThreadFinishes(p)
  <2>1. (\E i : port' = [port EXCEPT ![p].pIniJob = i]) /\ \E pc : PortGoesTo(p, pc)
    BY <1>8 DEF PortThreadFinishes
  <2> QED BY <2>1
<1>9. CASE PortThreadKeeps(p)
  <2>1. UNCHANGED port /\ \E pc : PortGoesTo(p, pc) BY <1>9 DEF PortThreadKeeps
  <2> QED BY <2>1
<1>10. CASE PortThreadReleases(p) BY <1>10 DEF PortThreadReleases
<1> HIDE DEF PortGoesTo
<1> QED BY <1>1, <1>2, <1>3, <1>4, <1>5, <1>6, <1>7, <1>8, <1>9, <1>10 DEF PortThread

\* One step of a thread that has a job, from one place to the next.
LEMMA PrintsOnHolds ==
  ASSUME TypeInv, NEW p \in Ports, NEW k \in Jobs, PrintsOn(p)
  PROVE  cRef'[k] = cRef[k] + (IF pt[p].job = k THEN Handles(pt'[p].pc) - Handles(pt[p].pc) ELSE 0)
<1> DEFINE j == pt[p].job
<1>c. cRef \in [Jobs -> Int] BY DEF TypeInv, TypeOK, JobTypes
<1>t. pt \in [Ports -> PtRecords] BY DEF TypeInv, TypeOK, ThreadTypes
<1>0. \A pc : Handles(pc) \in Int BY DEF Handles
<1>1. ASSUME NEW from, NEW to, pt[p].pc = from, pt'[p].pc = to,
             NEW d \in Int, AddRef(j, d), Handles(to) = Handles(from) + d
      PROVE  cRef'[k] = cRef[k] + (IF j = k THEN Handles(pt'[p].pc) - Handles(pt[p].pc) ELSE 0)
  <2>1. cRef'[k] = cRef[k] + (IF j = k THEN d ELSE 0) BY <1>c, <1>1 DEF AddRef
  <2> QED BY <1>0, <1>1, <2>1
<1>2. ASSUME UNCHANGED cRef, Handles(pt'[p].pc) = Handles(pt[p].pc)
      PROVE  cRef'[k] = cRef[k] + (IF j = k THEN Handles(pt'[p].pc) - Handles(pt[p].pc) ELSE 0)
  BY <1>c, <1>0, <1>2
<1>3. ASSUME NEW pc, PortGoesTo(p, pc) PROVE pt'[p].pc = pc
  BY <1>t, <1>3 DEF PortGoesTo, PtRecords
<1>4. CASE PortThreadBegins(p)
  <2>1. pt[p].pc = "taken" /\ AddRef(j, -1) /\ PortGoesTo(p, "devq")
    BY <1>4 DEF PortThreadBegins, PortAt
  <2> QED BY <1>1, <1>3, <2>1 DEF Handles
<1>5. CASE DevQueryPrint(p)
  <2>1. pt[p].pc = "devq" /\ UNCHANGED cRef BY <1>5 DEF DevQueryPrint
  <2>2. pt'[p].pc \in {"open", "post"} BY <1>t, <1>5 DEF DevQueryPrint, PortGoesTo, PtRecords
  <2> QED BY <1>2, <2>1, <2>2 DEF Handles
<1>6. CASE OpenPrintProcessor(p)
  <2>1. /\ pt[p].pc = "open" /\ UNCHANGED cRef
        /\ PortGoesTo(p, "print") \/ PortGoesTo(p, "discard")
    BY <1>6 DEF OpenPrintProcessor, PortAt
  <2> QED BY <1>2, <1>3, <2>1 DEF Handles
<1>7. CASE PrintRawJob(p)
  <2>1. /\ pt[p].pc = "print"
        /\ \/ PortGoesTo(p, "read") /\ AddRef(j, 1)
           \/ pt'[p].pc = "close" /\ UNCHANGED cRef
    BY <1>t, <1>7 DEF PrintRawJob, PortAt, PtRecords
  <2> QED BY <1>1, <1>2, <1>3, <2>1 DEF Handles
<1>8. CASE ReadPrinter(p)
  <2>1. /\ pt[p].pc \in {"read", "again"} /\ UNCHANGED cRef
        /\ \E pc \in {"closejob", "readwait", "write"} : PortGoesTo(p, pc)
    BY <1>8 DEF ReadPrinter, PortAt
  <2> QED BY <1>2, <1>3, <2>1 DEF Handles
<1>9. CASE ReadPrinterWakes(p)
  <2>1. pt[p].pc = "readwait" /\ UNCHANGED cRef /\ PortGoesTo(p, "again")
    BY <1>9 DEF ReadPrinterWakes
  <2> QED BY <1>2, <1>3, <2>1 DEF Handles
<1>10. CASE ReadPrinterTimesOut(p)
  <2>1. /\ pt[p].pc = "readwait" /\ UNCHANGED cRef
        /\ \E pc \in {"closejob", "again"} : PortGoesTo(p, pc)
    BY <1>10 DEF ReadPrinterTimesOut, PortAt
  <2> QED BY <1>2, <1>3, <2>1 DEF Handles
<1>11. CASE WritePort(p)
  <2>1. /\ pt[p].pc = "write" /\ UNCHANGED cRef
        /\ \E pc \in {"closejob", "read"} : PortGoesTo(p, pc)
    BY <1>11 DEF WritePort
  <2> QED BY <1>2, <1>3, <2>1 DEF Handles
<1>12. CASE ClosePrinter(p)
  <2>1. pt[p].pc = "closejob" /\ AddRef(j, -1) /\ PortGoesTo(p, "enddoc")
    BY <1>12 DEF ClosePrinter, PortAt
  <2> QED BY <1>1, <1>3, <2>1 DEF Handles
<1>13. CASE EndDocPort(p)
  <2>1. pt[p].pc = "enddoc" /\ AddRef(j, 1) /\ PortGoesTo(p, "sent")
    BY <1>13 DEF EndDocPort, PortAt
  <2> QED BY <1>1, <1>3, <2>1 DEF Handles
<1>14. CASE SentToPrinter(p)
  <2>1. /\ pt[p].pc = "sent"
        /\ \/ PortGoesTo(p, "alert") /\ AddRef(j, 1)
           \/ PortGoesTo(p, "tail") /\ UNCHANGED cRef
    BY <1>14 DEF SentToPrinter, PortAt
  <2> QED BY <1>1, <1>2, <1>3, <2>1 DEF Handles
<1>15. CASE SentToPrinterAlerted(p)
  <2>1. pt[p].pc = "alert" /\ AddRef(j, -1) /\ PortGoesTo(p, "tail")
    BY <1>15 DEF SentToPrinterAlerted, PortAt
  <2> QED BY <1>1, <1>3, <2>1 DEF Handles
<1>16. CASE SentToPrinterTail(p)
  <2>1. pt[p].pc = "tail" /\ UNCHANGED cRef /\ PortGoesTo(p, "ended")
    BY <1>16 DEF SentToPrinterTail
  <2> QED BY <1>2, <1>3, <2>1 DEF Handles
<1>17. CASE EndDocPortDone(p)
  <2>1. pt[p].pc = "ended" /\ AddRef(j, -1) /\ PortGoesTo(p, "close")
    BY <1>17 DEF EndDocPortDone, PortAt
  <2> QED BY <1>1, <1>3, <2>1 DEF Handles
<1>18. CASE PrintDone(p)
  <2>1. pt[p].pc = "close" /\ UNCHANGED cRef /\ PortGoesTo(p, "closeproc")
    BY <1>18 DEF PrintDone, PortAt
  <2> QED BY <1>2, <1>3, <2>1 DEF Handles
<1>19. CASE ClosePrintProcessor(p)
  <2>1. /\ pt[p].pc = "closeproc" /\ UNCHANGED cRef
        /\ \E pc \in {"discard", "post"} : PortGoesTo(p, pc)
    BY <1>19 DEF ClosePrintProcessor
  <2> QED BY <1>2, <1>3, <2>1 DEF Handles
<1>20. CASE DiscardJobFromPortThread(p)
  <2>1. pt[p].pc = "discard" /\ UNCHANGED cRef /\ PortGoesTo(p, "post")
    BY <1>20 DEF DiscardJobFromPortThread, PortAt
  <2> QED BY <1>2, <1>3, <2>1 DEF Handles
<1>21. CASE PortThreadKeeps(p)
  <2> DEFINE d == IF pt[p].pc = "log" THEN 1 ELSE 0
  <2>1. /\ pt[p].pc \in {"log", "keep"}
        /\ \/ PortGoesTo(p, "shadow") /\ AddRef(j, 1 - d)
           \/ PortGoesTo(p, "release") /\ AddRef(j, 0 - d)
    BY <1>21 DEF PortThreadKeeps, PortAt
  <2>2. d \in {0, 1} /\ 1 - d \in Int /\ 0 - d \in Int OBVIOUS
  <2>3. Handles(pt[p].pc) = d BY <2>1 DEF Handles
  <2>4. Handles("shadow") = d + (1 - d) /\ Handles("release") = d + (0 - d) BY <2>2 DEF Handles
  <2> HIDE DEF d
  <2> QED BY <1>1, <1>3, <2>1, <2>2, <2>3, <2>4
<1> HIDE DEF j
<1> QED
  BY <1>4, <1>5, <1>6, <1>7, <1>8, <1>9, <1>10, <1>11, <1>12, <1>13, <1>14, <1>15, <1>16, <1>17,
     <1>18, <1>19, <1>20, <1>21 DEF PrintsOn

\* A step of a port's thread counts what the thread and the schedule list hold.
LEMMA PortThreadHolds ==
  ASSUME TypeInv, Ownership, Unchained, PortsGivenJobs, NEW p \in Ports, NEW k \in Jobs,
         PortThread(p)
  PROVE  cRef'[k] = cRef[k] + (PortHeld(p, k)' - PortHeld(p, k)) + (Lists(k)' - Lists(k))
<1>p. port \in [Ports -> PortRecords] BY DEF TypeInv, TypeOK, GlobalTypes
<1>t. pt \in [Ports -> PtRecords] BY DEF TypeInv, TypeOK, ThreadTypes
<1>c. cRef \in [Jobs -> Int] BY DEF TypeInv, TypeOK, JobTypes
<1>n. NoJob \notin Jobs BY ConstantsAssumption DEF ConstantsAssumption
<1>h. PortHandshake BY DEF Ownership
<1>0. /\ PortHeld(p, k) = (IF Given(p, k) THEN 1 ELSE 0)
                          + (IF pt[p].job = k THEN Handles(pt[p].pc) ELSE 0)
      /\ PortHeld(p, k)' = (IF Given(p, k)' THEN 1 ELSE 0)
                           + (IF pt'[p].job = k THEN Handles(pt'[p].pc) ELSE 0)
      /\ Lists(k) \in Int /\ Lists(k)' \in Int
      /\ \A pc : Handles(pc) \in Int
  BY PortHolds DEF Lists, Handles
<1> HIDE DEF PortHeld
<1>1. UNCHANGED waitingList BY PortThreadMoves
<1>2. UNCHANGED scheduleList => Lists(k)' = Lists(k) BY <1>1 DEF Lists, OnWaitingList
<1>3. CASE PortThreadWaits(p)
  <2>1. /\ pt[p].pc \in {"started", "top"} /\ UNCHANGED <<cRef, scheduleList>>
        /\ pt'[p].pc = "wait" /\ pt'[p].job = pt[p].job
        /\ port'[p].Semaphore = port[p].Semaphore
    BY <1>p, <1>t, <1>3 DEF PortThreadWaits, PortAt, Hold, PortGoesTo, listVars, PtRecords, PortRecords
  <2>2. pt[p].job = NoJob /\ ~ port[p].Semaphore BY <1>h, <2>1 DEF PortHandshake, Jobless
  <2>3. ~ Given(p, k) /\ ~ Given(p, k)' BY <1>n, <2>1, <2>2 DEF Given, Woken
  <2> QED BY <1>c, <1>n, <1>0, <1>2, <2>1, <2>2, <2>3
<1>4. CASE PortThreadExits(p)
  <2>1. /\ pt[p].pc = "wait" /\ UNCHANGED <<cRef, scheduleList>> /\ ~ Woken(p)
        /\ pt'[p].pc = "none" /\ pt'[p].job = pt[p].job
    BY <1>t, <1>4 DEF PortThreadExits, PortAt, Woken, PortGoesTo, listVars, PtRecords
  <2>2. pt[p].job = NoJob BY <1>h, <2>1 DEF PortHandshake, Jobless
  <2>3. ~ Given(p, k) /\ ~ Given(p, k)' BY <1>n, <2>1, <2>2 DEF Given, Woken
  <2> QED BY <1>c, <1>n, <1>0, <1>2, <2>1, <2>2, <2>3
<1>5. CASE PortThreadTakes(p)
  <2> DEFINE j == port[p].pIniJob
  <2>1. /\ Woken(p) /\ UNCHANGED scheduleList /\ AddRef(j, 1)
        /\ pt[p].pc = "wait" /\ pt'[p].pc = "taken" /\ pt'[p].job = j
    BY <1>t, <1>5 DEF PortThreadTakes, PortAt, Woken, listVars, PortThreadAt
  <2>2. pt[p].job = NoJob BY <1>h, <2>1 DEF PortHandshake, Jobless
  <2>3. Given(p, k) <=> k = j BY <1>n, <2>1, <2>2 DEF Given
  <2>4. Given(p, k)' <=> k = j BY <1>n, <2>1 DEF Given, Woken
  <2>5. cRef'[k] = cRef[k] + (IF k = j THEN 1 ELSE 0) BY <1>c, <2>1 DEF AddRef
  <2>6. Handles("taken") = 1 BY DEF Handles
  <2> HIDE DEF j
  <2> QED BY <1>c, <1>n, <1>0, <1>2, <2>1, <2>2, <2>3, <2>4, <2>5, <2>6
<1>6. CASE PortThreadFinishes(p)
  <2> DEFINE j == pt[p].job
             listed == j \in scheduleList
  <2>1. PICK logged \in BOOLEAN :
          /\ pt[p].pc = "post" /\ scheduleList' = scheduleList \ {j}
          /\ AddRef(j, (IF listed THEN -1 ELSE 0) + (IF logged THEN 1 ELSE 0))
          /\ PortGoesTo(p, IF logged THEN "log" ELSE "keep")
    BY <1>6 DEF PortThreadFinishes, PortAt
  <2>2. pt'[p].pc = (IF logged THEN "log" ELSE "keep") /\ pt'[p].job = j
    BY <1>t, <2>1 DEF PortGoesTo, PtRecords
  <2>3. (Given(p, k) <=> k = j) /\ (Given(p, k)' <=> k = j) BY <2>1, <2>2 DEF Given, Woken
  <2>4. cRef'[k] = cRef[k] + (IF k = j THEN (IF listed THEN -1 ELSE 0) + (IF logged THEN 1 ELSE 0)
                              ELSE 0)
    BY <1>c, <2>1 DEF AddRef
  <2>5. Lists(k)' - Lists(k) = IF k = j /\ listed THEN -1 ELSE 0
    BY <1>1, <2>1 DEF Lists, OnWaitingList
  <2>6. Handles("post") = 0 /\ Handles("log") = 1 /\ Handles("keep") = 0 BY DEF Handles
  <2>7. PortHeld(p, k)' - PortHeld(p, k) = IF k = j /\ logged THEN 1 ELSE 0
    BY <1>0, <2>1, <2>2, <2>3, <2>6
  <2>8. PortHeld(p, k) \in Int /\ PortHeld(p, k)' \in Int BY <1>0
  <2> HIDE DEF j, listed
  <2> QED BY <1>c, <1>0, <2>4, <2>5, <2>7, <2>8
<1>7. CASE PortThreadReleases(p)
  <2> DEFINE j == pt[p].job
             d == IF pt[p].pc = "shadow" THEN 1 ELSE 0
  <2>1. /\ pt[p].pc \in {"shadow", "release"} /\ UNCHANGED scheduleList
        /\ AddRef(j, 0 - 1 - d)
        /\ pt'[p].pc = "top" /\ pt'[p].job = NoJob
    BY <1>t, <1>7 DEF PortThreadReleases, PortAt, Hold, listVars, PortThreadAt
  <2>3. (Given(p, k) <=> k = j) /\ ~ Given(p, k)' BY <1>n, <2>1 DEF Given, Woken
  <2>4. cRef'[k] = cRef[k] + (IF k = j THEN 0 - 1 - d ELSE 0) BY <1>c, <2>1 DEF AddRef
  <2>5. Handles(pt[p].pc) = d BY <2>1 DEF Handles
  <2>6. d \in Int OBVIOUS
  <2> HIDE DEF j, d
  <2>7. (j = k) <=> (pt[p].job = k) BY DEF j
  <2>8. PortHeld(p, k)' = 0 BY <1>n, <1>0, <2>1, <2>3
  <2>9. PortHeld(p, k) = IF k = j THEN 1 + d ELSE 0 BY <1>0, <2>3, <2>5, <2>7
  <2> QED BY <1>c, <1>0, <1>2, <2>1, <2>4, <2>6, <2>8, <2>9
<1>8. CASE PrintsOn(p)
  <2>1. UNCHANGED scheduleList
    BY <1>8 DEF PrintsOn, listVars, PortThreadBegins, DevQueryPrint, OpenPrintProcessor,
       PrintRawJob, ReadPrinter, ReadPrinterWakes, ReadPrinterTimesOut, WritePort, ClosePrinter,
       EndDocPort, SentToPrinter, SentToPrinterAlerted, SentToPrinterTail, EndDocPortDone,
       PrintDone, ClosePrintProcessor, DiscardJobFromPortThread, PortThreadKeeps
  <2>2. cRef'[k] = cRef[k] + (IF pt[p].job = k THEN Handles(pt'[p].pc) - Handles(pt[p].pc) ELSE 0)
    BY <1>8, PrintsOnHolds
  <2>3. pt'[p].job = pt[p].job /\ (Given(p, k)' <=> Given(p, k))
    BY <1>8, PrintsOnQuiet DEF Quiet, Given, Woken, Jobless
  <2> QED BY <1>c, <1>0, <1>2, <2>1, <2>2, <2>3
<1> QED BY <1>3, <1>4, <1>5, <1>6, <1>7, <1>8 DEF PortThread, PrintsOn

\* A port thread leaves cRef exact.
LEMMA PortThreadExact ==
  ASSUME TypeInv, TypeInv', Ownership, Unchained, Unchained', PortsGivenJobs, RefCountExact,
         NEW p \in Ports, PortThread(p)
  PROVE  RefCountExact'
<1> SUFFICES ASSUME NEW k \in Jobs PROVE cRef'[k] = References(k)' BY DEF RefCountExact
<1>1. UNCHANGED <<app, client, sched, waitingList>> BY PortThreadMoves
<1>2. /\ PortsGiven(k)' \ {p} = PortsGiven(k) \ {p}
      /\ PortsWithHandle(k)' \ {p} = PortsWithHandle(k) \ {p}
      /\ PortsAlerting(k)' \ {p} = PortsAlerting(k) \ {p}
  BY PortThreadAlone DEF PortsGiven, Given, Woken, PortsWithHandle, PortsAlerting
<1>3. ClientsHolding(k)' = ClientsHolding(k) BY <1>1 DEF ClientsHolding
<1>4. AppRef(k)' = AppRef(k) /\ SchedRef(k)' = SchedRef(k)
  BY <1>1 DEF AppRef, AppHolds, SchedRef
<1>5. DeletersOf(k)' = DeletersOf(k) BY PortThreadDeletes, CallHoldsNothing DEF Threads
<1>6. OthersHold(NoThread, p, NoThread, k) BY <1>2, <1>3, <1>5 DEF OthersHold
<1>7. cRef'[k] = cRef[k] + (PortHeld(p, k)' - PortHeld(p, k)) + (Lists(k)' - Lists(k))
  BY PortThreadHolds
<1>8. Held(NoThread, p, NoThread, k)' - Held(NoThread, p, NoThread, k)
        = (PortHeld(p, k)' - PortHeld(p, k)) + (Lists(k)' - Lists(k))
  <2>1. \A x, S : In(x, S) \in Nat BY DEF In
  <2>2. AppRef(k) \in Nat /\ SchedRef(k) \in Nat /\ Lists(k) \in Nat /\ Lists(k)' \in Nat
    BY DEF AppRef, SchedRef, Lists
  <2> QED BY <1>3, <1>4, <1>5, <2>1, <2>2 DEF Held, PortHeld
<1>9. cRef \in [Jobs -> Int] /\ cRef'[k] \in Int BY DEF TypeInv, TypeOK, JobTypes
<1>10. PortHeld(p, k) \in Int /\ PortHeld(p, k)' \in Int /\ Lists(k) \in Int /\ Lists(k)' \in Int
  BY DEF PortHeld, In, Lists
<1>11. cRef'[k] = cRef[k] + (Held(NoThread, p, NoThread, k)' - Held(NoThread, p, NoThread, k))
  <2> HIDE DEF PortHeld, Held, Lists
  <2> QED BY <1>7, <1>8, <1>9, <1>10
<1> QED BY <1>6, <1>9, <1>11, Accounts DEF RefCountExact

----------------------------------------------------------------------------
(* What the scheduler and its lists hold.                                   *)

\* The ports that were given a job are known from the job itself.
LEMMA GivenFromJob ==
  ASSUME PortsGivenJobs, PortsGivenJobs', NEW k \in Jobs
  PROVE  /\ PortsGiven(k) = {p \in Ports : job[k].pIniPort = p}
         /\ PortsGiven(k)' = {p \in Ports : job'[k].pIniPort = p}
BY DEF PortsGiven, PortsGivenJobs

\* What the scheduler's step must count: the port p it gives a job to, the job
\* it logs, and its two lists.
SchedulerCount(p, k) ==
  cRef'[k] = cRef[k] + (In(p, PortsGiven(k)') - In(p, PortsGiven(k)))
             + (SchedRef(k)' - SchedRef(k)) + (Lists(k)' - Lists(k))

\* The threads of the ports hold what they held.
LEMMA SchedulerHandles ==
  ASSUME TypeInv, Ownership, SchedulerThread, NEW k \in Jobs
  PROVE  PortsWithHandle(k)' = PortsWithHandle(k) /\ PortsAlerting(k)' = PortsAlerting(k)
<1>t. pt \in [Ports -> PtRecords] BY DEF TypeInv, TypeOK, ThreadTypes
<1>n. NoJob \notin Jobs BY ConstantsAssumption DEF ConstantsAssumption
<1>1. ASSUME NEW p \in Ports, CreatePortThread(p)
      PROVE  PortsWithHandle(k)' = PortsWithHandle(k) /\ PortsAlerting(k)' = PortsAlerting(k)
  <2>1. pt' = [pt EXCEPT ![p].pc = "started"] /\ "THREADRUNNING" \notin port[p].Status
        /\ sched.pc # "create"
    BY <1>1 DEF CreatePortThread, CheckPort, SchedulerAt
  <2>2. pt[p].pc = "none" /\ pt[p].job = NoJob BY <2>1 DEF Ownership, PortHandshake, Jobless
  <2>3. pt'[p].job = NoJob /\ \A q \in Ports \ {p} : pt'[q] = pt[q]
    BY <1>t, <2>1, <2>2 DEF PtRecords
  <2> QED BY <1>n, <2>2, <2>3 DEF PortsWithHandle, PortsAlerting
<1>2. CASE UNCHANGED pt BY <1>2 DEF PortsWithHandle, PortsAlerting
<1> QED
  BY <1>1, <1>2
  DEF SchedulerThread, SchedulerWakes, UpdateJobList, NoFirstJob, NoMoreByMemory, AbandonLogged,
      PortThreadGone, PortThreadReady, SchedulerSleeps, JobExpires, DropWaitingJob,
      ScheduleFirstJob, ScheduleByMemory, ScheduleFromWaitingList, SchedulePort, AbandonJob,
      DestroyPortThread, SkipPort

\* A job given to a port is counted there, and once more on the schedule list.
LEMMA AssignCounted ==
  ASSUME TypeInv, Ownership, PortsGivenJobs, PortsGivenJobs', sched'.job = sched.job,
         NEW p \in Ports, NEW j \in Jobs, Schedulable(j), NEW d \in Int, AssignJob(p, j, d),
         NEW k \in Jobs, Lists(k)' = Lists(k) + (IF k = j THEN d ELSE 0)
  PROVE  SchedulerCount(p, k) /\ PortsGiven(k)' \ {p} = PortsGiven(k) \ {p}
<1>c. cRef \in [Jobs -> Int] BY DEF TypeInv, TypeOK, JobTypes
<1>n. NoPort \notin Ports BY ConstantsAssumption DEF ConstantsAssumption
<1>1. cRef'[k] = cRef[k] + (IF k = j THEN 1 + d ELSE 0) BY <1>c DEF AssignJob, AddRef
<1>2. SchedRef(k)' = SchedRef(k) /\ SchedRef(k) \in Int BY DEF SchedRef
<1>3. job[j].pIniPort = NoPort BY SchedulableFree
<1>4. CASE k = j
  <2>1. PortsGiven(k) = {} BY <1>n, <1>3, <1>4, GivenFromJob
  <2>2. PortsGiven(k)' = {p} BY <1>4, AssignJobJob, GivenFromJob
  <2>3. In(p, PortsGiven(k)) = 0 /\ In(p, PortsGiven(k)') = 1 BY <2>1, <2>2 DEF In
  <2>4. Lists(k) \in Int BY DEF Lists
  <2> HIDE DEF PortsGiven, Lists
  <2> QED BY <1>c, <1>1, <1>2, <1>4, <2>1, <2>2, <2>3, <2>4 DEF SchedulerCount
<1>5. CASE k # j
  <2>1. PortsGiven(k)' = PortsGiven(k) BY <1>5, AssignJobJob, GivenFromJob
  <2>2. In(p, PortsGiven(k)) \in Int /\ Lists(k) \in Int BY DEF In, Lists
  <2> HIDE DEF PortsGiven, Lists
  <2> QED BY <1>c, <1>1, <1>2, <1>5, <2>1, <2>2 DEF SchedulerCount
<1> QED BY <1>4, <1>5

\* The scheduler counts the port, the list and itself for each job.
LEMMA SchedulerHolds ==
  ASSUME TypeInv, Ownership, Unchained, SchedulersJob, ListsOnce, PortsGivenJobs, PortsGivenJobs',
         NEW k \in Jobs, SchedulerThread
  PROVE  \E p : SchedulerCount(p, k) /\ PortsGiven(k)' \ {p} = PortsGiven(k) \ {p}
<1> DEFINE Goal == \E p : SchedulerCount(p, k) /\ PortsGiven(k)' \ {p} = PortsGiven(k) \ {p}
<1>c. cRef \in [Jobs -> Int] BY DEF TypeInv, TypeOK, JobTypes
<1>s. sched \in SchedRecords BY DEF TypeInv, TypeOK, ThreadTypes
<1>n. NoJob \notin Jobs /\ NoPort \notin Ports BY ConstantsAssumption DEF ConstantsAssumption
<1>0. /\ In(NoPort, PortsGiven(k)) \in Int /\ SchedRef(k) \in Int /\ SchedRef(k)' \in Int
      /\ Lists(k) \in Int /\ Lists(k)' \in Int
  BY DEF In, SchedRef, Lists
\* A step that gives no job to a port.
<1>1. ASSUME SamePorts, cRef'[k] = cRef[k] + (SchedRef(k)' - SchedRef(k)) + (Lists(k)' - Lists(k))
      PROVE  Goal
  <2>1. PortsGiven(k)' = PortsGiven(k) BY <1>1, GivenFromJob DEF SamePorts
  <2> QED BY <1>c, <1>0, <1>1, <2>1 DEF SchedulerCount
<1>2. UNCHANGED job => SamePorts BY DEF SamePorts
<1>3. UNCHANGED <<waitingList, scheduleList>> => Lists(k)' = Lists(k) BY DEF Lists, OnWaitingList
<1>4. sched'.job = sched.job => SchedRef(k)' = SchedRef(k) BY DEF SchedRef
<1>5. ASSUME \/ SchedulerWakes \/ UpdateJobList \/ NoFirstJob \/ NoMoreByMemory
             \/ PortThreadGone \/ PortThreadReady \/ SchedulerSleeps
             \/ \E p \in Ports : CreatePortThread(p) \/ SkipPort(p)
      PROVE  Goal
  <2>1. UNCHANGED <<job, cRef, waitingList, scheduleList>>
    BY <1>5 DEF SchedulerWakes, UpdateJobList, NoFirstJob, NoMoreByMemory, PortThreadGone,
                PortThreadReady, SchedulerSleeps, CreatePortThread, SkipPort, listVars
  <2>2. sched'.job = sched.job
    BY <1>s, <1>5 DEF SchedulerWakes, UpdateJobList, NoFirstJob, NoMoreByMemory, PortThreadGone,
                PortThreadReady, SchedulerSleeps, CreatePortThread, SkipPort, SchedRecords, NextPort
  <2> QED BY <1>c, <1>0, <1>1, <1>2, <1>3, <1>4, <2>1, <2>2
<1>6. ASSUME NEW j \in Jobs, JobExpires(j) PROVE Goal
  <2>1. /\ scheduleList' = scheduleList \ {j} /\ j \in scheduleList /\ AddRef(j, -1)
        /\ UNCHANGED <<job, waitingList, sched>>
    BY <1>6 DEF JobExpires
  <2>2. cRef'[k] = cRef[k] + (IF k = j THEN -1 ELSE 0) BY <1>c, <2>1 DEF AddRef
  <2>3. Lists(k)' - Lists(k) = IF k = j THEN -1 ELSE 0 BY <2>1 DEF Lists, OnWaitingList
  <2> QED BY <1>c, <1>0, <1>1, <1>2, <1>4, <2>1, <2>2, <2>3
<1>7. ASSUME NEW j \in Jobs, DropWaitingJob(j) PROVE Goal
  <2>1. /\ waitingList' = Without(waitingList, j) /\ OnWaitingList(j) /\ AddRef(j, -1)
        /\ UNCHANGED <<job, scheduleList, sched>>
    BY <1>7 DEF DropWaitingJob
  <2>2. cRef'[k] = cRef[k] + (IF k = j THEN -1 ELSE 0) BY <1>c, <2>1 DEF AddRef
  <2>3. OnWaitingList(k)' <=> OnWaitingList(k) /\ k # j BY <2>1, WithoutWaits
  <2>4. Lists(k)' - Lists(k) = IF k = j THEN -1 ELSE 0 BY <2>1, <2>3 DEF Lists
  <2> QED BY <1>c, <1>0, <1>1, <1>2, <1>4, <2>1, <2>2, <2>4
<1>8. ASSUME NEW p \in Ports, ScheduleFirstJob(p) \/ ScheduleByMemory(p) PROVE Goal
  <2>1. PICK j \in FirstFromWaitingList(Jobs) \cup FirstFromWaitingList(Fitting) :
          ScheduleFromWaitingList(j, p)
    BY <1>8 DEF ScheduleFirstJob, ScheduleByMemory
  <2>2. j \in Jobs /\ OnWaitingList(j) BY ChosenJobs
  <2>3. Required[j] > 0 BY <2>2 DEF ListsOnce
  <2>4. sched'.job = sched.job BY <1>s, <1>8 DEF ScheduleFirstJob, ScheduleByMemory, SchedRecords
  <2> DEFINE d == IF j \in scheduleList THEN -1 ELSE 0
  <2>5. /\ Schedulable(j) /\ waitingList' = Without(waitingList, j) /\ AssignJob(p, j, d)
        /\ scheduleList' = scheduleList \cup {j}
    BY <2>1, <2>3 DEF ScheduleFromWaitingList, Assignable, AddToScheduleList
  <2>6. OnWaitingList(k)' <=> OnWaitingList(k) /\ k # j BY <2>5, WithoutWaits
  <2>7. Lists(k)' = Lists(k) + (IF k = j THEN d ELSE 0) BY <2>2, <2>5, <2>6 DEF Lists
  <2>8. d \in Int OBVIOUS
  <2> HIDE DEF d
  <2> QED BY <2>2, <2>4, <2>5, <2>7, <2>8, AssignCounted
<1>9. ASSUME NEW p \in Ports, SchedulePort(p) PROVE Goal
  <2>0. Ready(p) /\ sched.pc # "destroy" BY <1>9 DEF SchedulePort, CheckPort, SchedulerAt
  <2> DEFINE d == IF scheduleList' = scheduleList THEN 0 ELSE 1
  <2>1. PICK j \in Candidate(p) : AddToScheduleList(j) /\ AssignJob(p, j, d)
    BY <1>9 DEF SchedulePort
  <2>2. j \in Jobs /\ Schedulable(j)
    BY <2>0, ReadyPort, ChosenJobs, <1>n
  <2>3. sched'.job = sched.job /\ UNCHANGED waitingList
    BY <1>s, <1>9 DEF SchedulePort, NextPort, SchedRecords
  <2>4. \/ UNCHANGED scheduleList /\ d = 0
        \/ scheduleList' = scheduleList \cup {j} /\ j \notin scheduleList /\ d = 1
    BY <2>1 DEF AddToScheduleList
  <2>5. Lists(k)' = Lists(k) + (IF k = j THEN d ELSE 0)
    BY <2>3, <2>4 DEF Lists, OnWaitingList
  <2>6. d \in Int OBVIOUS
  <2> HIDE DEF d
  <2> QED BY <2>1, <2>2, <2>3, <2>5, <2>6, AssignCounted
<1>10. ASSUME NEW p \in Ports, AbandonJob(p) PROVE Goal
  <2> DEFINE j == port[p].pIniJob
  <2>1. /\ AddRef(j, 1) /\ sched' = [NextPort(p) EXCEPT !.pc = "abandon", !.job = j]
        /\ UNCHANGED <<job, waitingList, scheduleList>> /\ sched.pc = "ports"
    BY <1>10 DEF AbandonJob, CheckPort, SchedulerAt, listVars
  <2>2. sched'.job = j BY <1>s, <2>1 DEF NextPort, SchedRecords
  <2>3. sched.job = NoJob BY <2>1 DEF SchedulersJob
  <2>4. cRef'[k] = cRef[k] + (IF k = j THEN 1 ELSE 0) BY <1>c, <2>1 DEF AddRef
  <2>5. SchedRef(k)' - SchedRef(k) = IF k = j THEN 1 ELSE 0 BY <1>n, <2>2, <2>3 DEF SchedRef
  <2> HIDE DEF j
  <2> QED BY <1>c, <1>0, <1>1, <1>2, <1>3, <2>1, <2>4, <2>5
<1>11. ASSUME AbandonLogged PROVE Goal
  <2> DEFINE j == sched.job
  <2>1. /\ AddRef(j, -1) /\ sched'.job = NoJob /\ UNCHANGED <<waitingList, scheduleList>>
    BY <1>s, <1>11 DEF AbandonLogged, listVars, SchedRecords
  <2>2. SamePorts
    <3>1. job \in [Jobs -> JobRecords] BY DEF TypeInv, TypeOK, JobTypes
    <3> QED BY <3>1, <1>11 DEF AbandonLogged, JobRecords, SamePorts
  <2>4. cRef'[k] = cRef[k] + (IF k = j THEN -1 ELSE 0) BY <1>c, <2>1 DEF AddRef
  <2>5. SchedRef(k)' - SchedRef(k) = IF k = j THEN -1 ELSE 0 BY <1>n, <2>1 DEF SchedRef
  <2> HIDE DEF j
  <2> QED BY <1>c, <1>0, <1>1, <1>3, <2>1, <2>2, <2>4, <2>5
<1>12. ASSUME NEW p \in Ports, DestroyPortThread(p) PROVE Goal
  <2> DEFINE waiter == {j \in Candidate(p) : ~ OnWaitingList(j)}
  <2>1. /\ waitingList' = IF waiter = {} THEN waitingList
                          ELSE Append(waitingList, CHOOSE j \in waiter : TRUE)
        /\ cRef' = [j \in Jobs |-> IF j \in waiter THEN cRef[j] + 1 ELSE cRef[j]]
        /\ UNCHANGED <<job, scheduleList>>
    BY <1>12, Zenon DEF DestroyPortThread
  <2>2. Ready(p) /\ sched.pc = "ports" BY <1>12 DEF DestroyPortThread, CheckPort, SchedulerAt
  <2>3. sched'.job = sched.job BY <1>s, <1>12 DEF DestroyPortThread, NextPort, SchedRecords
  <2>4. Candidate(p) = AssignFreeJobToFreePort BY <2>2, ReadyPort DEF Candidate
  <2>5. \A i, j \in waiter : i = j BY <2>4, AssignsOnce
  <2>6. waiter \subseteq Jobs BY ChoiceType
  <2>7. OnWaitingList(k)' <=> OnWaitingList(k) \/ k \in waiter
    <3>1. CASE waiter = {} BY <2>1, <3>1 DEF OnWaitingList
    <3>2. CASE waiter # {}
      <4>1. PICK j \in waiter : waitingList' = Append(waitingList, j) BY <2>1, <3>2
      <4>2. j \in Jobs /\ ~ Holds(waitingList, j) BY <2>6 DEF OnWaitingList, Holds
      <4>3. waitingList \in Seq(Jobs) /\ Once(waitingList)
        BY DEF TypeInv, TypeOK, ListTypes, ListsOnce
      <4>4. Holds(waitingList', k) <=> k = j \/ Holds(waitingList, k)
        BY <4>1, <4>2, <4>3, AppendOnce
      <4>5. k \in waiter <=> k = j BY <2>5
      <4> QED BY <4>4, <4>5 DEF OnWaitingList, Holds
    <3> QED BY <3>1, <3>2
  <2>8. k \in waiter => ~ OnWaitingList(k) OBVIOUS
  <2>9. cRef'[k] = cRef[k] + (IF k \in waiter THEN 1 ELSE 0) BY <1>c, <2>1
  <2> HIDE DEF waiter
  <2>10. Lists(k)' - Lists(k) = IF k \in waiter THEN 1 ELSE 0 BY <2>1, <2>7, <2>8 DEF Lists
  <2>11. cRef'[k] = cRef[k] + (SchedRef(k)' - SchedRef(k)) + (Lists(k)' - Lists(k))
    BY <1>c, <1>0, <1>4, <2>3, <2>9, <2>10
  <2> QED BY <1>1, <1>2, <2>1, <2>11
<1> HIDE DEF Goal
<1>13. Goal
  BY <1>5, <1>6, <1>7, <1>8, <1>9, <1>10, <1>11, <1>12 DEF SchedulerThread
<1> QED BY <1>13 DEF Goal

\* The scheduler leaves cRef exact.
LEMMA SchedulerExact ==
  ASSUME TypeInv, TypeInv', Ownership, Unchained, Unchained', SchedulersJob, ListsOnce,
         PortsGivenJobs, PortsGivenJobs', RefCountExact, SchedulerThread
  PROVE  RefCountExact'
<1> SUFFICES ASSUME NEW k \in Jobs PROVE cRef'[k] = References(k)' BY DEF RefCountExact
<1>1. UNCHANGED <<app, client, del>> BY SchedulerMoves
<1>2. PICK p : SchedulerCount(p, k) /\ PortsGiven(k)' \ {p} = PortsGiven(k) \ {p}
  BY SchedulerHolds
<1>3. PortsWithHandle(k)' = PortsWithHandle(k) /\ PortsAlerting(k)' = PortsAlerting(k)
  BY SchedulerHandles
<1>4. ClientsHolding(k)' = ClientsHolding(k) /\ DeletersOf(k)' = DeletersOf(k)
  BY <1>1 DEF ClientsHolding, DeletersOf
<1>5. AppRef(k)' = AppRef(k) BY <1>1 DEF AppRef, AppHolds
<1>6. OthersHold(NoThread, p, NoThread, k) BY <1>2, <1>3, <1>4 DEF OthersHold
<1>7. cRef \in [Jobs -> Int] /\ cRef'[k] \in Int BY DEF TypeInv, TypeOK, JobTypes
<1>8. cRef'[k] = cRef[k] + (Held(NoThread, p, NoThread, k)' - Held(NoThread, p, NoThread, k))
  <2>1. \A x, S : In(x, S) \in Nat BY DEF In
  <2>2. /\ AppRef(k) \in Nat /\ SchedRef(k) \in Nat /\ SchedRef(k)' \in Nat
        /\ Lists(k) \in Nat /\ Lists(k)' \in Nat
    BY DEF AppRef, SchedRef, Lists
  <2>3. cRef'[k] = cRef[k] + (In(p, PortsGiven(k)') - In(p, PortsGiven(k)))
                   + (SchedRef(k)' - SchedRef(k)) + (Lists(k)' - Lists(k))
    BY <1>2 DEF SchedulerCount
  <2> QED BY <1>3, <1>4, <1>5, <1>7, <2>1, <2>2, <2>3 DEF Held
<1> QED BY <1>6, <1>7, <1>8, Accounts DEF RefCountExact

----------------------------------------------------------------------------
(* What is unlinked, freed or not there yet is out of everybody's reach.    *)

\* Nobody may come to job j any more.
Gone(j) == Absent(j) \/ Unlinked(j)

\* A step that brings nothing to an end and reaches for nothing that is gone.
Reaches(k) ==
  /\ Gone(k)' => Gone(k)
  /\ Absent(k)' => Absent(k)
  /\ Gone(k) /\ Unreachable(k) => Unreachable(k)'
  /\ Gone(k) => \A t \in Threads : del'[t].job = k => del[t].job = k

\* A job that is gone stays out of reach where every job that somebody comes to is not
\* gone.
LEMMA StaysOutOfReach ==
  ASSUME OutOfReach, \A k \in Jobs : Reaches(k) \/ ~ Gone(k)'
  PROVE  OutOfReach'
BY DEF OutOfReach, Reaches, Gone

\* A call of DeleteJob unlinks nothing yet.
LEMMA CallUnlinksNothing ==
  ASSUME TypeInv, NEW t \in Threads, NEW j, MayDelete(t, j), NEW k \in Jobs
  PROVE  /\ Unlinked(k)' => Unlinked(k)
         /\ \A s \in Threads : del'[s].job = k => del[s].job = k \/ (k = j /\ ~ UNCHANGED del)
<1>d. del \in [Threads -> DelRecords] BY DEF TypeInv, TypeOK, DeleteTypes
<1>1. CASE UNCHANGED del BY <1>1 DEF Unlinked
<1>2. ASSUME NEW leave, Call(t, j, leave), ~ UNCHANGED del
      PROVE  /\ Unlinked(k)' => Unlinked(k)
             /\ \A s \in Threads : del'[s].job = k => del[s].job = k \/ (k = j /\ ~ UNCHANGED del)
  <2>1. /\ del'[t].pc = "start" /\ del'[t].job = j
        /\ \A s \in Threads \ {t} : del'[s] = del[s]
    BY <1>d, <1>2 DEF Call
  <2> QED BY <1>2, <2>1 DEF Unlinked
<1> QED BY <1>1, <1>2 DEF MayDelete

\* An application that does anything but begin already holds its job.
LEMMA ApplicationSpools ==
  ASSUME TypeInv, NEW j \in Jobs, Application(j)
  PROVE  /\ \A k \in Jobs : app'[k] = "idle" => app[k] = "idle"
         /\ \A k \in Jobs \ {j} : app'[k] = app[k]
         /\ ~ StartDocPrinter(j) => AppHolds(j)
<1>a. app \in [Jobs -> AppPcs] BY DEF TypeInv, TypeOK, ThreadTypes
<1> USE <1>a DEF AppHolds
<1>1. CASE StartDocPrinter(j) BY <1>1 DEF StartDocPrinter
<1>2. CASE WritePrinter(j) BY <1>2 DEF WritePrinter
<1>3. CASE AbortPrinter(j) BY <1>3 DEF AbortPrinter
<1>4. CASE EndDocPrinter(j) BY <1>4 DEF EndDocPrinter
<1>5. CASE EndDocRelease(j)
  <2>1. app[j] = "shadow" /\ \E pc \in {"done", "log"} : app' = [app EXCEPT ![j] = pc]
    BY <1>5 DEF EndDocRelease
  <2> QED BY <2>1
<1>6. CASE EndDocLogged(j) BY <1>6 DEF EndDocLogged
<1> QED BY <1>1, <1>2, <1>3, <1>4, <1>5, <1>6 DEF Application

\* An application comes to no job that is gone,
LEMMA ApplicationOutOfReach ==
  ASSUME TypeInv, Ownership, ListsOnce, OutOfReach, NEW j \in Jobs, Application(j)
  PROVE  OutOfReach'
<1>m. UNCHANGED <<client, sched, waitingList, scheduleList>> BY ApplicationMoves
<1>s. SamePorts /\ StillFreed BY ApplicationSamePorts
<1>q. UNCHANGED queue \/ (StartDocPrinter(j) /\ Queued' = Queued \cup {j}) BY ApplicationQueue
<1>d. MayDelete(j, j) /\ j \in Threads BY ApplicationDeletes DEF Threads
<1>1. ASSUME NEW k \in Jobs \ {j} PROVE Reaches(k)
  <2>1. Absent(k)' => Absent(k) BY <1>s, ApplicationSpools DEF Absent, StillFreed
  <2>2. /\ Unlinked(k)' => Unlinked(k)
        /\ \A s \in Threads : del'[s].job = k => del[s].job = k
    BY <1>d, CallUnlinksNothing
  <2>3. k \in Queued' => k \in Queued BY <1>q DEF Queued
  <2>4. AppHolds(k)' => AppHolds(k) BY ApplicationSpools DEF AppHolds
  <2>5. Unreachable(k) => Unreachable(k)'
    BY <1>m, <1>s, <2>3, <2>4 DEF Unreachable, ClientsHolding, OnWaitingList, SamePorts
  <2> QED BY <2>1, <2>2, <2>5 DEF Reaches, Gone
<1>2. CASE StartDocPrinter(j)
  <2>1. app[j] = "idle" /\ app'[j] = "spooling" /\ job'[j].signature = "IJ_SIGNATURE"
        /\ UNCHANGED del
    BY <1>2 DEF StartDocPrinter, TypeInv, TypeOK, ThreadTypes, JobTypes, JobRecords
  <2>2. \A t \in Threads : del[t].job # j BY <2>1 DEF OutOfReach, Absent
  <2>3. ~ Gone(j)' BY <2>1, <2>2 DEF Gone, Absent, Freed, Unlinked
  <2> QED BY <1>1, <2>3, StaysOutOfReach
<1>3. CASE ~ StartDocPrinter(j)
  <2>1. ~ Gone(j) BY <1>3, ApplicationSpools DEF OutOfReach, Gone, Unreachable
  <2>2. Absent(j)' => Absent(j) BY <1>s, ApplicationSpools DEF Absent, StillFreed
  <2>3. Unlinked(j)' => Unlinked(j) BY <1>d, CallUnlinksNothing
  <2>4. ~ Gone(j)' BY <2>1, <2>2, <2>3 DEF Gone
  <2> QED BY <1>1, <2>4, StaysOutOfReach
<1> QED BY <1>2, <1>3

\* A client takes hold of a job it found in the queue.
LEMMA ClientReaches ==
  ASSUME TypeInv, NoChains, NEW c \in Clients, Client(c), NEW k \in Jobs, c \in ClientsHolding(k)'
  PROVE  c \in ClientsHolding(k) \/ k \in Queued
<1> DEFINE Pcs == {"trace", "capture", "control", "log", "alert"}
<1>l. client \in [Clients -> ClientRecords] BY DEF TypeInv, TypeOK, ThreadTypes
<1>n. NoJob \notin Jobs BY ConstantsAssumption DEF ConstantsAssumption
<1>0. client'[c].job = k /\ client'[c].pc \in Pcs BY DEF ClientsHolding
<1>1. SUFFICES (client[c].job = k /\ client[c].pc \in Pcs) \/ k \in Queued BY DEF ClientsHolding
<1> USE <1>l, <1>n, <1>0 DEF ClientRecords, SetJob, Begin, ClientGoesTo, NoCall
<1>2. ASSUME NEW j \in Jobs, \E command \in AllCommands : SetJobTrace(c, j, command)
      PROVE  k \in Queued
  BY <1>2 DEF SetJobTrace
<1>3. ASSUME NEW j \in Jobs, SetJobDelete(c, j) PROVE k \in Queued
  BY <1>3 DEF SetJobDelete
<1>4. ASSUME NEW j \in Jobs, SetJobCancel(c, j) PROVE k \in Queued
  <2>1. j \in Queued /\ \E pc : Begin(c, pc, j, "CANCEL") BY <1>4 DEF SetJobCancel
  <2> QED BY <2>1
<1>5. \A j, n : ~ SetJobChain(c, j, n) BY DEF NoChains, SetJobChain
<1>6. CASE SetPrinterUnblock(c) BY <1>6 DEF SetPrinterUnblock
<1>7. CASE SetJobAlerted(c) BY <1>7 DEF SetJobAlerted
<1>8. CASE PauseOrResumeJob(c)
  <2>1. /\ client[c].pc = "trace"
        /\ \/ \E p : client' = [client EXCEPT ![c].pc = "capture", ![c].port = p]
           \/ ClientGoesTo(c, "log")
    BY <1>8 DEF PauseOrResumeJob
  <2> QED BY <2>1
<1>9. CASE PauseOrResumePort(c)
  <2>1. client[c].pc = "capture" /\ \E pc : ClientGoesTo(c, pc) BY <1>9 DEF PauseOrResumePort
  <2> QED BY <2>1
<1>10. CASE ControlPrintProcessor(c) BY <1>10 DEF ControlPrintProcessor
<1>11. CASE PauseOrResumeLogged(c) BY <1>11 DEF PauseOrResumeLogged
<1>12. CASE RestartJob(c)
  <2>1. client[c].pc = "trace" /\ (client' = [client EXCEPT ![c] = NoCall] \/ ClientGoesTo(c, "tail"))
    BY <1>12 DEF RestartJob
  <2> QED BY <2>1
<1>13. CASE SetJobTail(c) BY <1>13 DEF SetJobTail
<1> HIDE DEF ClientRecords, SetJob, Begin, ClientGoesTo, NoCall
<1> QED
  BY <1>2, <1>3, <1>4, <1>5, <1>6, <1>7, <1>8, <1>9, <1>10, <1>11, <1>12, <1>13 DEF Client

\* nor does a client: it finds jobs in the queue or holds a reference,
LEMMA ClientOutOfReach ==
  ASSUME TypeInv, NoChains, OutOfReach, NEW c \in Clients, Client(c)
  PROVE  OutOfReach'
<1> SUFFICES ASSUME NEW k \in Jobs PROVE Reaches(k) BY StaysOutOfReach
<1>m. UNCHANGED <<queue, app, sched, waitingList, scheduleList>> BY ClientMoves
<1>s. SamePorts /\ StillFreed BY ClientSamePorts
<1>1. PICK j : MayDelete(c, j) /\ (j \in Queued \/ c \in ClientsHolding(j) \/ UNCHANGED del)
  BY ClientDeletes
<1>2. /\ Unlinked(k)' => Unlinked(k)
      /\ \A s \in Threads : del'[s].job = k => del[s].job = k \/ (k = j /\ ~ UNCHANGED del)
  BY <1>1, CallUnlinksNothing DEF Threads
<1>3. Gone(k) /\ k = j => UNCHANGED del BY <1>1 DEF OutOfReach, Gone, Unreachable
<1>4. Absent(k)' => Absent(k) BY <1>m, <1>s DEF Absent, StillFreed
<1>5. Unreachable(k) => ClientsHolding(k)' = {}
  <2>1. k \notin Queued /\ ClientsHolding(k) = {} => c \notin ClientsHolding(k)' BY ClientReaches
  <2>2. ClientsHolding(k)' \ {c} = ClientsHolding(k) \ {c} BY ClientAlone DEF ClientsHolding
  <2> QED BY <2>1, <2>2 DEF Unreachable
<1>6. Unreachable(k) => Unreachable(k)'
  BY <1>m, <1>s, <1>5 DEF Unreachable, AppHolds, OnWaitingList, Queued, SamePorts
<1> QED BY <1>2, <1>3, <1>4, <1>6 DEF Reaches, Gone

\* The thread of a port frees no job and gives none to a port.
LEMMA PortThreadTakesAway ==
  ASSUME TypeInv, Unchained, NEW p \in Ports, PortThread(p)
  PROVE  /\ StillFreed /\ scheduleList' \subseteq scheduleList
         /\ \A k \in Jobs : job'[k].pIniPort \in {NoPort, job[k].pIniPort}
<1>j. job \in [Jobs -> JobRecords] BY DEF TypeInv, TypeOK, JobTypes
<1>1. CASE PrintsOn(p)
  <2>1. UNCHANGED scheduleList
    BY <1>1 DEF PrintsOn, listVars, PortThreadBegins, DevQueryPrint, OpenPrintProcessor,
       PrintRawJob, ReadPrinter, ReadPrinterWakes, ReadPrinterTimesOut, WritePort, ClosePrinter,
       EndDocPort, SentToPrinter, SentToPrinterAlerted, SentToPrinterTail, EndDocPortDone,
       PrintDone, ClosePrintProcessor, DiscardJobFromPortThread, PortThreadKeeps
  <2> QED BY <1>1, <2>1, PrintsOnStays DEF SamePorts
<1>2. CASE PortThreadFinishes(p)
  <2>1. /\ job' = [job EXCEPT ![pt[p].job].pCurrentIniJob = NextInChain(pt[p].job)]
        /\ scheduleList' = scheduleList \ {pt[p].job}
    BY <1>2 DEF PortThreadFinishes
  <2> QED BY <1>j, <2>1 DEF JobRecords, StillFreed, Freed
<1>3. CASE PortThreadReleases(p)
  BY <1>j, <1>3 DEF PortThreadReleases, listVars, JobRecords, StillFreed, Freed
<1>4. CASE UNCHANGED <<job, scheduleList>> BY <1>4 DEF StillFreed, Freed
<1> QED
  BY <1>1, <1>2, <1>3, <1>4
  DEF PortThread, PrintsOn, PortThreadWaits, PortThreadExits, PortThreadTakes, listVars

\* nor a port thread: its handle or the port's count keeps its job,
LEMMA PortThreadOutOfReach ==
  ASSUME TypeInv, Unchained, PortsGivenJobs, OutOfReach, NEW p \in Ports, PortThread(p)
  PROVE  OutOfReach'
<1> SUFFICES ASSUME NEW k \in Jobs PROVE Reaches(k) BY StaysOutOfReach
<1>m. UNCHANGED <<queue, app, client, sched, waitingList>> BY PortThreadMoves
<1>n. NoPort \notin Ports BY ConstantsAssumption DEF ConstantsAssumption
<1>1. MayDelete(p, pt[p].job) BY PortThreadDeletes
<1>2. /\ Unlinked(k)' => Unlinked(k)
      /\ \A s \in Threads : del'[s].job = k => del[s].job = k \/ (k = pt[p].job /\ ~ UNCHANGED del)
  BY <1>1, CallUnlinksNothing DEF Threads
<1>3. k = pt[p].job => ~ Gone(k)
  BY <1>n DEF OutOfReach, Gone, Unreachable, PortsGivenJobs, Given
<1>4. Absent(k)' => Absent(k) BY <1>m, PortThreadTakesAway DEF Absent, StillFreed
<1>5. Unreachable(k) => Unreachable(k)'
  BY <1>m, PortThreadTakesAway
  DEF Unreachable, AppHolds, ClientsHolding, OnWaitingList, Queued
<1> QED BY <1>2, <1>3, <1>4, <1>5 DEF Reaches, Gone

\* What the scheduler takes hold of was queued, was waiting, or is on a port.
LEMMA SchedulerReaches ==
  ASSUME TypeInv, Ownership, ListsOnce, PortsGivenJobs, SchedulersJob, SchedulerThread, NEW k \in Jobs,
         Unreachable(k)
  PROVE  /\ job'[k].pIniPort = NoPort /\ sched'.job # k
         /\ ~ OnWaitingList(k)' /\ k \notin scheduleList'
<1>j. job \in [Jobs -> JobRecords] BY DEF TypeInv, TypeOK, JobTypes
<1>s. sched \in SchedRecords BY DEF TypeInv, TypeOK, ThreadTypes
<1>n. NoJob \notin Jobs /\ NoPort \notin Ports BY ConstantsAssumption DEF ConstantsAssumption
<1>0. /\ job[k].pIniPort = NoPort /\ sched.job # k
      /\ ~ OnWaitingList(k) /\ k \notin scheduleList /\ k \notin Queued
  BY DEF Unreachable
<1> USE DEF listVars
<1>1. CASE \/ SchedulerWakes \/ UpdateJobList \/ NoFirstJob \/ NoMoreByMemory \/ PortThreadGone
           \/ PortThreadReady \/ SchedulerSleeps
           \/ \E p \in Ports : CreatePortThread(p) \/ SkipPort(p)
  <2>1. UNCHANGED <<job, waitingList, scheduleList>>
    BY <1>1 DEF SchedulerWakes, UpdateJobList, NoFirstJob, NoMoreByMemory, PortThreadGone,
                PortThreadReady, SchedulerSleeps, CreatePortThread, SkipPort
  <2>2. sched'.job = sched.job
    BY <1>s, <1>1 DEF SchedulerWakes, UpdateJobList, NoFirstJob, NoMoreByMemory, PortThreadGone,
                PortThreadReady, SchedulerSleeps, CreatePortThread, SkipPort, SchedRecords, NextPort
  <2> QED BY <1>0, <2>1, <2>2 DEF OnWaitingList
<1>2. CASE \E j \in Jobs : JobExpires(j)
  BY <1>0, <1>2 DEF JobExpires, OnWaitingList
<1>3. ASSUME NEW j \in Jobs, DropWaitingJob(j)
      PROVE  /\ job'[k].pIniPort = NoPort /\ sched'.job # k
             /\ ~ OnWaitingList(k)' /\ k \notin scheduleList'
  <2>1. OnWaitingList(k)' => OnWaitingList(k) BY <1>3, WithoutWaits DEF DropWaitingJob
  <2> QED BY <1>0, <1>3, <2>1 DEF DropWaitingJob
<1>4. ASSUME NEW p \in Ports, ScheduleFirstJob(p) \/ ScheduleByMemory(p)
      PROVE  /\ job'[k].pIniPort = NoPort /\ sched'.job # k
             /\ ~ OnWaitingList(k)' /\ k \notin scheduleList'
  <2>1. PICK j \in FirstFromWaitingList(Jobs) \cup FirstFromWaitingList(Fitting) :
          ScheduleFromWaitingList(j, p)
    BY <1>4 DEF ScheduleFirstJob, ScheduleByMemory
  <2>2. j \in Jobs /\ OnWaitingList(j) BY ChosenJobs
  <2>3. sched'.job = sched.job BY <1>s, <1>4 DEF ScheduleFirstJob, ScheduleByMemory, SchedRecords
  <2>4. /\ waitingList' = Without(waitingList, j) /\ (\E d : AssignJob(p, j, d))
        /\ scheduleList' \subseteq scheduleList \cup {j}
    BY <2>1 DEF ScheduleFromWaitingList, AddToScheduleList
  <2>5. ~ OnWaitingList(k)' BY <1>0, <2>4, WithoutWaits
  <2>6. job'[k].pIniPort = NoPort BY <1>0, <2>2, <2>4, AssignJobJob
  <2> QED BY <1>0, <2>2, <2>3, <2>4, <2>5, <2>6
<1>5. ASSUME NEW p \in Ports, SchedulePort(p)
      PROVE  /\ job'[k].pIniPort = NoPort /\ sched'.job # k
             /\ ~ OnWaitingList(k)' /\ k \notin scheduleList'
  <2>0. Ready(p) /\ sched.pc # "destroy" BY <1>5 DEF SchedulePort, CheckPort, SchedulerAt
  <2>1. PICK j \in Candidate(p) : AddToScheduleList(j) /\ \E d : AssignJob(p, j, d)
    BY <1>5 DEF SchedulePort
  <2>2. j \in Eligible BY <2>0, ReadyPort, ChoiceType DEF Candidate
  <2>3. j \in Queued /\ j \in Jobs BY <2>2, ChoiceType DEF Eligible
  <2>4. sched'.job = sched.job /\ UNCHANGED waitingList
    BY <1>s, <1>5 DEF SchedulePort, NextPort, SchedRecords
  <2>5. scheduleList' \subseteq scheduleList \cup {j} BY <2>1 DEF AddToScheduleList
  <2>6. job'[k].pIniPort = NoPort BY <1>0, <2>1, <2>3, AssignJobJob
  <2> QED BY <1>0, <2>3, <2>4, <2>5, <2>6 DEF OnWaitingList
<1>6. ASSUME NEW p \in Ports, AbandonJob(p)
      PROVE  /\ job'[k].pIniPort = NoPort /\ sched'.job # k
             /\ ~ OnWaitingList(k)' /\ k \notin scheduleList'
  <2>1. /\ sched'.job = port[p].pIniJob /\ UNCHANGED <<job, waitingList, scheduleList>>
        /\ port[p].pIniJob # NoJob
    BY <1>s, <1>6 DEF AbandonJob, NextPort, SchedRecords, MustAbandon, Busy
  <2>2. port[p].pIniJob = k => Given(p, k) BY <1>n DEF PortsGivenJobs, Given
  <2>3. port[p].pIniJob # k BY <1>0, <1>n, <2>2 DEF PortsGivenJobs
  <2> QED BY <1>0, <2>1, <2>3 DEF OnWaitingList
<1>7. CASE AbandonLogged
  <2>1. sched'.job = NoJob /\ UNCHANGED <<waitingList, scheduleList>>
    BY <1>s, <1>7 DEF AbandonLogged, SchedRecords
  <2>2. job'[k].pIniPort = job[k].pIniPort BY <1>j, <1>7 DEF AbandonLogged, JobRecords
  <2> QED BY <1>0, <1>n, <2>1, <2>2 DEF OnWaitingList
<1>8. ASSUME NEW p \in Ports, DestroyPortThread(p)
      PROVE  /\ job'[k].pIniPort = NoPort /\ sched'.job # k
             /\ ~ OnWaitingList(k)' /\ k \notin scheduleList'
  <2>0. Ready(p) /\ sched.pc # "destroy" BY <1>8 DEF DestroyPortThread, CheckPort, SchedulerAt
  <2>1. \/ UNCHANGED waitingList
        \/ \E j \in Candidate(p) : waitingList' = Append(waitingList, j) /\ ~ OnWaitingList(j)
    BY <1>8, Zenon DEF DestroyPortThread
  <2>2. \A j \in Candidate(p) : j \in Queued /\ j \in Jobs
    BY <2>0, ReadyPort, ChoiceType DEF Candidate, Eligible
  <2>3. sched'.job = sched.job /\ UNCHANGED <<job, scheduleList>>
    BY <1>s, <1>8 DEF DestroyPortThread, NextPort, SchedRecords
  <2>4. ~ OnWaitingList(k)'
    <3>1. CASE UNCHANGED waitingList BY <1>0, <3>1 DEF OnWaitingList
    <3>2. ASSUME NEW j \in Candidate(p), waitingList' = Append(waitingList, j), ~ OnWaitingList(j)
          PROVE  ~ OnWaitingList(k)'
      <4>1. waitingList \in Seq(Jobs) /\ Once(waitingList)
        BY DEF TypeInv, TypeOK, ListTypes, ListsOnce
      <4>2. ~ Holds(waitingList, j) BY <3>2 DEF OnWaitingList, Holds
      <4>3. Holds(waitingList', k) <=> k = j \/ Holds(waitingList, k)
        BY <2>2, <3>2, <4>1, <4>2, AppendOnce
      <4> QED BY <1>0, <2>2, <4>3 DEF OnWaitingList, Holds
    <3> QED BY <2>1, <3>1, <3>2
  <2> QED BY <1>0, <2>3, <2>4
<1> HIDE DEF listVars
<1> QED BY <1>1, <1>2, <1>3, <1>4, <1>5, <1>6, <1>7, <1>8 DEF SchedulerThread

\* The scheduler makes no job.
LEMMA SchedulerStillFreed ==
  ASSUME TypeInv, SchedulerThread
  PROVE  StillFreed
<1>j. job \in [Jobs -> JobRecords] BY DEF TypeInv, TypeOK, JobTypes
<1>1. ASSUME NEW p, NEW j, NEW d, AssignJob(p, j, d) PROVE StillFreed
  <2>1. PICK chain, wait : job' = [job EXCEPT ![j].pIniPort = p, ![j].pCurrentIniJob = chain,
                                              ![j].WaitForWrite = wait]
    BY <1>1, Zenon DEF AssignJob
  <2>2. CASE j \in Jobs BY <1>j, <2>1, <2>2 DEF JobRecords, StillFreed, Freed
  <2>3. CASE j \notin Jobs BY <1>j, <2>1, <2>3 DEF StillFreed, Freed
  <2> QED BY <2>2, <2>3
<1>2. ASSUME NEW p \in Ports, ScheduleFirstJob(p) \/ ScheduleByMemory(p) \/ SchedulePort(p)
      PROVE  \E j, d : AssignJob(p, j, d)
  BY <1>2 DEF ScheduleFirstJob, ScheduleByMemory, ScheduleFromWaitingList, SchedulePort
<1>3. CASE AbandonLogged BY <1>j, <1>3 DEF AbandonLogged, JobRecords, StillFreed, Freed
<1>4. CASE UNCHANGED job BY <1>4 DEF StillFreed, Freed
<1> QED
  BY <1>1, <1>2, <1>3, <1>4
  DEF SchedulerThread, SchedulerWakes, UpdateJobList, NoFirstJob, NoMoreByMemory,
      PortThreadGone, PortThreadReady, SchedulerSleeps, JobExpires, DropWaitingJob, AbandonJob,
      DestroyPortThread, CreatePortThread, SkipPort

\* nor the scheduler: it looks for jobs in the queue and in its lists,
LEMMA SchedulerOutOfReach ==
  ASSUME TypeInv, Ownership, ListsOnce, PortsGivenJobs, SchedulersJob, OutOfReach, SchedulerThread
  PROVE  OutOfReach'
<1> SUFFICES ASSUME NEW k \in Jobs PROVE Reaches(k) BY StaysOutOfReach
<1>m. UNCHANGED <<queue, app, client, del>> BY SchedulerMoves
<1>1. Absent(k)' => Absent(k) BY <1>m, SchedulerStillFreed DEF Absent, StillFreed
<1>2. Unreachable(k) => Unreachable(k)'
  <2> SUFFICES ASSUME Unreachable(k) PROVE Unreachable(k)' OBVIOUS
  <2>1. ~ AppHolds(k)' /\ ClientsHolding(k)' = {} /\ k \notin Queued'
    BY <1>m DEF Unreachable, AppHolds, ClientsHolding, Queued
  <2> QED BY <2>1, SchedulerReaches DEF Unreachable
<1> QED BY <1>m, <1>1, <1>2 DEF Reaches, Gone, Unlinked

\* A job that nobody counts is used by nobody.
LEMMA UnusedUnreachable ==
  ASSUME NEW k \in Jobs, References(k) = 0
  PROVE  /\ ~ AppHolds(k) /\ ClientsHolding(k) = {} /\ PortsGiven(k) = {} /\ sched.job # k
         /\ ~ OnWaitingList(k) /\ k \notin scheduleList /\ DeletersOf(k) = {}
<1>1. /\ Cardinality(ClientsHolding(k)) \in Nat /\ Cardinality(PortsGiven(k)) \in Nat
      /\ Cardinality(PortsWithHandle(k)) \in Nat /\ Cardinality(PortsAlerting(k)) \in Nat
      /\ Cardinality(DeletersOf(k)) \in Nat
  BY FiniteHolders, FS_CardinalityType
<1>2. Cardinality(Predecessors(k)) \in Nat
  <2>1. IsFiniteSet(Jobs) /\ Predecessors(k) \subseteq Jobs
    BY ConstantsAssumption DEF ConstantsAssumption, Predecessors
  <2> QED BY <2>1, FS_Subset, FS_CardinalityType
<1>3. Lists(k) \in Nat BY DEF Lists
<1>4. /\ ~ AppHolds(k) /\ sched.job # k /\ Lists(k) = 0
      /\ Cardinality(ClientsHolding(k)) = 0 /\ Cardinality(PortsGiven(k)) = 0
      /\ Cardinality(DeletersOf(k)) = 0
  <2> DEFINE a == IF AppHolds(k) THEN 1 ELSE 0
             c == Cardinality(ClientsHolding(k))
             g == Cardinality(PortsGiven(k))
             h == Cardinality(PortsWithHandle(k))
             e == Cardinality(PortsAlerting(k))
             s == IF sched.job = k THEN 1 ELSE 0
             d == Cardinality(DeletersOf(k))
             r == Cardinality(Predecessors(k))
             l == Lists(k)
  <2>1. a \in Nat /\ s \in Nat OBVIOUS
  <2>2. a + c + g + h + e + s + d + r + l = 0 BY Zenon DEF References
  <2>3. c \in Nat /\ g \in Nat /\ h \in Nat /\ e \in Nat /\ d \in Nat /\ r \in Nat /\ l \in Nat
    BY <1>1, <1>2, <1>3
  <2> HIDE DEF a, c, g, h, e, s, d, r, l
  <2>4. a = 0 /\ c = 0 /\ g = 0 /\ s = 0 /\ d = 0 /\ l = 0 BY <2>1, <2>2, <2>3
  <2>5. ~ AppHolds(k) /\ sched.job # k BY <2>4 DEF a, s
  <2> QED BY <2>4, <2>5 DEF c, g, d, l
<1>5. ClientsHolding(k) = {} /\ PortsGiven(k) = {} /\ DeletersOf(k) = {}
  BY <1>4, FiniteHolders, FS_EmptySet
<1>6. ~ OnWaitingList(k) /\ k \notin scheduleList BY <1>4 DEF Lists
<1> QED BY <1>4, <1>5, <1>6

\* A step of DeleteJob reaches for no other job than its own.
LEMMA DeleteJobOwnJob ==
  ASSUME TypeInv, Unchained, NEW t \in Threads, DeleteJob(t), NEW k \in Jobs
  PROVE  /\ del'[t].job = k => del[t].job = k
         /\ del'[t].job = k /\ del'[t].pc \in {"log", "free"} =>
              DeleteJobUnlink(t) \/ del[t].pc \in {"log", "free"}
         /\ k # del[t].job \/ ~ DeleteJobFree(t) => (Freed(k)' => Freed(k))
<1>d. del \in [Threads -> DelRecords] BY DEF TypeInv, TypeOK, DeleteTypes
<1>j. job \in [Jobs -> JobRecords] BY DEF TypeInv, TypeOK, JobTypes
<1>n. NoJob \notin Jobs BY ConstantsAssumption DEF ConstantsAssumption
<1> USE <1>d, <1>j, <1>n DEF DelRecords, Deleting, Reentering, Return, GoTo, NotDeleting, Freed
<1>2. CASE DeleteJobStart(t)
  <2>1. UNCHANGED job BY <1>2 DEF DeleteJobStart
  <2>2. \/ Return(t)
        \/ \E p, n : del' = [del EXCEPT ![t].pc = "cancel", ![t].port = p, ![t].next = n]
        \/ \E n : del' = [del EXCEPT ![t].pc = "counted", ![t].next = n]
    BY <1>2 DEF DeleteJobStart
  <2>3. CASE Return(t) BY <2>1, <2>3
  <2>4. ASSUME NEW p, NEW n, del' = [del EXCEPT ![t].pc = "cancel", ![t].port = p, ![t].next = n]
        PROVE  del'[t].job = del[t].job /\ del'[t].pc = "cancel"
    BY <2>4
  <2>5. ASSUME NEW n, del' = [del EXCEPT ![t].pc = "counted", ![t].next = n]
        PROVE  del'[t].job = del[t].job /\ del'[t].pc = "counted"
    BY <2>5
  <2> QED BY <2>1, <2>2, <2>3, <2>4, <2>5
<1>3. CASE DeleteJobCancel(t)
  <2>1. UNCHANGED job /\ (GoTo(t, "control") \/ GoTo(t, "counted")) BY <1>3 DEF DeleteJobCancel
  <2> QED BY <2>1
<1>4. CASE DeleteJobControl(t) BY <1>4 DEF DeleteJobControl
<1>5. CASE DeleteJobReferenced(t) BY <1>5 DEF DeleteJobReferenced
<1>6. CASE DeleteJobShadow(t) BY <1>6 DEF DeleteJobShadow
<1>7. CASE DeleteJobUnlink(t)
  <2>1. UNCHANGED job /\ (Return(t) \/ GoTo(t, "log") \/ GoTo(t, "free"))
    BY <1>7 DEF DeleteJobUnlink
  <2> QED BY <1>7, <2>1
<1>8. CASE DeleteJobLogged(t) BY <1>8 DEF DeleteJobLogged
<1>9. CASE DeleteJobFree(t)
  <2>1. /\ job' = [job EXCEPT ![del[t].job].signature = "freed",
                              ![del[t].job].WaitForWrite = "null", ![del[t].job].NextJobId = NoJob]
        /\ del' = [del EXCEPT ![t].pc = "files", ![t].job = NoJob]
    BY <1>9 DEF DeleteJobFree
  <2>2. del'[t].job = NoJob BY <2>1
  <2>3. k # del[t].job => job'[k] = job[k] BY <2>1
  <2> QED BY <1>9, <2>2, <2>3
<1>10. CASE DeleteJobFiles(t)
  <2>1. UNCHANGED job /\ del'[t].job = del[t].job /\ del'[t].pc = "trace"
    BY <1>10 DEF DeleteJobFiles
  <2> QED BY <2>1
<1>11. CASE DeleteJobTraced(t) BY <1>11 DEF DeleteJobTraced, Unchained
<1> HIDE DEF DelRecords, Deleting, Reentering, Return, GoTo, NotDeleting, Freed
<1> QED BY <1>2, <1>3, <1>4, <1>5, <1>6, <1>7, <1>8, <1>9, <1>10, <1>11 DEF DeleteJob

\* and DeleteJob unlinks a job only when no other thread deletes it and nobody is counted.
LEMMA DeleteJobOutOfReach ==
  ASSUME TypeInv, InSection, ListsOnce, PortsGivenJobs, Unchained, RefCountExact, OutOfReach,
         NEW t \in Threads, DeleteJob(t)
  PROVE  OutOfReach'
<1>0. PICK j : j = del[t].job OBVIOUS
<1>d. del \in [Threads -> DelRecords] BY DEF TypeInv, TypeOK, DeleteTypes
<1>n. NoJob \notin Jobs /\ NoPort \notin Ports BY ConstantsAssumption DEF ConstantsAssumption
<1>m. /\ UNCHANGED <<app, client, sched, waitingList, scheduleList>>
      /\ \A s \in Threads \ {t} : del'[s] = del[s]
  BY DeleteJobMoves
<1>p. SamePorts BY DeleteJobSamePorts
<1>q. Queued' \subseteq Queued /\ (DeleteJobUnlink(t) => Queued' = Queued \/ Queued' = Queued \ {j})
  <2>1. CASE UNCHANGED queue BY <2>1 DEF Queued
  <2>2. CASE queue' = Without(queue, j) BY <1>0, <2>2, WithoutQueue
  <2> QED BY <1>0, <2>1, <2>2, DeleteJobQueue
<1>1. \A k \in Jobs : Unreachable(k) => Unreachable(k)'
  BY <1>m, <1>p, <1>q DEF Unreachable, AppHolds, ClientsHolding, OnWaitingList, SamePorts
<1>2. \A k \in Jobs, s \in Threads : del'[s].job = k => del[s].job = k
  BY <1>m, DeleteJobOwnJob
<1>3. ASSUME NEW k \in Jobs, k # j \/ ~ (DeleteJobUnlink(t) \/ DeleteJobFree(t))
      PROVE  Reaches(k)
  <2>1. Absent(k)' => Absent(k) BY <1>0, <1>m, <1>3, DeleteJobOwnJob DEF Absent
  <2>2. Unlinked(k)' => Unlinked(k)
    <3> SUFFICES ASSUME NEW s \in Threads, del'[s].pc \in {"log", "free"}, del'[s].job = k
                 PROVE  Unlinked(k)
      BY DEF Unlinked
    <3>1. CASE s = t BY <1>0, <1>3, <3>1, DeleteJobOwnJob DEF Unlinked
    <3>2. CASE s # t BY <1>m, <3>2 DEF Unlinked
    <3> QED BY <3>1, <3>2
  <2> QED BY <1>1, <1>2, <2>1, <2>2 DEF Reaches, Gone
<1>4. CASE DeleteJobFree(t)
  <2>1. del[t].pc = "free" /\ j \in Jobs
    BY <1>0, <1>4 DEF DeleteJobFree, Deleting, TypeInv, DeletersHaveJobs
  <2>2. Unreachable(j) /\ \A s \in Threads : del[s].job = j => s = t
    BY <1>0, <2>1 DEF OutOfReach, Unlinked
  <2>3. del'[t].job = NoJob BY <1>d, <1>4 DEF DeleteJobFree, DelRecords
  <2>4. \A s \in Threads : del'[s].job # j BY <1>m, <1>n, <2>1, <2>2, <2>3
  <2>5. Unreachable(j)' BY <1>1, <2>1, <2>2
  <2>6. \A k \in Jobs \ {j} : Reaches(k) BY <1>3
  <2>7. \A k \in Jobs \ {j} :
          /\ Absent(k)' \/ Unlinked(k)' => Unreachable(k)'
          /\ Absent(k)' => \A s \in Threads : del'[s].job # k
          /\ Unlinked(k)' => \A r, s \in Threads : del'[r].job = k /\ del'[s].job = k => r = s
    BY <2>6 DEF OutOfReach, Reaches, Gone
  <2>8. /\ Absent(j)' \/ Unlinked(j)' => Unreachable(j)'
        /\ Absent(j)' => \A s \in Threads : del'[s].job # j
        /\ Unlinked(j)' => \A r, s \in Threads : del'[r].job = j /\ del'[s].job = j => r = s
    BY <2>4, <2>5
  <2> QED BY <2>7, <2>8 DEF OutOfReach
<1>5. CASE DeleteJobUnlink(t) /\ queue' = Without(queue, j)
  <2>1. del[t].pc = "counted" /\ splSem = t /\ j \in Jobs /\ cRef[j] = 0
    BY <1>0, <1>5 DEF DeleteJobUnlink, Deleting, Unused, TypeInv, DeletersHaveJobs
  <2>2. References(j) = 0 BY <2>1 DEF RefCountExact
  <2>3. /\ ~ AppHolds(j) /\ ClientsHolding(j) = {} /\ PortsGiven(j) = {} /\ sched.job # j
        /\ ~ OnWaitingList(j) /\ j \notin scheduleList /\ DeletersOf(j) = {}
    BY <2>1, <2>2, UnusedUnreachable
  <2>4. job[j].pIniPort = NoPort
    BY <2>1, <2>3 DEF PortsGiven, PortsGivenJobs, TypeInv, TypeOK, JobTypes, JobRecords
  <2>5. j \notin Queued' BY <1>0, <1>5, WithoutQueue
  <2>6. Unreachable(j)'
    BY <1>m, <1>p, <2>1, <2>3, <2>4, <2>5
    DEF Unreachable, AppHolds, ClientsHolding, OnWaitingList, SamePorts
  <2>7. \A s \in Threads : del[s].job = j => s = t
    <3> SUFFICES ASSUME NEW s \in Threads, del[s].job = j PROVE s = t OBVIOUS
    <3>1. del[s].pc \notin {"idle", "files", "trace"} BY <1>n, <2>1 DEF InSection
    <3>2. del[s].pc \notin {"cancel", "control", "shadow", "log"} BY <2>3 DEF DeletersOf
    <3>3. del[s].pc \in {"start", "counted", "free"} BY <1>d, <3>1, <3>2 DEF DelRecords, DelPcs
    <3>4. splSem = s BY <3>3 DEF InSection
    <3> QED BY <2>1, <3>4
  <2>8. ~ Absent(j)'
    <3>1. ~ Absent(j) BY <1>0, <2>1 DEF OutOfReach
    <3>2. UNCHANGED job BY <1>5 DEF DeleteJobUnlink
    <3> QED BY <1>m, <3>1, <3>2 DEF Absent, Freed
  <2>9. \A r, s \in Threads : del'[r].job = j /\ del'[s].job = j => r = s BY <1>2, <2>1, <2>7
  <2>10. \A k \in Jobs \ {j} : Reaches(k) BY <1>3
  <2>11. \A k \in Jobs \ {j} :
           /\ Absent(k)' \/ Unlinked(k)' => Unreachable(k)'
           /\ Absent(k)' => \A s \in Threads : del'[s].job # k
           /\ Unlinked(k)' => \A r, s \in Threads : del'[r].job = k /\ del'[s].job = k => r = s
    BY <2>10 DEF OutOfReach, Reaches, Gone
  <2>12. /\ Absent(j)' \/ Unlinked(j)' => Unreachable(j)'
         /\ Absent(j)' => \A s \in Threads : del'[s].job # j
         /\ Unlinked(j)' => \A r, s \in Threads : del'[r].job = j /\ del'[s].job = j => r = s
    BY <2>6, <2>8, <2>9
  <2> QED BY <2>11, <2>12 DEF OutOfReach
<1>6. CASE DeleteJobUnlink(t) /\ Return(t)
  <2>1. /\ del'[t].pc = "idle" /\ del'[t].job = NoJob /\ UNCHANGED job
    BY <1>d, <1>6 DEF DeleteJobUnlink, Return, NotDeleting
  <2>2. ASSUME NEW k \in Jobs PROVE Reaches(k)
    <3>1. Absent(k)' => Absent(k) BY <1>m, <2>1 DEF Absent, Freed
    <3>2. Unlinked(k)' => Unlinked(k) BY <1>m, <2>1 DEF Unlinked
    <3> QED BY <1>1, <1>2, <3>1, <3>2 DEF Reaches, Gone
  <2> QED BY <2>2, StaysOutOfReach
<1>7. CASE ~ DeleteJobUnlink(t) /\ ~ DeleteJobFree(t) BY <1>3, <1>7, StaysOutOfReach
<1>8. DeleteJobUnlink(t) => Return(t) \/ queue' = Without(queue, j) BY <1>0 DEF DeleteJobUnlink
<1> QED BY <1>4, <1>5, <1>6, <1>7, <1>8

----------------------------------------------------------------------------
(* The count is exact, and what it protects is never freed too early.       *)

\* The inductive invariant: cRef is exact and who is gone is out of reach.
Counted == RefCountExact /\ OutOfReach

\* Everything the count of a job rests on.
Grounds ==
  /\ TypeInv /\ Ownership /\ Unchained /\ InSection /\ SchedulersJob /\ PortsGivenJobs /\ ListsOnce

\* Nothing is there at the start.
LEMMA CountedInit ==
  ASSUME Init
  PROVE  Counted
<1>n. NoJob \notin Jobs /\ NoPort \notin Ports BY ConstantsAssumption DEF ConstantsAssumption
<1>1. ASSUME NEW k \in Jobs
      PROVE  Unreachable(k) /\ (\A t \in Threads : del[t].job # k) /\ DeletersOf(k) = {}
             /\ PortsWithHandle(k) = {} /\ PortsAlerting(k) = {} /\ PortsGiven(k) = {}
             /\ Predecessors(k) = {} /\ cRef[k] = 0
  BY <1>n DEF Init, Unreachable, AppHolds, ClientsHolding, NoCall, OnWaitingList, Queued,
     NotDeleting, DeletersOf, PortsWithHandle, PortsAlerting, PortsGiven, Given, Woken,
     PortThreadAt, Predecessors
<1>2. \A k \in Jobs : ~ Unlinked(k) BY <1>1 DEF Unlinked
<1>3. OutOfReach BY <1>1, <1>2 DEF OutOfReach
<1>4. RefCountExact
  <2>1. Cardinality({}) = 0 BY FS_EmptySet
  <2> QED BY <1>1, <2>1 DEF RefCountExact, References, Unreachable, Lists
<1> QED BY <1>3, <1>4 DEF Counted

\* Every step keeps both.
LEMMA CountedNext ==
  ASSUME NoChains, Grounds, Grounds', Counted, Next
  PROVE  Counted'
<1> USE DEF Grounds, Counted
<1>1. ASSUME NEW t \in Threads, DeleteJob(t) PROVE Counted'
  BY <1>1, DeleteJobExact, DeleteJobOutOfReach
<1>2. ASSUME NEW j \in Jobs, Application(j) PROVE Counted'
  BY <1>2, ApplicationExact, ApplicationOutOfReach
<1>3. ASSUME NEW c \in Clients, Client(c) PROVE Counted'
  BY <1>3, ClientExact, ClientOutOfReach
<1>4. ASSUME NEW p \in Ports, PortThread(p) PROVE Counted'
  BY <1>4, PortThreadExact, PortThreadOutOfReach
<1>5. CASE SchedulerThread
  BY <1>5, SchedulerExact, SchedulerOutOfReach
<1> HIDE DEF Grounds, Counted
<1> QED BY <1>1, <1>2, <1>3, <1>4, <1>5 DEF Next

\* So does a stuttering step.
LEMMA CountedStutters ==
  ASSUME Counted, UNCHANGED vars
  PROVE  Counted'
<1>1. \A k \in Jobs :
        /\ AppHolds(k)' = AppHolds(k) /\ ClientsHolding(k)' = ClientsHolding(k)
        /\ PortsGiven(k)' = PortsGiven(k) /\ PortsWithHandle(k)' = PortsWithHandle(k)
        /\ PortsAlerting(k)' = PortsAlerting(k) /\ DeletersOf(k)' = DeletersOf(k)
        /\ Predecessors(k)' = Predecessors(k) /\ Lists(k)' = Lists(k)
        /\ Unreachable(k)' = Unreachable(k) /\ Absent(k)' = Absent(k) /\ Unlinked(k)' = Unlinked(k)
  BY DEF vars, jobVars, listVars, AppHolds, ClientsHolding, PortsGiven, Given, Woken,
     PortsWithHandle, PortsAlerting, DeletersOf, Predecessors, Lists, OnWaitingList,
     Unreachable, Queued, Absent, Freed, Unlinked
<1>2. UNCHANGED <<cRef, sched, del>> BY DEF vars, jobVars
<1>3. RefCountExact' BY <1>1, <1>2 DEF Counted, RefCountExact, References
<1>4. OutOfReach' BY <1>1, <1>2 DEF Counted, OutOfReach
<1> QED BY <1>3, <1>4 DEF Counted

\* The invariants that the two rest on hold in every state.
LEMMA GroundsAlways == ASSUME NoChains PROVE Spec => []Grounds
BY TypesAlways, OwnershipAlways, UnchainedAlways, InSectionAlways, SchedulersJobAlways,
   GivenAlways, ListsOnceAlways, PTL DEF Grounds

\* cRef is exact and who is gone is out of reach, in every state.
LEMMA CountedAlways == ASSUME NoChains PROVE Spec => []Counted
<1>1. Init => Counted BY CountedInit
<1>2. Grounds /\ Grounds' /\ Counted /\ [Next]_vars => Counted'
  BY CountedNext, CountedStutters
<1> QED BY <1>1, <1>2, GroundsAlways, PTL DEF Spec

\* INIJOB.cRef is exactly the number of threads, lists and calls that still use
\* the job, after every stretch of every thread: no path through SetJob,
\* DeleteJob, the port threads and the scheduler takes a reference it does not
\* give back, or gives back one it did not take.
THEOREM ReferencesExact == ASSUME NoChains PROVE Spec => []RefCountExact
BY CountedAlways, PTL DEF Counted

\* A job whose memory is freed is one that nothing reaches any more.
LEMMA FreedNotPointedAt ==
  ASSUME Grounds, Counted
  PROVE  NoDangling
<1> SUFFICES ASSUME NEW j \in Jobs, Freed(j) PROVE ~ PointedAt(j) BY DEF NoDangling
<1>n. NoJob \notin Jobs /\ NoPort \notin Ports BY ConstantsAssumption DEF ConstantsAssumption
<1>1. Unreachable(j) /\ \A t \in Threads : del[t].job # j
  BY DEF Counted, OutOfReach, Absent
<1>2. \A p \in Ports : ~ Given(p, j) BY <1>n, <1>1 DEF Unreachable, Grounds, PortsGivenJobs
<1>3. \A p \in Ports : port[p].pIniJob # j /\ pt[p].job # j
  BY <1>n, <1>2 DEF Grounds, PortsGivenJobs, Given
<1>4. \A k \in Jobs : job[k].pCurrentIniJob # j BY <1>n DEF Grounds, Unchained
<1> QED BY <1>1, <1>3, <1>4 DEF PointedAt, Unreachable

\* DeleteJob never frees an INIJOB that a thread, a port or a list still points
\* at (the SPLASSERTs on IJ_SIGNATURE).
THEOREM NothingDangles == ASSUME NoChains PROVE Spec => []NoDangling
<1>1. Grounds /\ Counted => NoDangling BY FreedNotPointedAt
<1> QED BY <1>1, GroundsAlways, CountedAlways, PTL

----------------------------------------------------------------------------
(* A deletion is final where the scheduler waits for a job to be spooled    *)
(* and the printer does not keep its jobs.  A port thread takes a deletion   *)
(* back when a job has timed out, so no job may time out: that needs a      *)
(* thread that waits for data of a job that is still being spooled, and     *)
(* with PRINTER_ATTRIBUTE_QUEUED no port is given such a job.  Nor may a    *)
(* job be pending deletion before StartDocPrinter has made it.              *)

\* PRINTER_ATTRIBUTE_QUEUED is set, ...
SpooledFirst == "QUEUED" \in Attributes
\* ... and PRINTER_ATTRIBUTE_KEEPPRINTEDJOBS is not.
OnlyWhenSpooled == SpooledFirst /\ "KEEPPRINTEDJOBS" \notin Attributes

\* No job is spooled and despooled at once, and nobody waits for its data.
NotWhileSpooling ==
  /\ \A j \in Jobs : ~ {"SPOOLING", "DESPOOLING"} \subseteq Status[j]
  /\ \A p \in Ports : pt[p].pc # "readwait"
  /\ \A j \in Jobs : "TIMEOUT" \notin Status[j]

\* Who is about to delete a job, or may come to it, knows one that was made.
KnownJobs ==
  /\ \A j \in Jobs : app[j] = "idle" => "PENDING_DELETION" \notin Status[j]
  /\ \A t \in Threads : \A j \in Jobs : del[t].job = j \/ del[t].next = j => app[j] # "idle"
  /\ \A c \in Clients : \A j \in Jobs : client[c].job = j => app[j] # "idle"
  /\ \A k \in Jobs : \A j \in Jobs : job[k].NextJobId = j => app[j] # "idle"

\* A step that creates no job, and what it may do to the flags of those there are.
Made == \A j \in Jobs : app[j] # "idle" => app'[j] # "idle"

\* DeleteJob takes links away,
LEMMA DeleteJobLinks ==
  ASSUME TypeInv, NEW t \in Threads, DeleteJob(t)
  PROVE  \A k \in Jobs : job'[k].NextJobId \in {job[k].NextJobId, NoJob}
<1>j. job \in [Jobs -> JobRecords] BY DEF TypeInv, TypeOK, JobTypes
<1>1. CASE UNCHANGED job BY <1>1
<1>2. CASE DeleteJobFree(t)
  <2>1. PICK j : job' = [job EXCEPT ![j].signature = "freed", ![j].WaitForWrite = "null",
                                    ![j].NextJobId = NoJob]
    BY <1>2 DEF DeleteJobFree
  <2>2. CASE j \in Jobs BY <1>j, <2>1, <2>2 DEF JobRecords
  <2>3. CASE j \notin Jobs BY <1>j, <2>1, <2>3
  <2> QED BY <2>2, <2>3
<1> QED
  BY <1>1, <1>2
  DEF DeleteJob, DeleteJobStart, DeleteJobCancel, DeleteJobControl, DeleteJobReferenced,
      DeleteJobShadow, DeleteJobUnlink, DeleteJobLogged, DeleteJobFiles, DeleteJobTraced

\* an application makes none,
LEMMA ApplicationLinks ==
  ASSUME TypeInv, NEW j \in Jobs, Application(j)
  PROVE  \A i \in Jobs : job'[i].NextJobId = job[i].NextJobId
<1>0. job \in [Jobs -> JobRecords] BY DEF TypeInv, TypeOK, JobTypes
<1>1. CASE StartDocPrinter(j) BY <1>0, <1>1 DEF StartDocPrinter, JobRecords
<1>2. CASE WritePrinter(j)
  <2> DEFINE next == job[j].NextJobId
             chained == IF next \in Queued THEN job[next].Size ELSE 0
  <2>1. PICK length :
          job' = [job EXCEPT ![j].data = length, ![j].Size = Capped(length + chained),
                             ![j].unread = @ + (length - job[j].data),
                             ![j].WaitForWrite = IF @ = "null" THEN "null" ELSE "set"]
    BY <1>2 DEF WritePrinter
  <2> HIDE DEF chained
  <2> QED BY <1>0, <2>1 DEF JobRecords
<1>3. CASE EndDocPrinter(j) BY <1>0, <1>3 DEF EndDocPrinter, JobRecords
<1>4. CASE UNCHANGED job BY <1>4
<1> QED BY <1>1, <1>2, <1>3, <1>4 DEF Application, AbortPrinter, EndDocRelease, EndDocLogged

\* a user makes one with SetJob level 3 only,
LEMMA ClientLinks ==
  ASSUME TypeInv, NEW c \in Clients, Client(c)
  PROVE  \/ \A i \in Jobs : job'[i].NextJobId = job[i].NextJobId
         \/ \E j, n \in Jobs :
              /\ n \in Queued \ {j} /\ job[j].NextJobId = NoJob /\ j \notin ChainFrom(n)
              /\ job'[j].NextJobId = n /\ \A i \in Jobs \ {j} : job'[i].NextJobId = job[i].NextJobId
<1>j. job \in [Jobs -> JobRecords] BY DEF TypeInv, TypeOK, JobTypes
<1>1. ASSUME NEW j \in Jobs, NEW n \in Jobs, SetJobChain(c, j, n)
      PROVE  /\ n \in Queued \ {j} /\ job[j].NextJobId = NoJob /\ j \notin ChainFrom(n)
             /\ job'[j].NextJobId = n /\ \A i \in Jobs \ {j} : job'[i].NextJobId = job[i].NextJobId
  <2>1. PICK size : job' = [job EXCEPT ![j].NextJobId = n, ![j].Size = size]
    BY <1>j, <1>1, Zenon DEF SetJobChain
  <2>2. n \in Queued \ {j} /\ job[j].NextJobId = NoJob /\ j \notin ChainFrom(n)
    BY <1>1, Zenon DEF SetJobChain, CircularChainedJobsList
  <2> QED BY <1>j, <2>1, <2>2 DEF JobRecords
<1>2. ASSUME NEW j \in Jobs, SetJobDelete(c, j) \/ SetJobCancel(c, j)
      PROVE  \A i \in Jobs : job'[i].NextJobId = job[i].NextJobId
  <2>1. UNCHANGED job \/ job' = [job EXCEPT ![j].dwJobControlsPending = 0]
    BY <1>2 DEF SetJobDelete, SetJobCancel
  <2>2. CASE job' = [job EXCEPT ![j].dwJobControlsPending = 0] BY <1>j, <2>2 DEF JobRecords
  <2> QED BY <2>1, <2>2
<1>3. CASE SetJobAlerted(c) BY <1>j, <1>3 DEF SetJobAlerted, JobRecords
<1>4. CASE UNCHANGED job BY <1>4
<1>5. \/ UNCHANGED job
      \/ SetJobAlerted(c)
      \/ \E j \in Jobs : SetJobDelete(c, j) \/ SetJobCancel(c, j)
      \/ \E j, n \in Jobs : SetJobChain(c, j, n)
  BY DEF Client, SetJobTrace, SetPrinterUnblock, PauseOrResumeJob, PauseOrResumePort,
         ControlPrintProcessor, PauseOrResumeLogged, RestartJob, SetJobTail
<1> QED BY <1>1, <1>2, <1>3, <1>4, <1>5

\* DeleteJob knows its own job and the one that is chained to it.
LEMMA DeleteJobKnown ==
  ASSUME TypeInv, KnownJobs, NEW t \in Threads, DeleteJob(t)
  PROVE  KnownJobs'
<1>d. del \in [Threads -> DelRecords] BY DEF TypeInv, TypeOK, DeleteTypes
<1>j. job \in [Jobs -> JobRecords] BY DEF TypeInv, TypeOK, JobTypes
<1>n. NoJob \notin Jobs BY ConstantsAssumption DEF ConstantsAssumption
<1>m. UNCHANGED <<app, client>> /\ \A s \in Threads \ {t} : del'[s] = del[s] BY DeleteJobMoves
<1>1. \A k \in Jobs : job'[k].NextJobId \in {job[k].NextJobId, NoJob} BY DeleteJobLinks
<1>2. /\ del'[t].job \in {del[t].job, del[t].next, NoJob}
      /\ del'[t].next \in {del[t].next, NoJob} \cup {job[k].NextJobId : k \in Jobs}
  <2> DEFINE Known == /\ del'[t].job \in {del[t].job, del[t].next, NoJob}
                      /\ del'[t].next \in {del[t].next, NoJob} \cup {job[k].NextJobId : k \in Jobs}
  <2>1. ASSUME Return(t) PROVE Known BY <1>d, <2>1 DEF Return, NotDeleting
  <2>2. ASSUME NEW pc, GoTo(t, pc) PROVE Known BY <1>d, <2>2 DEF GoTo, DelRecords
  <2>3. CASE DeleteJobStart(t)
    <3>1. del[t].job \in Jobs
      BY <2>3 DEF DeleteJobStart, Deleting, TypeInv, DeletersHaveJobs
    <3>2. \/ Return(t)
          \/ \E q : del' = [del EXCEPT ![t].pc = "cancel", ![t].port = q,
                                       ![t].next = job[del[t].job].NextJobId]
          \/ del' = [del EXCEPT ![t].pc = "counted", ![t].next = job[del[t].job].NextJobId]
      BY <2>3 DEF DeleteJobStart
    <3>3. ASSUME NEW q, del' = [del EXCEPT ![t].pc = "cancel", ![t].port = q,
                                            ![t].next = job[del[t].job].NextJobId]
          PROVE  Known
      BY <1>d, <3>1, <3>3 DEF DelRecords
    <3>4. ASSUME del' = [del EXCEPT ![t].pc = "counted", ![t].next = job[del[t].job].NextJobId]
          PROVE  Known
      BY <1>d, <3>1, <3>4 DEF DelRecords
    <3> QED BY <2>1, <3>2, <3>3, <3>4
  <2>4. CASE DeleteJobFree(t) BY <1>d, <2>4 DEF DeleteJobFree, DelRecords
  <2>5. CASE DeleteJobFiles(t) BY <1>d, <2>5 DEF DeleteJobFiles, DelRecords
  <2>6. CASE DeleteJobTraced(t)
    <3>1. \/ Return(t)
          \/ del' = [del EXCEPT ![t].pc = "start", ![t].job = del[t].next, ![t].next = NoJob]
      BY <2>6 DEF DeleteJobTraced
    <3>2. ASSUME del' = [del EXCEPT ![t].pc = "start", ![t].job = del[t].next, ![t].next = NoJob]
          PROVE  Known
      BY <1>d, <3>2 DEF DelRecords
    <3> QED BY <2>1, <3>1, <3>2
  <2> HIDE DEF Known
  <2>7. ASSUME \/ DeleteJobCancel(t) \/ DeleteJobControl(t) \/ DeleteJobReferenced(t)
               \/ DeleteJobShadow(t) \/ DeleteJobUnlink(t) \/ DeleteJobLogged(t)
        PROVE  Known
    <3>1. Return(t) \/ \E pc : GoTo(t, pc)
      BY <2>7 DEF DeleteJobCancel, DeleteJobControl, DeleteJobReferenced, DeleteJobShadow,
                  DeleteJobUnlink, DeleteJobLogged
    <3> QED BY <2>1, <2>2, <3>1
  <2>8. DeleteJobStart(t) => Known BY <2>3 DEF Known
  <2>9. DeleteJobFree(t) \/ DeleteJobFiles(t) => Known BY <2>4, <2>5 DEF Known
  <2>10. DeleteJobTraced(t) => Known BY <2>6 DEF Known
  <2>11. Known BY <2>7, <2>8, <2>9, <2>10 DEF DeleteJob
  <2> QED BY <2>11 DEF Known
<1>3. \A k \in Jobs : k # del[t].job => ("PENDING_DELETION" \in Status'[k] => "PENDING_DELETION" \in Status[k])
  BY StatusType
  DEF DeleteJob, DeleteJobStart, DeleteJobCancel, DeleteJobControl, DeleteJobReferenced,
      DeleteJobShadow, DeleteJobUnlink, DeleteJobLogged, DeleteJobFree, DeleteJobFiles,
      DeleteJobTraced
<1>4. \A k \in Jobs : app'[k] = "idle" => "PENDING_DELETION" \notin Status'[k]
  BY <1>m, <1>3 DEF KnownJobs
<1>5. \A s \in Threads : \A k \in Jobs : del'[s].job = k \/ del'[s].next = k => app'[k] # "idle"
  BY <1>m, <1>n, <1>2 DEF KnownJobs
<1>6. \A i, k \in Jobs : job'[i].NextJobId = k => app'[k] # "idle"
  BY <1>m, <1>n, <1>1 DEF KnownJobs
<1> QED BY <1>m, <1>4, <1>5, <1>6 DEF KnownJobs

\* A stretch that may call DeleteJob for a job it knows, and takes no other
\* job into its chains or its hands, knows its jobs still.
LEMMA StretchKnown ==
  ASSUME TypeInv, KnownJobs, NEW t \in Threads, NEW j, MayDelete(t, j), Made,
         j \in Jobs /\ ~ UNCHANGED del => app[j] # "idle",
         \A k \in Jobs : app'[k] = "idle" => "PENDING_DELETION" \notin Status'[k],
         \A c \in Clients, k \in Jobs : client'[c].job = k => client[c].job = k \/ app[k] # "idle",
         \A i, k \in Jobs : job'[i].NextJobId = k => job[i].NextJobId = k \/ app[k] # "idle"
  PROVE  KnownJobs'
<1>n. NoJob \notin Jobs BY ConstantsAssumption DEF ConstantsAssumption
<1>d. del \in [Threads -> DelRecords] BY DEF TypeInv, TypeOK, DeleteTypes
<1>1. \A s \in Threads : \A k \in Jobs : del'[s].job = k \/ del'[s].next = k => app'[k] # "idle"
  <2>1. CASE UNCHANGED del BY <2>1 DEF KnownJobs, Made
  <2>2. ASSUME NEW leave \in BOOLEAN, Call(t, j, leave), ~ UNCHANGED del
        PROVE  \A s \in Threads : \A k \in Jobs : del'[s].job = k \/ del'[s].next = k => app'[k] # "idle"
    <3>1. del'[t].job = j /\ del'[t].next = NoJob /\ \A s \in Threads \ {t} : del'[s] = del[s]
      BY <1>d, <2>2 DEF Call
    <3> QED BY <1>n, <2>2, <3>1 DEF KnownJobs, Made
  <2> QED BY <2>1, <2>2 DEF MayDelete
<1> QED BY <1>1 DEF KnownJobs, Made

\* An application has made the job it deletes,
LEMMA ApplicationKnown ==
  ASSUME TypeInv, KnownJobs, NEW j \in Jobs, Application(j)
  PROVE  KnownJobs'
<1>a. app \in [Jobs -> AppPcs] BY DEF TypeInv, TypeOK, ThreadTypes
<1>1. Made /\ UNCHANGED client
  <2>1. UNCHANGED app \/ \E pc \in AppPcs \ {"idle"} : app' = [app EXCEPT ![j] = pc]
    BY DEF Application, StartDocPrinter, WritePrinter, AbortPrinter, EndDocPrinter,
           EndDocRelease, EndDocLogged, AppPcs
  <2> QED BY <1>a, <2>1, ApplicationMoves DEF Made
<1>2. \A i \in Jobs : job'[i].NextJobId = job[i].NextJobId BY ApplicationLinks
<1>3. ~ StartDocPrinter(j) => app[j] # "idle"
  BY DEF Application, WritePrinter, AbortPrinter, EndDocPrinter, EndDocRelease, EndDocLogged
<1>4. app'[j] # "idle" /\ \A k \in Jobs \ {j} : app'[k] = app[k] /\ Status'[k] = Status[k]
  <2>1. \A k \in Jobs \ {j} : app'[k] = app[k] /\ Status'[k] = Status[k]
    BY <1>a, StatusType
    DEF Application, StartDocPrinter, WritePrinter, AbortPrinter, EndDocPrinter,
        EndDocRelease, EndDocLogged
  <2>2. CASE StartDocPrinter(j) BY <1>a, <2>1, <2>2 DEF StartDocPrinter
  <2>3. CASE ~ StartDocPrinter(j) BY <1>1, <1>3, <2>1, <2>3 DEF Made
  <2> QED BY <2>2, <2>3
<1>5. \A k \in Jobs : app'[k] = "idle" => "PENDING_DELETION" \notin Status'[k]
  BY <1>4 DEF KnownJobs
<1>6. StartDocPrinter(j) => UNCHANGED del BY DEF StartDocPrinter
<1>7. j \in Threads BY DEF Threads
<1> QED BY <1>1, <1>2, <1>3, <1>5, <1>6, <1>7, ApplicationDeletes, StretchKnown

\* a client finds its job in the queue,
LEMMA ClientKnown ==
  ASSUME TypeInv, Ownership, KnownJobs, NEW c \in Clients, Client(c)
  PROVE  KnownJobs'
<1> DEFINE Mine(k) == client[c].job = k \/ k \in Queued
<1>c. client \in [Clients -> ClientRecords] BY DEF TypeInv, TypeOK, ThreadTypes
<1>j. job \in [Jobs -> JobRecords] BY DEF TypeInv, TypeOK, JobTypes
<1>n. NoJob \notin Jobs BY ConstantsAssumption DEF ConstantsAssumption
<1>0. UNCHANGED app BY ClientMoves
<1>1. \A k \in Jobs : Mine(k) => app[k] # "idle"
  BY DEF KnownJobs, Ownership, ClaimedJobsDespool
<1>2. \A k \in Jobs : client'[c].job = k => Mine(k)
  <2>1. ASSUME NEW pc, NEW j, NEW command, Begin(c, pc, j, command)
        PROVE  client'[c].job = j
    BY <1>c, <2>1 DEF Begin
  <2>2. ASSUME NEW pc, ClientGoesTo(c, pc) PROVE client'[c].job = client[c].job
    BY <1>c, <2>2 DEF ClientGoesTo, ClientRecords
  <2>3. CASE client' = [client EXCEPT ![c] = NoCall] BY <1>c, <1>n, <2>3 DEF NoCall
  <2>4. CASE \E j \in Jobs : \/ \E command \in AllCommands : SetJobTrace(c, j, command)
                             \/ SetJobDelete(c, j) \/ SetJobCancel(c, j)
    BY <2>1, <2>4 DEF SetJobTrace, SetJobDelete, SetJobCancel, SetJob
  <2>5. CASE PauseOrResumeJob(c)
    <3>1. \/ \E q : client' = [client EXCEPT ![c].pc = "capture", ![c].port = q]
          \/ ClientGoesTo(c, "log")
      BY <2>5 DEF PauseOrResumeJob
    <3>2. ASSUME NEW q, client' = [client EXCEPT ![c].pc = "capture", ![c].port = q]
          PROVE  client'[c].job = client[c].job
      BY <1>c, <3>2 DEF ClientRecords
    <3> QED BY <2>2, <3>1, <3>2
  <2>6. CASE UNCHANGED client BY <2>6
  <2>7. CASE \E pc : ClientGoesTo(c, pc) BY <2>2, <2>7
  <2> HIDE DEF Mine
  <2> QED
    BY <2>3, <2>4, <2>5, <2>6, <2>7
    DEF Client, SetJobChain, SetPrinterUnblock, SetJobAlerted, PauseOrResumePort,
        ControlPrintProcessor, PauseOrResumeLogged, RestartJob, SetJobTail
<1>3. \A b \in Clients \ {c} : client'[b] = client[b]
  BY <1>c
  DEF Client, SetJobTrace, SetJobDelete, SetJobCancel, SetJobChain, SetPrinterUnblock,
      SetJobAlerted, PauseOrResumeJob, PauseOrResumePort, ControlPrintProcessor,
      PauseOrResumeLogged, RestartJob, SetJobTail, Begin, ClientGoesTo
<1>4. \A i, k \in Jobs : job'[i].NextJobId = k => job[i].NextJobId = k \/ k \in Queued
  BY ClientLinks
<1>5. \A k \in Jobs : "PENDING_DELETION" \in Status'[k] => "PENDING_DELETION" \in Status[k]
  <2> USE StatusType
  <2> DEFINE Same == \A k \in Jobs : "PENDING_DELETION" \in Status'[k] => "PENDING_DELETION" \in Status[k]
  <2>1. ASSUME NEW j \in Jobs, SetJobDelete(c, j) \/ SetJobCancel(c, j) PROVE Same
    <3>1. CASE SetJobDelete(c, j) BY <3>1 DEF SetJobDelete
    <3>2. CASE SetJobCancel(c, j) BY <3>2 DEF SetJobCancel
    <3> QED BY <2>1, <3>1, <3>2
  <2>2. ASSUME NEW j \in Jobs, NEW n \in Jobs, SetJobChain(c, j, n) PROVE Same
    BY <2>2 DEF SetJobChain
  <2>3. CASE SetPrinterUnblock(c) \/ SetJobAlerted(c) BY <2>3 DEF SetPrinterUnblock, SetJobAlerted
  <2>4. CASE PauseOrResumeJob(c) BY <2>4 DEF PauseOrResumeJob
  <2>5. CASE RestartJob(c) BY <2>5 DEF RestartJob
  <2>6. CASE UNCHANGED Status BY <2>6
  <2>7. ASSUME \/ PauseOrResumePort(c) \/ ControlPrintProcessor(c) \/ PauseOrResumeLogged(c)
               \/ SetJobTail(c) \/ \E j \in Jobs, command \in AllCommands : SetJobTrace(c, j, command)
        PROVE  UNCHANGED Status
    BY <2>7 DEF SetJobTrace, PauseOrResumePort, ControlPrintProcessor, PauseOrResumeLogged, SetJobTail
  <2> HIDE DEF Same
  <2>8. Same
    <3>1. SetPrinterUnblock(c) \/ SetJobAlerted(c) \/ PauseOrResumeJob(c) \/ RestartJob(c) => Same
      BY <2>3, <2>4, <2>5 DEF Same
    <3>2. UNCHANGED Status => Same BY <2>6 DEF Same
    <3> QED BY <2>1, <2>2, <2>7, <3>1, <3>2 DEF Client
  <2> QED BY <2>8 DEF Same
<1>6. PICK j : MayDelete(c, j) /\ (j \in Queued \/ c \in ClientsHolding(j) \/ UNCHANGED del)
  BY ClientDeletes
<1>7. j \in Jobs /\ ~ UNCHANGED del => app[j] # "idle"
  BY <1>1, <1>6 DEF ClientsHolding
<1>8. c \in Threads BY DEF Threads
<1>9. \A k \in Jobs : app'[k] = "idle" => "PENDING_DELETION" \notin Status'[k]
  BY <1>0, <1>5 DEF KnownJobs
<1>10. \A b \in Clients, k \in Jobs : client'[b].job = k => client[b].job = k \/ app[k] # "idle"
  BY <1>1, <1>2, <1>3
<1>11. \A i, k \in Jobs : job'[i].NextJobId = k => job[i].NextJobId = k \/ app[k] # "idle"
  BY <1>1, <1>4
<1>12. Made BY <1>0 DEF Made
<1> QED BY <1>6, <1>7, <1>8, <1>9, <1>10, <1>11, <1>12, StretchKnown

\* A port thread chains nothing.
LEMMA PortThreadLinks ==
  ASSUME TypeInv, NEW p \in Ports, PortThread(p)
  PROVE  \A k \in Jobs : job'[k].NextJobId = job[k].NextJobId
<1>1. job \in [Jobs -> JobRecords] BY DEF TypeInv, TypeOK, JobTypes
<1> DEFINE Same == \A k \in Jobs : job'[k].NextJobId = job[k].NextJobId
<1>2. ASSUME NEW j, NEW u, job' = [job EXCEPT ![j].unread = u] PROVE Same
  <2>1. CASE j \in Jobs BY <1>1, <1>2, <2>1 DEF JobRecords
  <2>2. CASE j \notin Jobs BY <1>1, <1>2, <2>2
  <2> QED BY <2>1, <2>2
<1>3. CASE PrintRawJob(p)
  <2>1. UNCHANGED job \/ \E j, u : job' = [job EXCEPT ![j].unread = u] BY <1>3 DEF PrintRawJob
  <2> QED BY <1>2, <2>1
<1>4. CASE ReadPrinter(p)
  <2>1. \/ UNCHANGED job
        \/ job' = [job EXCEPT ![pt[p].job].WaitForWrite = "reset"]
        \/ job' = [job EXCEPT ![Source(pt[p].job)].unread = IF @ > 0 THEN @ - 1 ELSE 0]
    BY <1>4 DEF ReadPrinter
  <2>2. CASE job' = [job EXCEPT ![pt[p].job].WaitForWrite = "reset"] BY <1>1, <2>2 DEF JobRecords
  <2>3. CASE job' = [job EXCEPT ![Source(pt[p].job)].unread = IF @ > 0 THEN @ - 1 ELSE 0]
    <3>1. CASE Source(pt[p].job) \in Jobs BY <1>1, <2>3, <3>1 DEF JobRecords
    <3>2. CASE Source(pt[p].job) \notin Jobs BY <1>1, <2>3, <3>2
    <3> QED BY <3>1, <3>2
  <2> QED BY <2>1, <2>2, <2>3
<1>5. CASE ReadPrinterTimesOut(p) BY <1>1, <1>5 DEF ReadPrinterTimesOut, JobRecords
<1>6. CASE EndDocPort(p) \/ SentToPrinter(p)
  BY <1>1, <1>6 DEF EndDocPort, SentToPrinter, JobRecords
<1>7. CASE PortThreadFinishes(p)
  <2>1. PICK next : job' = [job EXCEPT ![pt[p].job].pCurrentIniJob = next]
    BY <1>7, Zenon DEF PortThreadFinishes
  <2> QED BY <1>1, <2>1 DEF JobRecords
<1>8. CASE PortThreadReleases(p) BY <1>1, <1>8 DEF PortThreadReleases, JobRecords
<1>9. CASE UNCHANGED job BY <1>9
<1> HIDE DEF Same
<1>10. Same
  BY <1>3, <1>4, <1>5, <1>6, <1>7, <1>8, <1>9
  DEF Same, PortThread, PortThreadWaits, PortThreadExits, PortThreadTakes, PortThreadBegins,
      DevQueryPrint, OpenPrintProcessor, ReadPrinterWakes, WritePort, ClosePrinter,
      SentToPrinterAlerted, SentToPrinterTail, EndDocPortDone, PrintDone, ClosePrintProcessor,
      DiscardJobFromPortThread, PortThreadKeeps
<1> QED BY <1>10 DEF Same

\* a port thread prints a job that was made,
LEMMA PortThreadKnown ==
  ASSUME TypeInv, Ownership, KnownJobs, NEW p \in Ports, PortThread(p)
  PROVE  KnownJobs'
<1>1. UNCHANGED <<app, client>> BY PortThreadMoves
<1>2. pt[p].job \in Jobs => app[pt[p].job] # "idle"
  BY ConstantsAssumption DEF ConstantsAssumption, Ownership, ClaimedJobsDespool, Claimed
<1>3. \A k \in Jobs : k # pt[p].job =>
        ("PENDING_DELETION" \in Status'[k] => "PENDING_DELETION" \in Status[k])
  BY StatusType, ZenonT(60)
  DEF PortThread, PortThreadWaits, PortThreadExits, PortThreadTakes, PortThreadBegins,
      DevQueryPrint, OpenPrintProcessor, PrintRawJob, ReadPrinter, ReadPrinterWakes,
      ReadPrinterTimesOut, WritePort, ClosePrinter, EndDocPort, SentToPrinter,
      SentToPrinterAlerted, SentToPrinterTail, EndDocPortDone, PrintDone, ClosePrintProcessor,
      DiscardJobFromPortThread, PortThreadFinishes, PortThreadKeeps, PortThreadReleases
<1>4. \A k \in Jobs : app'[k] = "idle" => "PENDING_DELETION" \notin Status'[k]
  BY <1>1, <1>2, <1>3 DEF KnownJobs
<1>5. p \in Threads BY DEF Threads
<1>6. Made BY <1>1 DEF Made
<1> QED BY <1>1, <1>2, <1>4, <1>5, <1>6, PortThreadDeletes, PortThreadLinks, StretchKnown

\* The scheduler chains nothing either.
LEMMA SchedulerLinks ==
  ASSUME TypeInv, SchedulerThread
  PROVE  \A k \in Jobs : job'[k].NextJobId = job[k].NextJobId
<1>j. job \in [Jobs -> JobRecords] BY DEF TypeInv, TypeOK, JobTypes
<1> DEFINE Same == \A k \in Jobs : job'[k].NextJobId = job[k].NextJobId
<1>1. ASSUME NEW p, NEW j, NEW d, AssignJob(p, j, d) PROVE Same
  <2>1. PICK chain, wait : job' = [job EXCEPT ![j].pIniPort = p, ![j].pCurrentIniJob = chain,
                                              ![j].WaitForWrite = wait]
    BY <1>1, Zenon DEF AssignJob
  <2>2. CASE j \in Jobs BY <1>j, <2>1, <2>2 DEF JobRecords
  <2>3. CASE j \notin Jobs BY <1>j, <2>1, <2>3
  <2> QED BY <2>2, <2>3
<1>2. ASSUME NEW p \in Ports, ScheduleFirstJob(p) \/ ScheduleByMemory(p) \/ SchedulePort(p)
      PROVE  \E j, d : AssignJob(p, j, d)
  BY <1>2 DEF ScheduleFirstJob, ScheduleByMemory, ScheduleFromWaitingList, SchedulePort
<1>3. ASSUME AbandonLogged PROVE Same
  <2>1. PICK wait : job' = [job EXCEPT ![sched.job].WaitForWrite = wait]
    BY <1>3, Zenon DEF AbandonLogged
  <2>2. CASE sched.job \in Jobs BY <1>j, <2>1, <2>2 DEF JobRecords
  <2>3. CASE sched.job \notin Jobs BY <1>j, <2>1, <2>3
  <2> QED BY <2>2, <2>3
<1>4. ASSUME NEW p \in Ports, AbandonJob(p) PROVE Same BY <1>4 DEF AbandonJob
<1>5. ASSUME UNCHANGED job PROVE Same BY <1>5
<1> HIDE DEF Same
<1>6. Same
  <2>1. ASSUME NEW p \in Ports,
               \/ ScheduleFirstJob(p) \/ ScheduleByMemory(p) \/ AbandonJob(p) \/ SchedulePort(p)
        PROVE  Same
    BY <1>1, <1>2, <1>4, <2>1
  <2>2. ASSUME NEW p \in Ports, DestroyPortThread(p) \/ CreatePortThread(p) \/ SkipPort(p)
        PROVE  Same
    BY <1>5, <2>2 DEF DestroyPortThread, CreatePortThread, SkipPort
  <2>3. ASSUME NEW j \in Jobs, JobExpires(j) \/ DropWaitingJob(j) PROVE Same
    BY <1>5, <2>3 DEF JobExpires, DropWaitingJob
  <2> QED
    BY <1>3, <1>5, <2>1, <2>2, <2>3
    DEF SchedulerThread, SchedulerWakes, UpdateJobList, NoFirstJob, NoMoreByMemory,
        PortThreadGone, PortThreadReady, SchedulerSleeps
<1> QED BY <1>6 DEF Same

\* and the scheduler deletes none.
LEMMA SchedulerKnown ==
  ASSUME TypeInv, KnownJobs, SchedulerThread
  PROVE  KnownJobs'
<1> DEFINE Leaves == \A k \in Jobs : "PENDING_DELETION" \in Status'[k] => "PENDING_DELETION" \in Status[k]
<1>1. ASSUME NEW p, NEW j, NEW d, AssignJob(p, j, d) PROVE Leaves
  BY <1>1, StatusType DEF AssignJob
<1>2. ASSUME NEW p \in Ports, ScheduleFirstJob(p) \/ ScheduleByMemory(p) \/ SchedulePort(p)
      PROVE  \E j, d : AssignJob(p, j, d)
  BY <1>2 DEF ScheduleFirstJob, ScheduleByMemory, ScheduleFromWaitingList, SchedulePort
<1>3. ASSUME NEW p \in Ports, AbandonJob(p) PROVE Leaves BY <1>3, StatusType DEF AbandonJob
<1>4. ASSUME UNCHANGED Status PROVE Leaves BY <1>4
<1> HIDE DEF Leaves
<1>5. Leaves
  BY <1>1, <1>2, <1>3, <1>4
  DEF SchedulerThread, SchedulerWakes, UpdateJobList, NoFirstJob, NoMoreByMemory,
      AbandonLogged, PortThreadGone, PortThreadReady, SchedulerSleeps, JobExpires,
      DropWaitingJob, DestroyPortThread, CreatePortThread, SkipPort
<1>6. UNCHANGED <<app, client, del>> BY SchedulerMoves
<1> QED BY <1>5, <1>6, SchedulerLinks DEF Leaves, KnownJobs

\* Every job that a thread is about to delete was made by StartDocPrinter.
LEMMA KnownJobsAlways == Spec => []KnownJobs
<1>1. Init => KnownJobs
  BY ConstantsAssumption DEF ConstantsAssumption, Init, KnownJobs, NotDeleting, NoCall
<1>2. TypeInv /\ Ownership /\ KnownJobs /\ [Next]_vars => KnownJobs'
  <2> SUFFICES ASSUME TypeInv, Ownership, KnownJobs, [Next]_vars PROVE KnownJobs' OBVIOUS
  <2>1. CASE UNCHANGED vars BY <2>1 DEF vars, jobVars, KnownJobs
  <2> QED
    BY <2>1, DeleteJobKnown, ApplicationKnown, ClientKnown, PortThreadKnown, SchedulerKnown
    DEF Next
<1> QED BY <1>1, <1>2, TypesAlways, OwnershipAlways, PTL DEF Spec

----------------------------------------------------------------------------
\* A step in which no job comes to be spooled and despooled, or times out.
KeepsPace ==
  /\ \A k \in Jobs : "TIMEOUT" \in Status'[k] => "TIMEOUT" \in Status[k]
  /\ \A k \in Jobs : {"SPOOLING", "DESPOOLING"} \subseteq Status'[k] =>
                     {"SPOOLING", "DESPOOLING"} \subseteq Status[k]

\* DeleteJob lets no job be spooled and despooled at once,
LEMMA DeleteJobKeepsPace ==
  ASSUME TypeInv, NEW t \in Threads, DeleteJob(t)
  PROVE  KeepsPace
<1>1. \A k \in Jobs : Status'[k] \subseteq Status[k] \cup {"PENDING_DELETION", "SHADOW_DELETED"}
  <2> USE StatusType
  <2>1. CASE DeleteJobStart(t) BY <2>1 DEF DeleteJobStart
  <2>2. CASE DeleteJobReferenced(t) BY <2>2 DEF DeleteJobReferenced
  <2>3. CASE UNCHANGED Status BY <2>3
  <2> QED
    BY <2>1, <2>2, <2>3
    DEF DeleteJob, DeleteJobCancel, DeleteJobControl, DeleteJobShadow, DeleteJobUnlink,
        DeleteJobLogged, DeleteJobFree, DeleteJobFiles, DeleteJobTraced
<1> QED BY <1>1 DEF KeepsPace

\* nor does an application,
LEMMA ApplicationKeepsPace ==
  ASSUME TypeInv, NEW j \in Jobs, Application(j)
  PROVE  KeepsPace
<1> USE StatusType DEF KeepsPace
<1>1. CASE StartDocPrinter(j) BY <1>1 DEF StartDocPrinter
<1>2. CASE AbortPrinter(j) \/ EndDocPrinter(j) BY <1>2 DEF AbortPrinter, EndDocPrinter
<1>3. CASE EndDocRelease(j) BY <1>3 DEF EndDocRelease
<1>4. CASE UNCHANGED Status BY <1>4
<1> QED BY <1>1, <1>2, <1>3, <1>4 DEF Application, WritePrinter, EndDocLogged

\* nor a client.
LEMMA ClientKeepsPace ==
  ASSUME TypeInv, NEW c \in Clients, Client(c)
  PROVE  KeepsPace
<1> USE StatusType DEF KeepsPace
<1>1. ASSUME NEW j \in Jobs, SetJobDelete(c, j) \/ SetJobCancel(c, j) PROVE KeepsPace
  <2>1. CASE SetJobDelete(c, j) BY <2>1 DEF SetJobDelete
  <2>2. CASE SetJobCancel(c, j) BY <2>2 DEF SetJobCancel
  <2> QED BY <1>1, <2>1, <2>2
<1>2. ASSUME NEW j \in Jobs, NEW n \in Jobs, SetJobChain(c, j, n) PROVE KeepsPace
  BY <1>2 DEF SetJobChain
<1>3. CASE SetPrinterUnblock(c) \/ SetJobAlerted(c) BY <1>3 DEF SetPrinterUnblock, SetJobAlerted
<1>4. CASE PauseOrResumeJob(c) BY <1>4 DEF PauseOrResumeJob
<1>5. CASE RestartJob(c) BY <1>5 DEF RestartJob
<1>6. CASE UNCHANGED Status BY <1>6
<1> HIDE DEF KeepsPace
<1> QED
  BY <1>1, <1>2, <1>3, <1>4, <1>5, <1>6
  DEF Client, SetJobTrace, PauseOrResumePort, ControlPrintProcessor, PauseOrResumeLogged, SetJobTail

\* A port's thread never waits for data: its job is despooled, so not spooled.
LEMMA PortThreadKeepsPace ==
  ASSUME TypeInv, Ownership, NotWhileSpooling, NEW p \in Ports, PortThread(p)
  PROVE  KeepsPace /\ pt'[p].pc # "readwait"
<1>t. pt \in [Ports -> PtRecords] BY DEF TypeInv, TypeOK, ThreadTypes
<1>1. ~ ReadPrinterTimesOut(p) /\ ~ ReadPrinterWakes(p)
  BY DEF NotWhileSpooling, ReadPrinterTimesOut, ReadPrinterWakes, PortAt
<1>2. pt[p].job \in Jobs => ~ MustWait(pt[p].job)
  <2>1. pt[p].job \in Jobs => "DESPOOLING" \in Status[pt[p].job]
    BY ConstantsAssumption DEF ConstantsAssumption, Ownership, ClaimedJobsDespool, Claimed
  <2> QED BY <2>1 DEF NotWhileSpooling, MustWait, Has
<1>3. KeepsPace
  <2> USE StatusType DEF KeepsPace
  <2>1. CASE PortThreadBegins(p) \/ OpenPrintProcessor(p)
    BY <2>1 DEF PortThreadBegins, OpenPrintProcessor
  <2>2. CASE ReadPrinter(p) BY <2>2 DEF ReadPrinter
  <2>3. CASE EndDocPort(p) \/ SentToPrinter(p) \/ SentToPrinterAlerted(p)
    BY <2>3 DEF EndDocPort, SentToPrinter, SentToPrinterAlerted
  <2>4. CASE PrintDone(p) \/ DiscardJobFromPortThread(p)
    BY <2>4 DEF PrintDone, DiscardJobFromPortThread
  <2>5. CASE PortThreadFinishes(p)
    <3>1. \A k \in Jobs : Status'[k] \subseteq Status[k] \cup {"BLOCKED_DEVQ", "PRINTED", "COMPLETE"}
      BY <2>5 DEF PortThreadFinishes
    <3> QED BY <3>1
  <2>6. CASE PortThreadKeeps(p) BY <2>6 DEF PortThreadKeeps
  <2>7. CASE PortThreadReleases(p) BY <2>7 DEF PortThreadReleases
  <2>8. CASE UNCHANGED Status BY <2>8
  <2> HIDE DEF KeepsPace
  <2> QED
    BY <1>1, <2>1, <2>2, <2>3, <2>4, <2>5, <2>6, <2>7, <2>8
    DEF PortThread, PortThreadWaits, PortThreadExits, PortThreadTakes, DevQueryPrint,
        PrintRawJob, WritePort, ClosePrinter, SentToPrinterTail, EndDocPortDone,
        ClosePrintProcessor
<1>4. pt'[p].pc # "readwait"
  <2> DEFINE Goes == \E pc \in PortPcs \ {"readwait"} : PortGoesTo(p, pc)
  <2>1. ASSUME Goes PROVE pt'[p].pc # "readwait" BY <1>t, <2>1 DEF PortGoesTo, PtRecords
  <2>2. CASE DevQueryPrint(p) BY <1>t, <2>2 DEF DevQueryPrint, PortGoesTo, PtRecords
  <2>3. CASE PrintRawJob(p) BY <1>t, <2>3 DEF PrintRawJob, PortGoesTo, PtRecords
  <2>4. CASE PortThreadTakes(p) \/ PortThreadReleases(p)
    BY <1>t, <2>4 DEF PortThreadTakes, PortThreadReleases, PortThreadAt
  <2>5. CASE ReadPrinter(p)
    <3>1. pt[p].job \in Jobs BY <2>5 DEF ReadPrinter, PortAt, Jobless, TypeInv, PortsHaveJobs
    <3>2. PortGoesTo(p, "closejob") \/ PortGoesTo(p, "write")
      BY <1>2, <2>5, <3>1 DEF ReadPrinter
    <3> QED BY <1>t, <3>2 DEF PortGoesTo, PtRecords
  <2>6. CASE ClosePrintProcessor(p) \/ PortThreadFinishes(p) \/ PortThreadKeeps(p) \/ WritePort(p)
    <3>1. Goes
      BY <2>6 DEF ClosePrintProcessor, PortThreadFinishes, PortThreadKeeps, WritePort, PortPcs
    <3> QED BY <2>1, <3>1
  <2>7. CASE \/ PortThreadWaits(p) \/ PortThreadExits(p) \/ PortThreadBegins(p)
             \/ OpenPrintProcessor(p) \/ ClosePrinter(p) \/ EndDocPort(p) \/ SentToPrinter(p)
             \/ SentToPrinterAlerted(p) \/ SentToPrinterTail(p) \/ EndDocPortDone(p)
             \/ PrintDone(p) \/ DiscardJobFromPortThread(p)
    <3>1. Goes
      BY <2>7
      DEF PortThreadWaits, PortThreadExits, PortThreadBegins, OpenPrintProcessor, ClosePrinter,
          EndDocPort, SentToPrinter, SentToPrinterAlerted, SentToPrinterTail, EndDocPortDone,
          PrintDone, DiscardJobFromPortThread, PortPcs
    <3> QED BY <2>1, <3>1
  <2> QED BY <1>1, <2>2, <2>3, <2>4, <2>5, <2>6, <2>7 DEF PortThread
<1> QED BY <1>3, <1>4

\* The scheduler gives a port only a job that is spooled, or one that it has.
LEMMA SchedulerKeepsPace ==
  ASSUME TypeInv, Ownership, SpooledFirst, NotWhileSpooling, SchedulerThread
  PROVE  KeepsPace /\ \A p \in Ports : pt'[p].pc # "readwait"
<1>t. pt \in [Ports -> PtRecords] BY DEF TypeInv, TypeOK, ThreadTypes
<1>1. \A p \in Ports : pt'[p].pc # "readwait"
  <2>1. CASE UNCHANGED pt BY <2>1 DEF NotWhileSpooling
  <2>2. ASSUME NEW p \in Ports, CreatePortThread(p) PROVE \A q \in Ports : pt'[q].pc # "readwait"
    BY <1>t, <2>2 DEF CreatePortThread, PtRecords, NotWhileSpooling
  <2> QED
    BY <2>1, <2>2
    DEF SchedulerThread, SchedulerWakes, UpdateJobList, NoFirstJob, NoMoreByMemory,
        AbandonLogged, PortThreadGone, PortThreadReady, SchedulerSleeps, JobExpires,
        DropWaitingJob, ScheduleFirstJob, ScheduleByMemory, ScheduleFromWaitingList,
        SchedulePort, AbandonJob, DestroyPortThread, SkipPort
<1>2. ASSUME NEW p, NEW j \in Jobs, NEW d, AssignJob(p, j, d), "SPOOLING" \notin Status[j]
      PROVE  KeepsPace
  BY <1>2, StatusType DEF AssignJob, KeepsPace
<1>3. ASSUME NEW p \in Ports, ScheduleFirstJob(p) \/ ScheduleByMemory(p) PROVE KeepsPace
  <2>1. PICK j \in FirstFromWaitingList(Jobs) \cup FirstFromWaitingList(Fitting) :
          ScheduleFromWaitingList(j, p)
    BY <1>3 DEF ScheduleFirstJob, ScheduleByMemory
  <2>2. j \in Jobs BY <2>1, ChoiceType
  <2>3. "SPOOLING" \notin Status[j]
    BY <2>1 DEF ScheduleFromWaitingList, Assignable, Schedulable, SpooledFirst, Has
  <2>4. \E d : AssignJob(p, j, d) BY <2>1 DEF ScheduleFromWaitingList
  <2> QED BY <1>2, <2>2, <2>3, <2>4
<1>4. ASSUME NEW p \in Ports, SchedulePort(p) PROVE KeepsPace
  <2>1. PICK j \in Candidate(p) : \E d : AssignJob(p, j, d) BY <1>4 DEF SchedulePort
  <2>2. j \in Jobs /\ (Schedulable(j) \/ port[p].pIniJob = j) BY <2>1, ChosenJobs
  <2>3. "SPOOLING" \notin Status[j]
    <3>1. CASE Schedulable(j) BY <3>1 DEF Schedulable, SpooledFirst, Has
    <3>2. CASE port[p].pIniJob = j
      <4>1. "DESPOOLING" \in Status[j]
        BY <2>2, <3>2, ConstantsAssumption
        DEF ConstantsAssumption, Ownership, ClaimedJobsDespool, Claimed
      <4> QED BY <2>2, <4>1 DEF NotWhileSpooling
    <3> QED BY <2>2, <3>1, <3>2
  <2> QED BY <1>2, <2>1, <2>2, <2>3
<1>5. ASSUME NEW p \in Ports, AbandonJob(p) PROVE KeepsPace
  BY <1>5, StatusType DEF AbandonJob, KeepsPace
<1>6. ASSUME UNCHANGED Status PROVE KeepsPace BY <1>6 DEF KeepsPace
<1>7. KeepsPace
  BY <1>3, <1>4, <1>5, <1>6
  DEF SchedulerThread, SchedulerWakes, UpdateJobList, NoFirstJob, NoMoreByMemory,
      AbandonLogged, PortThreadGone, PortThreadReady, SchedulerSleeps, JobExpires,
      DropWaitingJob, DestroyPortThread, CreatePortThread, SkipPort
<1> QED BY <1>1, <1>7

\* Where a job is scheduled only when it is spooled, no job times out.
LEMMA NotWhileSpoolingAlways == ASSUME SpooledFirst PROVE Spec => []NotWhileSpooling
<1>1. Init => NotWhileSpooling BY DEF Init, NotWhileSpooling, PortThreadAt
<1>2. TypeInv /\ Ownership /\ NotWhileSpooling /\ [Next]_vars => NotWhileSpooling'
  <2> SUFFICES ASSUME TypeInv, Ownership, NotWhileSpooling, [Next]_vars PROVE NotWhileSpooling'
    OBVIOUS
  <2>0. ASSUME KeepsPace, \A p \in Ports : pt'[p].pc # "readwait" PROVE NotWhileSpooling'
    BY <2>0 DEF KeepsPace, NotWhileSpooling
  <2>1. ASSUME NEW t \in Threads, DeleteJob(t) PROVE NotWhileSpooling'
    BY <2>0, <2>1, DeleteJobKeepsPace, DeleteJobMoves DEF NotWhileSpooling
  <2>2. ASSUME NEW j \in Jobs, Application(j) PROVE NotWhileSpooling'
    BY <2>0, <2>2, ApplicationKeepsPace, ApplicationMoves DEF NotWhileSpooling
  <2>3. ASSUME NEW c \in Clients, Client(c) PROVE NotWhileSpooling'
    BY <2>0, <2>3, ClientKeepsPace, ClientMoves DEF NotWhileSpooling
  <2>4. ASSUME NEW p \in Ports, PortThread(p) PROVE NotWhileSpooling'
    <3>1. \A q \in Ports \ {p} : pt'[q] = pt[q] BY <2>4, PortThreadAlone
    <3> QED BY <2>0, <2>4, <3>1, PortThreadKeepsPace DEF NotWhileSpooling
  <2>5. CASE SchedulerThread BY <2>0, <2>5, SchedulerKeepsPace
  <2>6. CASE UNCHANGED vars BY <2>6 DEF vars, jobVars, NotWhileSpooling
  <2> QED BY <2>1, <2>2, <2>3, <2>4, <2>5, <2>6 DEF Next
<1> QED BY <1>1, <1>2, TypesAlways, OwnershipAlways, PTL DEF Spec

\* What stays to be deleted.
StaysDeleted ==
  \A j \in Jobs : "PENDING_DELETION" \in Status[j] => "PENDING_DELETION" \in Status'[j]

\* No step takes a deletion back.
LEMMA DeletionStays ==
  ASSUME TypeInv, OnlyWhenSpooled, NotWhileSpooling, KnownJobs, Next
  PROVE  StaysDeleted
<1> USE StatusType DEF StaysDeleted
<1>1. ASSUME NEW t \in Threads, DeleteJob(t) PROVE StaysDeleted
  BY <1>1
  DEF DeleteJob, DeleteJobStart, DeleteJobCancel, DeleteJobControl, DeleteJobReferenced,
      DeleteJobShadow, DeleteJobUnlink, DeleteJobLogged, DeleteJobFree, DeleteJobFiles,
      DeleteJobTraced
<1>2. ASSUME NEW j \in Jobs, Application(j) PROVE StaysDeleted
  <2>1. CASE StartDocPrinter(j) BY <2>1 DEF StartDocPrinter, KnownJobs
  <2>2. CASE AbortPrinter(j) \/ EndDocPrinter(j) BY <2>2 DEF AbortPrinter, EndDocPrinter
  <2>3. CASE EndDocRelease(j) BY <2>3, EndDocTakes
  <2>4. CASE UNCHANGED Status BY <2>4
  <2> QED BY <1>2, <2>1, <2>2, <2>3, <2>4 DEF Application, WritePrinter, EndDocLogged
<1>3. ASSUME NEW c \in Clients, Client(c) PROVE StaysDeleted
  <2>1. ASSUME NEW j \in Jobs, SetJobDelete(c, j) \/ SetJobCancel(c, j) PROVE StaysDeleted
    BY <2>1 DEF SetJobDelete, SetJobCancel
  <2>2. ASSUME NEW j \in Jobs, NEW n \in Jobs, SetJobChain(c, j, n) PROVE StaysDeleted
    BY <2>2 DEF SetJobChain
  <2>3. CASE SetPrinterUnblock(c) \/ SetJobAlerted(c) BY <2>3 DEF SetPrinterUnblock, SetJobAlerted
  <2>4. CASE PauseOrResumeJob(c) BY <2>4 DEF PauseOrResumeJob
  <2>5. CASE RestartJob(c) BY <2>5 DEF RestartJob
  <2>6. CASE UNCHANGED Status BY <2>6
  <2> HIDE DEF StaysDeleted
  <2> QED
    BY <1>3, <2>1, <2>2, <2>3, <2>4, <2>5, <2>6
    DEF Client, SetJobTrace, PauseOrResumePort, ControlPrintProcessor, PauseOrResumeLogged,
        SetJobTail
<1>4. ASSUME NEW p \in Ports, PortThread(p) PROVE StaysDeleted
  <2>1. CASE PortThreadBegins(p) \/ OpenPrintProcessor(p)
    BY <2>1 DEF PortThreadBegins, OpenPrintProcessor
  <2>2. CASE ReadPrinter(p) \/ ReadPrinterTimesOut(p) BY <2>2 DEF ReadPrinter, ReadPrinterTimesOut
  <2>3. CASE EndDocPort(p) \/ SentToPrinter(p) \/ SentToPrinterAlerted(p)
    BY <2>3 DEF EndDocPort, SentToPrinter, SentToPrinterAlerted
  <2>4. CASE PrintDone(p) \/ DiscardJobFromPortThread(p)
    BY <2>4 DEF PrintDone, DiscardJobFromPortThread
  <2>5. CASE PortThreadFinishes(p)
    <3>1. \A k \in Jobs : Status[k] \subseteq Status'[k] BY <2>5 DEF PortThreadFinishes
    <3> QED BY <3>1
  <2>6. CASE PortThreadKeeps(p)
    <3>1. pt[p].job \in Jobs
      BY <2>6 DEF PortThreadKeeps, PortAt, Hold, Jobless, TypeInv, PortsHaveJobs
    <3>2. ~ Kept(pt[p].job) BY <3>1 DEF Kept, Has, OnlyWhenSpooled, NotWhileSpooling
    <3> QED BY <2>6, <3>2 DEF PortThreadKeeps
  <2>7. CASE PortThreadReleases(p) BY <2>7, ReleaseTakes
  <2>8. CASE UNCHANGED Status BY <2>8
  <2> HIDE DEF StaysDeleted
  <2> QED
    BY <1>4, <2>1, <2>2, <2>3, <2>4, <2>5, <2>6, <2>7, <2>8
    DEF PortThread, PortThreadWaits, PortThreadExits, PortThreadTakes, DevQueryPrint,
        PrintRawJob, ReadPrinterWakes, WritePort, ClosePrinter, SentToPrinterTail,
        EndDocPortDone, ClosePrintProcessor
<1>5. CASE SchedulerThread
  <2>1. ASSUME NEW p, NEW j, NEW d, AssignJob(p, j, d) PROVE StaysDeleted
    BY <2>1 DEF AssignJob
  <2>2. ASSUME NEW p \in Ports, AbandonJob(p) PROVE StaysDeleted BY <2>2 DEF AbandonJob
  <2>3. ASSUME NEW p \in Ports, ScheduleFirstJob(p) \/ ScheduleByMemory(p) \/ SchedulePort(p)
        PROVE  \E j, d : AssignJob(p, j, d)
    BY <2>3 DEF ScheduleFirstJob, ScheduleByMemory, ScheduleFromWaitingList, SchedulePort
  <2>4. CASE UNCHANGED Status BY <2>4
  <2> HIDE DEF StaysDeleted
  <2> QED
    BY <1>5, <2>1, <2>2, <2>3, <2>4
    DEF SchedulerThread, SchedulerWakes, UpdateJobList, NoFirstJob, NoMoreByMemory,
        AbandonLogged, PortThreadGone, PortThreadReady, SchedulerSleeps, JobExpires,
        DropWaitingJob, DestroyPortThread, CreatePortThread, SkipPort
<1> HIDE DEF StaysDeleted
<1> QED BY <1>1, <1>2, <1>3, <1>4, <1>5 DEF Next

\* A deletion that was begun is never taken back, by no interleaving of the
\* threads, on a printer that waits for its jobs to be spooled and does not keep
\* them (job.c 1346: "JOB_CONTROL_DELETE is meant to delete the job").
THEOREM DeletionsFinal == ASSUME OnlyWhenSpooled PROVE Spec => DeletionIsFinal
<1>1. TypeInv /\ NotWhileSpooling /\ KnownJobs /\ [Next]_vars =>
        [\A j \in Jobs : "PENDING_DELETION" \in Status[j] => "PENDING_DELETION" \in Status'[j]]_vars
  BY DeletionStays DEF StaysDeleted
<1>2. Spec => []NotWhileSpooling BY NotWhileSpoolingAlways DEF OnlyWhenSpooled
<1> QED BY <1>1, <1>2, TypesAlways, KnownJobsAlways, PTL DEF Spec, DeletionIsFinal
----------------------------------------------------------------------------
(***************************************************************************)
(* Chains of jobs.  ChainFrom follows as many links as there are jobs; the *)
(* argument is about all jobs that links lead to, the members of every set *)
(* that no link leaves.  The two agree as long as there is no cycle: each  *)
(* link then leads to a job from which strictly fewer can be reached.      *)
(***************************************************************************)
Closed(S) == \A k \in S : job[k].NextJobId \in S \cup {NoJob}
Reach(j) == {k \in Jobs : \A S \in SUBSET Jobs : j \in S /\ Closed(S) => k \in S}
NoCycle == \A j \in Jobs : job[j].NextJobId \in Jobs => j \notin Reach(job[j].NextJobId)

\* Induction over the naturals, for sets.
LEMMA NatSets ==
  ASSUME NEW T \in SUBSET Nat, 0 \in T, \A n \in T : n + 1 \in T
  PROVE  T = Nat
<1>1. SUFFICES ASSUME Nat \ T # {} PROVE FALSE OBVIOUS
<1> DEFINE R == OpToRel(<, Nat)
<1>2. PICK x \in Nat \ T : \A y \in Nat \ T : <<y, x>> \notin R
  <2>1. IsWellFoundedOn(R, Nat) BY NatLessThanWellFounded
  <2> HIDE DEF R
  <2> QED BY <1>1, <2>1, WFMin
<1>3. \A y \in Nat : y < x => <<y, x>> \in R BY DEF OpToRel
<1> HIDE DEF R
<1>4. x # 0 BY <1>2
<1>5. x - 1 \in Nat /\ x - 1 < x BY <1>2, <1>4
<1>6. x - 1 \in T BY <1>2, <1>3, <1>5
<1>7. (x - 1) + 1 = x BY <1>2
<1> QED BY <1>2, <1>6, <1>7

\* A function can be iterated.
LEMMA Iterates ==
  ASSUME NEW U, NEW a \in U, NEW step \in [U -> U]
  PROVE  \E f \in [Nat -> U] : f[0] = a /\ \A n \in Nat : f[n + 1] = step[f[n]]
<1> DEFINE Good(g, n) == g \in [0 .. n -> U] /\ g[0] = a /\ \A m \in 0 .. n - 1 : g[m + 1] = step[g[m]]
<1>1. \A n \in Nat : \E g : Good(g, n)
  <2> DEFINE T == {n \in Nat : \E g : Good(g, n)}
  <2>1. 0 \in T
    <3>1. Good([m \in 0 .. 0 |-> a], 0) OBVIOUS
    <3> QED BY <3>1
  <2>2. ASSUME NEW n \in T PROVE n + 1 \in T
    <3>1. PICK g : Good(g, n) BY <2>2
    <3> DEFINE h == [m \in 0 .. n + 1 |-> IF m = n + 1 THEN step[g[n]] ELSE g[m]]
    <3>2. n \in Nat /\ n + 1 \in Nat BY <2>2
    <3>3. \A m \in 0 .. n + 1 : m # n + 1 => m \in 0 .. n BY <3>2
    <3>4. h \in [0 .. n + 1 -> U] BY <3>1, <3>2, <3>3
    <3>5. h[0] = a BY <3>1, <3>2
    <3>6. ASSUME NEW m \in 0 .. (n + 1) - 1 PROVE h[m + 1] = step[h[m]]
      <4>1. m \in 0 .. n /\ m \in 0 .. n + 1 /\ m + 1 \in 0 .. n + 1 /\ m # n + 1 BY <3>2, <3>6
      <4>2. h[m] = g[m] BY <4>1
      <4>3. CASE m = n BY <4>1, <4>2, <4>3
      <4>4. CASE m # n
        <5>1. m \in 0 .. n - 1 /\ m + 1 # n + 1 BY <3>2, <4>1, <4>4
        <5>2. h[m + 1] = g[m + 1] BY <4>1, <5>1
        <5> QED BY <3>1, <4>2, <5>1, <5>2
      <4> QED BY <4>3, <4>4
    <3> HIDE DEF h
    <3>7. Good(h, n + 1) BY <3>4, <3>5, <3>6
    <3> QED BY <3>2, <3>7
  <2> HIDE DEF T
  <2>3. T = Nat
    <3>1. T \in SUBSET Nat BY DEF T
    <3> QED BY <2>1, <2>2, <3>1, NatSets
  <2> QED BY <2>3 DEF T
<1>2. ASSUME NEW n \in Nat, NEW g, Good(g, n), NEW h, Good(h, n + 1) PROVE g[n] = h[n]
  <2> DEFINE T == {m \in Nat : m <= n => g[m] = h[m]}
  <2>1. 0 \in T BY <1>2
  <2>2. ASSUME NEW m \in T PROVE m + 1 \in T
    <3>1. m \in Nat BY <2>2
    <3>2. CASE m + 1 <= n
      <4>1. m \in 0 .. n - 1 /\ m \in 0 .. (n + 1) - 1 BY <3>1, <3>2
      <4>2. g[m + 1] = step[g[m]] /\ h[m + 1] = step[h[m]] BY <1>2, <4>1
      <4>3. g[m] = h[m] BY <2>2, <4>1
      <4> QED BY <3>1, <4>2, <4>3
    <3>3. CASE ~ (m + 1 <= n) BY <3>1, <3>3
    <3> QED BY <3>2, <3>3
  <2> HIDE DEF T
  <2>3. T = Nat
    <3>1. T \in SUBSET Nat BY DEF T
    <3> QED BY <2>1, <2>2, <3>1, NatSets
  <2> QED BY <2>3 DEF T
<1> DEFINE g(n) == CHOOSE g : Good(g, n)
           f == [n \in Nat |-> g(n)[n]]
<1>3. \A n \in Nat : Good(g(n), n) BY <1>1
<1> HIDE DEF g
<1>4. f \in [Nat -> U]
  <2>1. ASSUME NEW n \in Nat PROVE g(n)[n] \in U
    <3>1. n \in 0 .. n OBVIOUS
    <3> QED BY <1>3, <3>1
  <2> QED BY <2>1
<1>5. f[0] = a BY <1>3
<1>6. ASSUME NEW n \in Nat PROVE f[n + 1] = step[f[n]]
  <2>1. Good(g(n), n) /\ Good(g(n + 1), n + 1) BY <1>3
  <2>2. g(n)[n] = g(n + 1)[n] BY <1>2, <2>1
  <2>3. n \in 0 .. (n + 1) - 1 OBVIOUS
  <2>4. g(n + 1)[n + 1] = step[g(n + 1)[n]] BY <2>1, <2>3
  <2> QED BY <2>2, <2>4
<1> HIDE DEF f, Good
<1> QED BY <1>4, <1>5, <1>6

\* What ChainFrom computes: each of its sets has the last one and where its links lead.
LEMMA ChainSteps ==
  ASSUME TypeInv, NEW j \in Jobs
  PROVE  \E A \in [Nat -> SUBSET (Jobs \cup {NoJob})] :
           /\ A[0] = {job[j].NextJobId}
           /\ \A n \in Nat : A[n + 1] = A[n] \cup {job[k].NextJobId : k \in A[n] \ {NoJob}}
           /\ ChainFrom(j) = A[Cardinality(Jobs)]
<1> DEFINE U == SUBSET (Jobs \cup {NoJob})
           a == {job[j].NextJobId}
           step == [S \in U |-> S \cup {job[k].NextJobId : k \in S \ {NoJob}}]
           F(A) == [n \in Nat |-> IF n = 0 THEN {job[j].NextJobId}
                          ELSE A[n - 1] \cup {job[k].NextJobId : k \in A[n - 1] \ {NoJob}}]
<1>1. \A k \in Jobs : job[k].NextJobId \in Jobs \cup {NoJob} BY DEF TypeInv, TypeOK, JobTypes, JobRecords
<1>2. a \in U BY <1>1
<1>3. step \in [U -> U] BY <1>1
<1>4. PICK f \in [Nat -> U] : f[0] = a /\ \A n \in Nat : f[n + 1] = step[f[n]]
  <2> HIDE DEF a, step, U
  <2> QED BY <1>2, <1>3, Iterates
<1>5. f = F(f)
  <2>1. ASSUME NEW n \in Nat PROVE f[n] = F(f)[n]
    <3>1. CASE n = 0 BY <1>4, <3>1
    <3>2. CASE n # 0
      <4>1. n - 1 \in Nat /\ (n - 1) + 1 = n BY <3>2
      <4>2. f[n] = step[f[n - 1]] BY <1>4, <4>1
      <4>3. f[n - 1] \in U BY <4>1
      <4>4. f[n] = f[n - 1] \cup {job[k].NextJobId : k \in f[n - 1] \ {NoJob}} BY <4>2, <4>3
      <4>5. F(f)[n] = f[n - 1] \cup {job[k].NextJobId : k \in f[n - 1] \ {NoJob}} BY <3>2
      <4> QED BY <4>4, <4>5
    <3> QED BY <3>1, <3>2
  <2> HIDE DEF U
  <2> QED BY <2>1
<1> DEFINE A == CHOOSE A : A = F(A)
<1>6. A = F(A) BY <1>5
<1>7. ChainFrom(j) = A[Cardinality(Jobs)] BY DEF ChainFrom
<1> HIDE DEF A
<1>8. A[0] = a BY <1>6
<1>9. ASSUME NEW n \in Nat PROVE A[n + 1] = A[n] \cup {job[k].NextJobId : k \in A[n] \ {NoJob}}
  <2>1. n + 1 \in Nat /\ n + 1 # 0 /\ (n + 1) - 1 = n OBVIOUS
  <2> QED BY <1>6, <2>1
<1>10. \A n \in Nat : A[n] \in U
  <2> DEFINE T == {n \in Nat : A[n] \in U}
  <2>1. 0 \in T BY <1>2, <1>8
  <2>2. ASSUME NEW n \in T PROVE n + 1 \in T BY <1>1, <1>9, <2>2
  <2> HIDE DEF T
  <2>3. T = Nat
    <3>1. T \in SUBSET Nat BY DEF T
    <3> QED BY <2>1, <2>2, <3>1, NatSets
  <2> QED BY <2>3 DEF T
<1>11. A \in [Nat -> U]
  <2>1. A = [n \in Nat |-> A[n]] BY <1>6
  <2> HIDE DEF U, F
  <2> QED BY <1>10, <2>1
<1> HIDE DEF F, step, U
<1> QED BY <1>7, <1>8, <1>9, <1>11 DEF U

\* What is known of the links.
LEMMA LinkTypes ==
  ASSUME TypeInv
  PROVE  /\ \A k \in Jobs : job[k].NextJobId \in Jobs \cup {NoJob}
         /\ NoJob \notin Jobs /\ IsFiniteSet(Jobs) /\ Cardinality(Jobs) \in Nat
         /\ job \in [Jobs -> JobRecords]
<1>1. job \in [Jobs -> JobRecords] BY DEF TypeInv, TypeOK, JobTypes
<1>2. \A k \in Jobs : job[k].NextJobId \in Jobs \cup {NoJob} BY <1>1 DEF JobRecords
<1>3. NoJob \notin Jobs /\ IsFiniteSet(Jobs) BY ConstantsAssumption DEF ConstantsAssumption
<1> QED BY <1>1, <1>2, <1>3, FS_CardinalityType

\* A job can be reached from itself, and so is what a job that is reached links to.
LEMMA ReachClosed ==
  ASSUME TypeInv, NEW j \in Jobs
  PROVE  j \in Reach(j) /\ Reach(j) \subseteq Jobs /\ Closed(Reach(j))
<1>1. \A k \in Jobs : job[k].NextJobId \in Jobs \cup {NoJob} BY LinkTypes
<1>2. j \in Reach(j) /\ Reach(j) \subseteq Jobs BY DEF Reach
<1>3. ASSUME NEW k \in Reach(j), job[k].NextJobId # NoJob PROVE job[k].NextJobId \in Reach(j)
  <2>1. job[k].NextJobId \in Jobs BY <1>1, <1>2, <1>3
  <2>2. \A S \in SUBSET Jobs : j \in S /\ Closed(S) => job[k].NextJobId \in S
    BY <1>3 DEF Reach, Closed
  <2> QED BY <2>1, <2>2 DEF Reach
<1> QED BY <1>2, <1>3 DEF Closed

\* From a set that no link leaves, nothing else is reached.
LEMMA ReachLeast ==
  ASSUME NEW S \in SUBSET Jobs, Closed(S), NEW j \in S
  PROVE  Reach(j) \subseteq S
BY DEF Reach

\* Where there is no cycle, a link leads to a job from which fewer are reached.
LEMMA ReachShrinks ==
  ASSUME TypeInv, NoCycle, NEW j \in Jobs, job[j].NextJobId \in Jobs
  PROVE  Cardinality(Reach(job[j].NextJobId)) < Cardinality(Reach(j))
<1> DEFINE n == job[j].NextJobId
<1>1. j \in Reach(j) /\ Reach(j) \in SUBSET Jobs /\ Closed(Reach(j)) BY ReachClosed
<1>2. n \in Reach(j) BY <1>1, LinkTypes DEF Closed
<1>3. Reach(n) \in SUBSET Reach(j) BY <1>1, <1>2, ReachLeast
<1>4. Reach(n) # Reach(j) BY <1>1 DEF NoCycle
<1>5. IsFiniteSet(Reach(j)) BY <1>1, LinkTypes, FS_Subset
<1> HIDE DEF n
<1>6. /\ Cardinality(Reach(n)) <= Cardinality(Reach(j))
      /\ Cardinality(Reach(n)) = Cardinality(Reach(j)) => Reach(j) = Reach(n)
      /\ IsFiniteSet(Reach(n))
  BY <1>3, <1>5, FS_Subset
<1>7. Cardinality(Reach(n)) \in Nat /\ Cardinality(Reach(j)) \in Nat
  BY <1>5, <1>6, FS_CardinalityType
<1> QED BY <1>4, <1>6, <1>7 DEF n

\* How many they are.
LEMMA ReachSize ==
  ASSUME TypeInv, NEW j \in Jobs
  PROVE  Cardinality(Reach(j)) \in 1 .. Cardinality(Jobs)
<1>1. j \in Reach(j) /\ Reach(j) \in SUBSET Jobs BY ReachClosed
<1>2. IsFiniteSet(Reach(j)) /\ Cardinality(Reach(j)) <= Cardinality(Jobs)
  BY <1>1, LinkTypes, FS_Subset
<1>3. Cardinality(Reach(j)) \in Nat BY <1>2, FS_CardinalityType
<1>4. Cardinality(Reach(j)) # 0 BY <1>1, <1>2, FS_EmptySet
<1> QED BY <1>2, <1>3, <1>4, LinkTypes

\* ChainFrom goes far enough: it finds what can be reached, and nothing else.
LEMMA ChainReach ==
  ASSUME TypeInv, NoCycle, NEW j \in Jobs
  PROVE  /\ job[j].NextJobId \in Jobs => ChainFrom(j) \cap Jobs = Reach(job[j].NextJobId)
         /\ job[j].NextJobId \notin Jobs => ChainFrom(j) \cap Jobs = {}
<1>1. PICK A \in [Nat -> SUBSET (Jobs \cup {NoJob})] :
        /\ A[0] = {job[j].NextJobId}
        /\ \A n \in Nat : A[n + 1] = A[n] \cup {job[k].NextJobId : k \in A[n] \ {NoJob}}
        /\ ChainFrom(j) = A[Cardinality(Jobs)]
  BY ChainSteps
<1>2. /\ \A k \in Jobs : job[k].NextJobId \in Jobs \cup {NoJob}
      /\ NoJob \notin Jobs /\ Cardinality(Jobs) \in Nat
  BY LinkTypes
<1>3. ASSUME NEW S \in SUBSET Jobs, Closed(S), job[j].NextJobId \in S \cup {NoJob}
      PROVE  \A n \in Nat : A[n] \subseteq S \cup {NoJob}
  <2> DEFINE T == {n \in Nat : A[n] \subseteq S \cup {NoJob}}
  <2>1. 0 \in T BY <1>1, <1>3
  <2>2. ASSUME NEW n \in T PROVE n + 1 \in T
    <3>1. \A k \in A[n] \ {NoJob} : job[k].NextJobId \in S \cup {NoJob} BY <1>3, <2>2 DEF Closed
    <3> QED BY <1>1, <2>2, <3>1
  <2> HIDE DEF T
  <2>3. T = Nat
    <3>1. T \in SUBSET Nat BY DEF T
    <3> QED BY <2>1, <2>2, <3>1, NatSets
  <2> QED BY <2>3 DEF T
<1>4. CASE job[j].NextJobId \notin Jobs
  <2>1. {} \in SUBSET Jobs /\ Closed({}) /\ job[j].NextJobId \in {} \cup {NoJob}
    BY <1>2, <1>4 DEF Closed
  <2>2. A[Cardinality(Jobs)] \subseteq {} \cup {NoJob} BY <1>2, <1>3, <2>1
  <2> QED BY <1>1, <1>2, <1>4, <2>2
<1>5. CASE job[j].NextJobId \in Jobs
  <2> DEFINE next == job[j].NextJobId
             N == Cardinality(Jobs)
             Rest(k) == Cardinality(Reach(k))
             T == {m \in Nat : next \in A[m] /\ \A k \in A[m] \cap Jobs :
                                 job[k].NextJobId \in A[m] \cup {NoJob} \/ Rest(k) <= N - m}
  <2>1. next \in Reach(next) /\ Reach(next) \in SUBSET Jobs /\ Closed(Reach(next))
    BY <1>5, ReachClosed
  <2>2. A[N] \subseteq Reach(next) \cup {NoJob}
    <3>1. next \in Reach(next) \cup {NoJob} BY <2>1
    <3> QED BY <1>2, <1>3, <2>1, <3>1
  <2>3. \A k \in Jobs : Rest(k) \in 1 .. N BY ReachSize
  <2>4. \A k \in Jobs : job[k].NextJobId \in Jobs => Rest(job[k].NextJobId) < Rest(k)
    BY ReachShrinks
  <2> HIDE DEF N, Rest
  <2>5. N \in Nat BY <1>2 DEF N
  <2>6. 0 \in T BY <1>1, <2>3, <2>5
  <2>7. ASSUME NEW m \in T PROVE m + 1 \in T
    <3>1. m \in Nat /\ next \in A[m + 1] BY <1>1, <2>7
    <3>2. ASSUME NEW k \in A[m + 1] \cap Jobs, job[k].NextJobId \notin A[m + 1] \cup {NoJob}
          PROVE  Rest(k) <= N - (m + 1)
      <4>1. k \notin A[m] BY <1>1, <1>2, <3>1, <3>2
      <4>2. PICK i \in A[m] \ {NoJob} : k = job[i].NextJobId BY <1>1, <3>1, <3>2, <4>1
      <4>3. i \in Jobs BY <1>1, <3>1, <4>2
      <4>4. job[i].NextJobId \notin A[m] \cup {NoJob} BY <1>2, <3>2, <4>1, <4>2
      <4>5. Rest(i) <= N - m BY <2>7, <4>2, <4>3, <4>4
      <4>6. Rest(k) < Rest(i) BY <2>4, <3>2, <4>2, <4>3
      <4>7. Rest(i) \in Nat /\ Rest(k) \in Nat BY <2>3, <3>2, <4>3
      <4> QED BY <2>5, <3>1, <4>5, <4>6, <4>7
    <3>3. \A k \in A[m + 1] \cap Jobs :
            job[k].NextJobId \in A[m + 1] \cup {NoJob} \/ Rest(k) <= N - (m + 1)
      BY <3>2
    <3> QED BY <3>1, <3>3
  <2>8. N \in T
    <3>1. T \in SUBSET Nat OBVIOUS
    <3> HIDE DEF T
    <3>2. T = Nat BY <2>6, <2>7, <3>1, NatSets
    <3> QED BY <2>5, <3>2
  <2>9. next \in A[N] /\ \A k \in A[N] \cap Jobs : job[k].NextJobId \in A[N] \cup {NoJob}
    <3>1. \A k \in Jobs : ~ (Rest(k) <= N - N) BY <2>3, <2>5
    <3> QED BY <2>8, <3>1
  <2>10. Closed(A[N] \cap Jobs) BY <1>2, <2>9 DEF Closed
  <2>11. Reach(next) \subseteq A[N] \cap Jobs
    <3>1. next \in A[N] \cap Jobs /\ A[N] \cap Jobs \in SUBSET Jobs BY <1>5, <2>9
    <3> QED BY <2>10, <3>1, ReachLeast
  <2>12. A[N] \cap Jobs = Reach(next) BY <1>2, <2>1, <2>2, <2>11
  <2> QED BY <1>1, <1>5, <2>12 DEF N
<1> QED BY <1>4, <1>5

\* So what is said of ChainFrom follows.
LEMMA NoCycleInChain ==
  ASSUME TypeInv, NoCycle
  PROVE  ChainAcyclic
<1> SUFFICES ASSUME NEW j \in Jobs PROVE j \notin ChainFrom(j) BY DEF ChainAcyclic
<1> QED BY ChainReach DEF NoCycle

\* A set that no link leaves is left by none when there are fewer links.
LEMMA FewerLinks ==
  ASSUME TypeInv, TypeInv', NoCycle,
         \A k \in Jobs : job'[k].NextJobId \in {job[k].NextJobId, NoJob}
  PROVE  NoCycle'
<1>1. \A S \in SUBSET Jobs : Closed(S) => Closed(S)' BY DEF Closed
<1>2. \A j, k \in Jobs : j \notin Reach(k) => j \notin Reach(k)' BY <1>1 DEF Reach
<1>3. NoJob \notin Jobs BY LinkTypes
<1>4. ASSUME NEW j \in Jobs, job'[j].NextJobId \in Jobs PROVE j \notin Reach(job[j].NextJobId)'
  <2>1. job'[j].NextJobId = job[j].NextJobId BY <1>3, <1>4
  <2>2. j \notin Reach(job[j].NextJobId) BY <1>4, <2>1 DEF NoCycle
  <2>3. \A k : k = job[j].NextJobId => j \notin Reach(k)' BY <1>2, <1>4, <2>1, <2>2
  <2> QED BY <2>1, <2>3
<1> QED BY <1>4 DEF NoCycle

\* A new link from j to n makes no cycle if j cannot be reached from n.
LEMMA OneLink ==
  ASSUME TypeInv, TypeInv', NoCycle, NEW j \in Jobs, NEW n \in Jobs, j \notin Reach(n),
         job[j].NextJobId = NoJob, job'[j].NextJobId = n,
         \A k \in Jobs \ {j} : job'[k].NextJobId = job[k].NextJobId
  PROVE  NoCycle'
<1>1. NoJob \notin Jobs BY LinkTypes
<1>2. /\ n \in Reach(n) /\ Reach(n) \in SUBSET Jobs /\ Closed(Reach(n))
      /\ \A k \in Jobs : k \in Reach(k) /\ Reach(k) \in SUBSET Jobs /\ Closed(Reach(k))
  BY ReachClosed
<1>3. ASSUME NEW S \in SUBSET Jobs, Closed(S), j \notin S \/ n \in S PROVE Closed(S)'
  BY <1>3 DEF Closed
<1>4. ASSUME NEW S \in SUBSET Jobs, Closed(S)', NEW y \in S, NEW x \in Jobs \ S
      PROVE  x \notin Reach(y)'
  BY <1>4 DEF Reach
<1>5. ASSUME NEW x \in Jobs, NEW y \in Jobs, y = job'[x].NextJobId PROVE x \notin Reach(y)'
  <2>1. CASE x = j
    <3>1. y = n BY <1>5, <2>1
    <3>2. \A S : S = Reach(n) => Closed(S)' BY <1>2, <1>3
    <3>3. \A S : S = Reach(n) => x \notin Reach(y)' BY <1>2, <1>4, <2>1, <3>1, <3>2
    <3> QED BY <3>3
  <2>2. CASE x # j
    <3>1. y = job[x].NextJobId BY <1>5, <2>2
    <3>2. x \notin Reach(y) BY <1>5, <3>1 DEF NoCycle
    <3>3. CASE j \notin Reach(y)
      <4>1. \A S : S = Reach(y) => Closed(S)' BY <1>2, <1>3, <3>3
      <4>2. \A S : S = Reach(y) => x \notin Reach(y)' BY <1>2, <1>4, <3>2, <4>1
      <4> QED BY <4>2
    <3>4. CASE j \in Reach(y)
      <4>1. x \notin Reach(n)
        <5>1. SUFFICES ASSUME x \in Reach(n) PROVE FALSE OBVIOUS
        <5>2. y \in Reach(n) BY <1>1, <1>2, <3>1, <5>1 DEF Closed
        <5>3. Reach(y) \subseteq Reach(n) BY <1>2, <5>2, ReachLeast
        <5> QED BY <3>4, <5>3
      <4>2. ASSUME NEW S, S = Reach(y) \cup Reach(n) PROVE x \notin Reach(y)'
        <5>1. S \in SUBSET Jobs /\ n \in S /\ y \in S /\ x \notin S BY <1>2, <3>2, <4>1, <4>2
        <5>2. Closed(S) BY <1>2, <4>2 DEF Closed
        <5>3. Closed(S)' BY <1>3, <5>1, <5>2
        <5> QED BY <1>4, <5>1, <5>3
      <4> QED BY <4>2
    <3> QED BY <3>3, <3>4
  <2> QED BY <2>1, <2>2
<1>6. ASSUME NEW x \in Jobs, job'[x].NextJobId \in Jobs PROVE x \notin Reach(job[x].NextJobId)'
  <2>1. \A y : y = job'[x].NextJobId => x \notin Reach(y)' BY <1>5, <1>6
  <2> QED BY <2>1
<1> QED BY <1>6 DEF NoCycle

\* Every step leaves the links without a cycle.
LEMMA NoCycleNext ==
  ASSUME TypeInv, TypeInv', NoCycle, [Next]_vars
  PROVE  NoCycle'
<1>1. CASE \A k \in Jobs : job'[k].NextJobId \in {job[k].NextJobId, NoJob} BY <1>1, FewerLinks
<1>2. ASSUME NEW t \in Threads, DeleteJob(t) PROVE NoCycle' BY <1>1, <1>2, DeleteJobLinks
<1>3. ASSUME NEW j \in Jobs, Application(j) PROVE NoCycle' BY <1>1, <1>3, ApplicationLinks
<1>4. ASSUME NEW c \in Clients, Client(c) PROVE NoCycle'
  <2>1. CASE \A k \in Jobs : job'[k].NextJobId = job[k].NextJobId BY <1>1, <2>1
  <2>2. ASSUME NEW j \in Jobs, NEW n \in Jobs,
               n \in Queued \ {j}, job[j].NextJobId = NoJob, j \notin ChainFrom(n),
               job'[j].NextJobId = n, \A i \in Jobs \ {j} : job'[i].NextJobId = job[i].NextJobId
        PROVE  NoCycle'
    <3>1. j \notin Reach(n)
      <4>1. CASE job[n].NextJobId \in Jobs
        <5>1. j \notin Reach(job[n].NextJobId) BY <2>2, <4>1, ChainReach
        <5>2. Closed(Reach(job[n].NextJobId)) /\ job[n].NextJobId \in Reach(job[n].NextJobId)
              /\ Reach(job[n].NextJobId) \in SUBSET Jobs
          BY <4>1, ReachClosed
        <5> DEFINE S == Reach(job[n].NextJobId) \cup {n}
        <5>3. S \in SUBSET Jobs /\ Closed(S) /\ n \in S /\ j \notin S BY <2>2, <5>1, <5>2 DEF Closed
        <5> HIDE DEF S
        <5> QED BY <5>3, ReachLeast
      <4>2. CASE job[n].NextJobId \notin Jobs
        <5>1. Closed({n}) BY <4>2, LinkTypes DEF Closed
        <5> QED BY <2>2, <5>1, ReachLeast
      <4> QED BY <4>1, <4>2
    <3> QED BY <2>2, <3>1, OneLink
  <2> QED BY <1>4, <2>1, <2>2, ClientLinks
<1>5. ASSUME NEW p \in Ports, PortThread(p) PROVE NoCycle' BY <1>1, <1>5, PortThreadLinks
<1>6. CASE SchedulerThread BY <1>1, <1>6, SchedulerLinks
<1>7. CASE UNCHANGED vars
  <2>1. UNCHANGED job BY <1>7 DEF vars, jobVars
  <2> QED BY <1>1, <2>1
<1> QED BY <1>2, <1>3, <1>4, <1>5, <1>6, <1>7 DEF Next

\* A chain of jobs printed as one never comes back to where it started: SetJob
\* level 3 follows the whole chain (job.c 779) under the hold of SplSem that adds
\* the link, and all others only take links away, whatever is deleted, chained or
\* printed meanwhile.
THEOREM ChainsEnd == Spec => []ChainAcyclic
<1>1. Init => NoCycle
  BY ConstantsAssumption DEF ConstantsAssumption, Init, NoCycle
<1>2. TypeInv /\ TypeInv' /\ NoCycle /\ [Next]_vars => NoCycle' BY NoCycleNext
<1>3. TypeInv /\ NoCycle => ChainAcyclic BY NoCycleInChain
<1> QED BY <1>1, <1>2, <1>3, TypesAlways, PTL DEF Spec

----------------------------------------------------------------------------
(***************************************************************************)
(* What is printed was read, where jobs are spooled before they print and  *)
(* users neither cancel, delete nor chain them.  A port's thread ends its  *)
(* document when it has read the job to its end, or because the job is to  *)
(* be deleted or restarted; then EndDocPrinter marks it as interrupted     *)
(* before the monitor's SetJob may mark it as printed.  The print          *)
(* processor itself is told to stop by the DeleteJob of that SetJob only.  *)
(***************************************************************************)

\* Users pause, resume and restart jobs, and applications abort their own.
JobsAreLeft == {"CANCEL", "DELETE", "CHAIN"} \cap Commands = {}

\* Where a port's thread has not told the monitor yet that the document is over,
\* and where it has.
AtWork == {"taken", "devq", "open", "print", "read", "again", "write", "closejob", "enddoc", "sent"}
Ended  == {"tail", "ended", "close", "closeproc"}
Stopped(j) == Has(j, {"PENDING_DELETION", "RESTART"})

\* No more is unread than was written, and nothing of a printed job.
JobReads(j) ==
  /\ job[j].unread <= job[j].data /\ (job[j].Size = 0 => job[j].data = 0)
  /\ app[j] \in {"spooling", "cancelled"} => "SPOOLING" \in Status[j]
  /\ "SPOOLING" \in Status[j] => "PRINTED" \notin Status[j]
  /\ "PRINTED" \in Status[j] => job[j].unread = 0

\* A port's job is not marked as printed before its document ends, and the document
\* ends before its job was read only if the job is to stop.
PortReads(p) ==
  /\ Woken(p) => "PRINTED" \notin Status[port[p].pIniJob]
  /\ pt[p].pc \in AtWork => "PRINTED" \notin Status[pt[p].job]
  /\ pt[p].pc \in {"closejob", "enddoc"} => job[pt[p].job].unread = 0 \/ Stopped(pt[p].job)
  /\ pt[p].pc = "sent" => job[pt[p].job].unread = 0 \/ "INTERRUPTED" \in Status[pt[p].job]
  /\ port[p].hProc = "aborted" => pt[p].pc \in Ended

\* DeleteJob tells a print processor to stop only in the SetJob of that port's thread.
DeletesOwn(t) ==
  /\ del[t].pc = "start" =>
       \/ "PENDING_DELETION" \in Status[del[t].job]
       \/ t \in Ports /\ pt[t].pc = "tail" /\ pt[t].job = del[t].job
  /\ del[t].pc \in {"cancel", "control"} =>
       t \in Ports /\ pt[t].pc = "tail" /\ del[t].port = t

\* The inductive invariant.
ReadInv ==
  /\ \A j \in Jobs : JobReads(j)
  /\ \A p \in Ports : PortReads(p)
  /\ \A t \in Threads : DeletesOwn(t)
  /\ \A c \in Clients : client[c].pc # "alert"

\* What the proof takes from the earlier sections.
ReadGround ==
  TypeInv /\ Ownership /\ Unchained /\ PortsGivenJobs /\ InSection /\ NotWhileSpooling

\* A step that nobody who reads job j, or marks it as printed, has to know of.
Calm(j) ==
  /\ job'[j].unread = job[j].unread /\ job'[j].data = job[j].data /\ job'[j].Size = job[j].Size
  /\ app'[j] \in {"spooling", "cancelled"} =>
       app[j] \in {"spooling", "cancelled"} /\ ("SPOOLING" \in Status[j] => "SPOOLING" \in Status'[j])
  /\ Status'[j] \cap {"SPOOLING", "PRINTED"} \subseteq Status[j]
  /\ "INTERRUPTED" \in Status[j] => "INTERRUPTED" \in Status'[j]
  /\ "PENDING_DELETION" \in Status[j] => "PENDING_DELETION" \in Status'[j]
  /\ "RESTART" \in Status[j] => {"RESTART", "PENDING_DELETION"} \cap Status'[j] # {}

\* The job stays as it should be, ...
LEMMA CalmReads ==
  ASSUME NEW j \in Jobs, JobReads(j), Calm(j)
  PROVE  JobReads(j)'
BY DEF JobReads, Calm

\* ... and so does a port whose thread does nothing and whose job is left alone.
LEMMA CalmPort ==
  ASSUME TypeInv, PortsGivenJobs, NEW p \in Ports, PortReads(p), pt'[p] = pt[p],
         Woken(p)' => Woken(p) /\ port'[p].pIniJob = port[p].pIniJob,
         port'[p].hProc = "aborted" => port[p].hProc = "aborted" \/ pt[p].pc \in Ended,
         \A j \in Jobs : j \in Claimed(p) => Calm(j)
  PROVE  PortReads(p)'
<1>n. NoJob \notin Jobs BY ConstantsAssumption DEF ConstantsAssumption
<1>1. Woken(p) => port[p].pIniJob \in Jobs
  BY DEF PortsGivenJobs, TypeInv, TypeOK, GlobalTypes, PortRecords
<1>2. pt[p].pc \in AtWork => pt[p].job \in Jobs BY DEF AtWork, TypeInv, PortsHaveJobs, Jobless
<1>3. Woken(p)' => "PRINTED" \notin Status'[port'[p].pIniJob]
  BY <1>n, <1>1 DEF PortReads, Claimed, Calm
<1>4. ASSUME pt[p].pc \in AtWork
      PROVE  /\ "PRINTED" \notin Status'[pt[p].job]
             /\ pt[p].pc \in {"closejob", "enddoc"} => job'[pt[p].job].unread = 0 \/ Stopped(pt[p].job)'
             /\ pt[p].pc = "sent" => job'[pt[p].job].unread = 0 \/ "INTERRUPTED" \in Status'[pt[p].job]
  <2>1. Calm(pt[p].job) BY <1>n, <1>2, <1>4 DEF Claimed
  <2> QED BY <1>4, <2>1 DEF PortReads, Calm, Stopped, Has
<1>5. port'[p].hProc = "aborted" => pt'[p].pc \in Ended BY DEF PortReads
<1> QED BY <1>3, <1>4, <1>5 DEF PortReads, AtWork

\* A stretch of thread t that calls DeleteJob for a job pending deletion, or at the
\* end of its document, keeps DeletesOwn: nobody else is about to delete a job, or
\* the stretch takes no deletion back.
LEMMA StretchDeletesOwn ==
  ASSUME TypeInv, InSection, \A s \in Threads : DeletesOwn(s),
         NEW t \in Threads, NEW j, MayDelete(t, j),
         splSem \in {NoThread, t} \/ UNCHANGED Status,
         \A p \in Ports \ {t} : pt[p].pc = "tail" => pt'[p] = pt[p],
         \/ UNCHANGED del
         \/ "PENDING_DELETION" \in Status'[j]
         \/ t \in Ports /\ pt'[t].pc = "tail" /\ pt'[t].job = j
  PROVE  \A s \in Threads : DeletesOwn(s)'
<1>d. del \in [Threads -> DelRecords] BY DEF TypeInv, TypeOK, DeleteTypes
<1>1. ASSUME NEW s \in Threads \ {t} PROVE DeletesOwn(s)'
  <2>1. del'[s] = del[s] BY <1>d DEF MayDelete, Call
  <2>2. del[s].pc = "start" => UNCHANGED Status
    BY ConstantsAssumption DEF ConstantsAssumption, InSection
  <2>3. s \in Ports /\ pt[s].pc = "tail" => pt'[s] = pt[s] OBVIOUS
  <2> QED BY <2>1, <2>2, <2>3 DEF DeletesOwn
<1>2. DeletesOwn(t)'
  <2>1. CASE UNCHANGED del BY <2>1 DEF DeletesOwn, MayDelete
  <2>2. CASE ~ UNCHANGED del
    <3>1. del'[t].pc = "start" /\ del'[t].job = j BY <1>d, <2>2 DEF MayDelete, Call
    <3> QED BY <2>2, <3>1 DEF DeletesOwn
  <2> QED BY <2>1, <2>2
<1> QED BY <1>1, <1>2

\* DeleteJob reads nothing and marks no job as printed,
LEMMA DeleteJobCalm ==
  ASSUME TypeInv, NEW t \in Threads, DeleteJob(t)
  PROVE  \A j \in Jobs : Calm(j)
<1>j. job \in [Jobs -> JobRecords] BY DEF TypeInv, TypeOK, JobTypes
<1>1. UNCHANGED app BY DeleteJobMoves
<1>2. \A j \in Jobs : /\ job'[j].unread = job[j].unread /\ job'[j].data = job[j].data
                      /\ job'[j].Size = job[j].Size
  <2>1. CASE DeleteJobFree(t)
    <3>1. PICK j \in Jobs : job' = [job EXCEPT ![j].signature = "freed", ![j].WaitForWrite = "null",
                                               ![j].NextJobId = NoJob]
      BY <2>1 DEF DeleteJobFree, Deleting, TypeInv, DeletersHaveJobs
    <3> QED BY <1>j, <3>1 DEF JobRecords
  <2>2. CASE UNCHANGED job BY <2>2
  <2> QED
    BY <2>1, <2>2
    DEF DeleteJob, DeleteJobStart, DeleteJobCancel, DeleteJobControl, DeleteJobReferenced,
        DeleteJobShadow, DeleteJobUnlink, DeleteJobLogged, DeleteJobFiles, DeleteJobTraced
<1>3. \A j \in Jobs : \/ Status'[j] = Status[j]
                      \/ Status'[j] = Status[j] \cup {"PENDING_DELETION"}
                      \/ Status'[j] = Status[j] \cup {"SHADOW_DELETED"}
  <2> USE StatusType
  <2>1. CASE DeleteJobStart(t) BY <2>1 DEF DeleteJobStart
  <2>2. CASE DeleteJobReferenced(t) BY <2>2 DEF DeleteJobReferenced
  <2>3. CASE UNCHANGED Status BY <2>3
  <2> QED
    BY <2>1, <2>2, <2>3
    DEF DeleteJob, DeleteJobCancel, DeleteJobControl, DeleteJobShadow, DeleteJobUnlink,
        DeleteJobLogged, DeleteJobFree, DeleteJobFiles, DeleteJobTraced
<1> QED BY <1>1, <1>2, <1>3 DEF Calm

\* and tells the print processor of its own thread's port only.
LEMMA DeleteJobTellsOwn ==
  ASSUME ReadGround, NEW t \in Threads, DeletesOwn(t), DeleteJob(t)
  PROVE  /\ DeletesOwn(t)'
         /\ \A p \in Ports : port'[p].hProc = "aborted" => port[p].hProc = "aborted" \/ pt[p].pc = "tail"
<1>d. del \in [Threads -> DelRecords] BY DEF ReadGround, TypeInv, TypeOK, DeleteTypes
<1>p. port \in [Ports -> PortRecords] BY DEF ReadGround, TypeInv, TypeOK, GlobalTypes
<1>m. UNCHANGED pt BY DeleteJobMoves DEF ReadGround
<1> DEFINE Same == \A p \in Ports : port'[p].hProc = port[p].hProc
           Idle == del'[t].pc \notin {"start", "cancel", "control"}
<1>1. CASE DeleteJobStart(t)
  <2> DEFINE j == del[t].job
  <2>1. j \in Jobs /\ del[t].pc = "start" /\ UNCHANGED port
    BY <1>1 DEF DeleteJobStart, Deleting, ReadGround, TypeInv, DeletersHaveJobs
  <2>2. CASE /\ ~ Has(j, {"PENDING_DELETION"}) /\ job[j].pIniPort # NoPort
             /\ del' = [del EXCEPT ![t].pc = "cancel", ![t].port = job[j].pIniPort,
                                   ![t].next = job[j].NextJobId]
    <3>1. t \in Ports /\ pt[t].pc = "tail" /\ pt[t].job = j BY <2>1, <2>2 DEF DeletesOwn, Has
    <3>2. job[j].pIniPort = t BY <2>1, <3>1 DEF ReadGround, PortsGivenJobs, Given
    <3>3. del'[t].pc = "cancel" /\ del'[t].port = t BY <1>d, <2>2, <3>2 DEF DelRecords
    <3> QED BY <1>m, <2>1, <3>1, <3>3 DEF DeletesOwn
  <2>3. CASE del' = [del EXCEPT ![t].pc = "counted", ![t].next = job[j].NextJobId]
    <3>1. Idle BY <1>d, <2>3 DEF DelRecords
    <3> QED BY <2>1, <3>1 DEF DeletesOwn
  <2>4. CASE Return(t)
    <3>1. Idle BY <1>d, <2>4 DEF Return, NotDeleting
    <3> QED BY <2>1, <3>1 DEF DeletesOwn
  <2> QED BY <1>1, <2>2, <2>3, <2>4 DEF DeleteJobStart
<1>2. CASE DeleteJobCancel(t)
  <2>1. del[t].pc = "cancel" BY <1>2 DEF DeleteJobCancel, Reentering
  <2>2. t \in Ports /\ pt[t].pc = "tail" /\ del[t].port = t BY <2>1 DEF DeletesOwn
  <2>3. Same BY <1>p, <1>2 DEF DeleteJobCancel, PortRecords
  <2>4. del'[t].port = del[t].port /\ del'[t].pc \in {"control", "counted"}
    BY <1>d, <1>2 DEF DeleteJobCancel, GoTo, DelRecords
  <2> QED BY <1>m, <2>2, <2>3, <2>4 DEF DeletesOwn
<1>3. CASE DeleteJobControl(t)
  <2>1. del[t].pc = "control" BY <1>3 DEF DeleteJobControl, Reentering
  <2>2. t \in Ports /\ pt[t].pc = "tail" /\ del[t].port = t BY <2>1 DEF DeletesOwn
  <2>3. \A p \in Ports \ {t} : port'[p] = port[p] BY <1>p, <1>3, <2>2 DEF DeleteJobControl
  <2>4. Idle BY <1>d, <1>3 DEF DeleteJobControl, GoTo, DelRecords
  <2> QED BY <2>2, <2>3, <2>4 DEF DeletesOwn
<1>4. CASE DeleteJobTraced(t)
  <2>1. Return(t) /\ UNCHANGED port
    BY <1>4 DEF DeleteJobTraced, ReadGround, Unchained
  <2>2. Idle BY <1>d, <2>1 DEF Return, NotDeleting
  <2> QED BY <2>1, <2>2 DEF DeletesOwn
<1>5. CASE \/ DeleteJobReferenced(t) \/ DeleteJobShadow(t) \/ DeleteJobUnlink(t)
           \/ DeleteJobLogged(t) \/ DeleteJobFree(t) \/ DeleteJobFiles(t)
  <2> USE DEF DeleteJobReferenced, DeleteJobShadow, DeleteJobUnlink, DeleteJobLogged
  <2>1. UNCHANGED port BY <1>5 DEF DeleteJobFree, DeleteJobFiles
  <2>2. ASSUME Return(t) PROVE Idle BY <1>d, <2>2 DEF Return, NotDeleting
  <2>3. ASSUME NEW pc \in {"shadow", "log", "free"}, GoTo(t, pc) PROVE Idle
    BY <1>d, <2>3 DEF GoTo, DelRecords
  <2>4. ASSUME DeleteJobFree(t) PROVE Idle BY <1>d, <2>4 DEF DeleteJobFree, DelRecords
  <2>5. ASSUME DeleteJobFiles(t) PROVE Idle BY <1>d, <2>5 DEF DeleteJobFiles, DelRecords
  <2>6. Idle BY <1>5, <2>2, <2>3, <2>4, <2>5
  <2> QED BY <2>1, <2>6 DEF DeletesOwn
<1> QED BY <1>1, <1>2, <1>3, <1>4, <1>5 DEF DeleteJob

\* So what was printed was read.
LEMMA DeleteJobReads ==
  ASSUME ReadGround, ReadInv, NEW t \in Threads, DeleteJob(t)
  PROVE  ReadInv'
<1> USE DEF ReadGround
<1>1. UNCHANGED <<client, pt>> /\ \A s \in Threads \ {t} : del'[s] = del[s] BY DeleteJobMoves
<1>2. \A j \in Jobs : Calm(j) BY DeleteJobCalm
<1>3. DeletesOwn(t)'
      /\ \A p \in Ports : port'[p].hProc = "aborted" => port[p].hProc = "aborted" \/ pt[p].pc = "tail"
  BY DeleteJobTellsOwn DEF ReadInv
<1>4. \A j \in Jobs : JobReads(j)' BY <1>2, CalmReads DEF ReadInv
<1>5. ASSUME NEW p \in Ports PROVE PortReads(p)'
  <2>1. Woken(p)' => Woken(p) /\ port'[p].pIniJob = port[p].pIniJob
    BY <1>1, DeleteJobPorts DEF Woken
  <2> QED BY <1>1, <1>2, <1>3, <2>1, CalmPort DEF ReadInv, Ended
<1>6. ASSUME NEW s \in Threads \ {t} PROVE DeletesOwn(s)'
  <2>1. del[s].pc = "start" => del[s].job \in Jobs BY DEF TypeInv, DeletersHaveJobs
  <2> QED BY <1>1, <1>2, <2>1 DEF ReadInv, DeletesOwn, Calm
<1> QED BY <1>1, <1>3, <1>4, <1>5, <1>6 DEF ReadInv

\* An application writes and ends a job that no port has yet.
LEMMA ApplicationCalm ==
  ASSUME ReadGround, \A k \in Jobs : JobReads(k), NEW j \in Jobs, Application(j)
  PROVE  /\ \A k \in Jobs : JobReads(k)'
         /\ \A p \in Ports : \A k \in Jobs : k \in Claimed(p) => Calm(k)
<1>j. job \in [Jobs -> JobRecords] BY DEF ReadGround, TypeInv, TypeOK, JobTypes
<1>a. app \in [Jobs -> AppPcs] BY DEF ReadGround, TypeInv, TypeOK, ThreadTypes
<1>s. Status \in [Jobs -> SUBSET Flags] BY StatusType DEF ReadGround
<1>1. ASSUME NEW k \in Jobs \ {j} PROVE Calm(k)
  <2>1. job'[k] = job[k] /\ app'[k] = app[k] /\ Status'[k] = Status[k]
    BY <1>j, <1>a, <1>s, <1>1
    DEF Application, StartDocPrinter, WritePrinter, AbortPrinter, EndDocPrinter, EndDocRelease,
        EndDocLogged
  <2> QED BY <2>1 DEF Calm
<1>2. CASE StartDocPrinter(j)
  <2>1. \A p \in Ports : j \notin Claimed(p)
    BY <1>2 DEF StartDocPrinter, ReadGround, Ownership, ClaimedJobsDespool
  <2>2. /\ job'[j].unread = job[j].unread /\ job'[j].data = job[j].data /\ job'[j].Size = job[j].Size
        /\ Status'[j] = {"SPOOLING"}
    BY <1>j, <1>s, <1>2 DEF StartDocPrinter, JobRecords
  <2>3. JobReads(j)' BY <2>2 DEF JobReads
  <2> QED BY <1>1, <2>1, <2>3, CalmReads
<1>3. CASE WritePrinter(j)
  <2>1. "SPOOLING" \in Status[j] BY <1>3 DEF WritePrinter, JobReads
  <2>2. \A p \in Ports : j \notin Claimed(p)
    BY <2>1 DEF ReadGround, Ownership, ClaimedJobsDespool, NotWhileSpooling
  <2>3. job[j].NextJobId \notin Queued
    BY QueuedType, ConstantsAssumption DEF ConstantsAssumption, ReadGround, Unchained, TypeInv, TypeOK
  <2>4. PICK length \in Lengths :
          job' = [job EXCEPT ![j].data = length, ![j].Size = Capped(length + 0),
                             ![j].unread = @ + (length - job[j].data),
                             ![j].WaitForWrite = IF @ = "null" THEN "null" ELSE "set"]
    BY <1>3, <2>3 DEF WritePrinter
  <2>5. length \in 1 .. MaxSize /\ Capped(length + 0) = length
    BY ConstantsAssumption DEF ConstantsAssumption, Sizes, Capped, MaxSize, dwFastPrintSlowDownThreshold
  <2>6. /\ job'[j].data = length /\ job'[j].Size = length
        /\ job'[j].unread = job[j].unread + (length - job[j].data)
    BY <1>j, <2>4, <2>5 DEF JobRecords
  <2>7. job[j].unread \in Nat /\ job[j].data \in Nat /\ length \in Nat \ {0}
    BY <1>j, <2>5 DEF JobRecords, Sizes, MaxSize, dwFastPrintSlowDownThreshold
  <2>8. UNCHANGED <<Status, app>> BY <1>3 DEF WritePrinter
  <2>9. job'[j].unread <= job'[j].data /\ job'[j].Size # 0
    BY <2>6, <2>7 DEF JobReads
  <2>10. JobReads(j)' BY <2>1, <2>8, <2>9 DEF JobReads
  <2> QED BY <1>1, <2>2, <2>10, CalmReads
<1>4. CASE AbortPrinter(j) \/ EndDocPrinter(j) \/ EndDocRelease(j) \/ EndDocLogged(j)
  <2>1. job'[j].unread = job[j].unread /\ job'[j].data = job[j].data /\ job'[j].Size = job[j].Size
    <3>1. CASE EndDocRelease(j)
      <4>1. UNCHANGED job BY <3>1 DEF EndDocRelease
      <4> QED BY <4>1
    <3> QED BY <1>j, <1>4, <3>1 DEF AbortPrinter, EndDocPrinter, EndDocLogged, JobRecords
  <2>2. Calm(j)
    <3>1. CASE AbortPrinter(j) BY <1>a, <1>s, <2>1, <3>1 DEF AbortPrinter, Calm
    <3>2. CASE EndDocPrinter(j) BY <1>a, <1>s, <2>1, <3>2 DEF EndDocPrinter, Calm
    <3>3. CASE EndDocRelease(j)
      <4>1. UNCHANGED app \/ app' = [app EXCEPT ![j] = "log"] \/ app' = [app EXCEPT ![j] = "done"]
        BY <3>3 DEF EndDocRelease
      <4>2. /\ Status'[j] \subseteq Status[j]
            /\ Status[j] \subseteq Status'[j] \cup {"SHADOW_DELETED", "TIMEOUT", "ABANDON"}
        BY <3>3, EndDocTakes DEF ReadGround
      <4>3. app[j] = "shadow" BY <3>3 DEF EndDocRelease
      <4>4. app'[j] \notin {"spooling", "cancelled"} BY <1>a, <4>1, <4>3
      <4> QED BY <2>1, <4>2, <4>4 DEF Calm
    <3>4. CASE EndDocLogged(j) BY <1>a, <1>s, <2>1, <3>4 DEF EndDocLogged, Calm
    <3> QED BY <1>4, <3>1, <3>2, <3>3, <3>4
  <2> QED BY <1>1, <2>2, CalmReads
<1> QED BY <1>2, <1>3, <1>4 DEF Application

\* It deletes its own job, and only when that is pending deletion.
LEMMA ApplicationReads ==
  ASSUME ReadGround, ReadInv, NEW j \in Jobs, Application(j)
  PROVE  ReadInv'
<1> USE DEF ReadGround
<1>1. UNCHANGED <<port, client, pt>> BY ApplicationMoves
<1>2. \A p \in Ports : PortReads(p)'
  BY <1>1, ApplicationCalm, CalmPort DEF ReadInv, Woken
<1>3. splSem \in {NoThread, j}
  BY DEF Application, StartDocPrinter, WritePrinter, AbortPrinter, EndDocPrinter, EndDocRelease,
         EndDocLogged, Enter, Hold
<1>4. UNCHANGED del \/ "PENDING_DELETION" \in Status'[j]
  <2>1. CASE EndDocRelease(j)
    <3>1. UNCHANGED del \/ "PENDING_DELETION" \in Status[j] BY <2>1 DEF EndDocRelease, Has
    <3> QED BY <2>1, <3>1, EndDocTakes
  <2>2. CASE EndDocLogged(j) BY <2>2 DEF EndDocLogged, DeleteJobCheckAndLeave
  <2> QED
    BY <2>1, <2>2 DEF Application, StartDocPrinter, WritePrinter, AbortPrinter, EndDocPrinter
<1>5. MayDelete(j, j) /\ j \in Threads BY ApplicationDeletes DEF Threads
<1>6. \A s \in Threads : DeletesOwn(s)'
  BY <1>1, <1>3, <1>4, <1>5, StretchDeletesOwn DEF ReadInv
<1> QED BY <1>1, <1>2, <1>6, ApplicationCalm DEF ReadInv

\* What a user does who leaves jobs alone.
LEMMA ClientLeaves ==
  ASSUME JobsAreLeft, NEW c \in Clients, Client(c), client[c].pc # "alert"
  PROVE  \/ \E j \in Jobs, command \in AllCommands : SetJobTrace(c, j, command)
         \/ SetPrinterUnblock(c) \/ PauseOrResumeJob(c) \/ PauseOrResumePort(c)
         \/ ControlPrintProcessor(c) \/ PauseOrResumeLogged(c) \/ RestartJob(c) \/ SetJobTail(c)
<1>1. ~ SetJobAlerted(c) BY DEF SetJobAlerted
<1>2. \A j \in Jobs : ~ SetJobDelete(c, j) /\ ~ SetJobCancel(c, j)
  BY DEF JobsAreLeft, SetJobDelete, SetJobCancel, SetJob
<1>3. \A j, n \in Jobs : ~ SetJobChain(c, j, n) BY DEF JobsAreLeft, SetJobChain, SetJob
<1> QED BY <1>1, <1>2, <1>3 DEF Client

\* Such a user ends no document,
LEMMA ClientCalm ==
  ASSUME TypeInv, JobsAreLeft, NEW c \in Clients, Client(c), client[c].pc # "alert"
  PROVE  \A k \in Jobs : Calm(k)
<1>s. Status \in [Jobs -> SUBSET Flags] BY StatusType
<1>1. UNCHANGED app BY ClientMoves
<1>2. UNCHANGED job
  BY ClientLeaves
  DEF SetJobTrace, SetPrinterUnblock, PauseOrResumeJob, PauseOrResumePort, ControlPrintProcessor,
      PauseOrResumeLogged, RestartJob, SetJobTail
<1>3. \A k \in Jobs :
        /\ Status'[k] \cap {"SPOOLING", "PRINTED"} \subseteq Status[k]
        /\ Status[k] \cap {"SPOOLING", "INTERRUPTED", "PENDING_DELETION", "RESTART"} \subseteq Status'[k]
  <2> DEFINE Kind == \A k \in Jobs :
        /\ Status'[k] \cap {"SPOOLING", "PRINTED"} \subseteq Status[k]
        /\ Status[k] \cap {"SPOOLING", "INTERRUPTED", "PENDING_DELETION", "RESTART"} \subseteq Status'[k]
  <2>1. ASSUME SetPrinterUnblock(c) PROVE Kind BY <1>s, <2>1 DEF SetPrinterUnblock
  <2>2. ASSUME PauseOrResumeJob(c) PROVE Kind BY <1>s, <2>2 DEF PauseOrResumeJob
  <2>3. ASSUME RestartJob(c) PROVE Kind BY <1>s, <2>3 DEF RestartJob
  <2>4. ASSUME UNCHANGED Status PROVE Kind BY <2>4
  <2> HIDE DEF Kind
  <2>5. Kind
    BY <2>1, <2>2, <2>3, <2>4, ClientLeaves
    DEF SetJobTrace, PauseOrResumePort, ControlPrintProcessor, PauseOrResumeLogged, SetJobTail
  <2> QED BY <2>5 DEF Kind
<1> QED BY <1>1, <1>2, <1>3 DEF Calm

\* and stops no print processor.
LEMMA ClientReads ==
  ASSUME ReadGround, ReadInv, JobsAreLeft, NEW c \in Clients, Client(c)
  PROVE  ReadInv'
<1> USE DEF ReadGround
<1>0. \/ \E j \in Jobs, command \in AllCommands : SetJobTrace(c, j, command)
      \/ SetPrinterUnblock(c) \/ PauseOrResumeJob(c) \/ PauseOrResumePort(c)
      \/ ControlPrintProcessor(c) \/ PauseOrResumeLogged(c) \/ RestartJob(c) \/ SetJobTail(c)
  BY ClientLeaves DEF ReadInv
<1>c. client \in [Clients -> ClientRecords] BY DEF TypeInv, TypeOK, ThreadTypes
<1>p. port \in [Ports -> PortRecords] BY DEF TypeInv, TypeOK, GlobalTypes
<1>1. \A k \in Jobs : Calm(k) BY ClientCalm DEF ReadInv
<1>2. UNCHANGED pt BY ClientMoves
<1>3. \A p \in Ports : port'[p].hProc = "aborted" => port[p].hProc = "aborted"
  <2>1. CASE PauseOrResumePort(c) BY <1>p, <2>1 DEF PauseOrResumePort, PortRecords
  <2>2. CASE RestartJob(c) BY <1>p, <2>2 DEF RestartJob, PortRecords
  <2>3. CASE ControlPrintProcessor(c)
    <3> DEFINE q == client[c].port
           command == client[c].command
           proc == CASE port[q].hProc = "running" /\ command = "PAUSE"  -> "paused"
                     [] port[q].hProc = "paused"  /\ command = "RESUME" -> "running"
                     [] OTHER -> port[q].hProc
    <3>1. \E section : port' = [port EXCEPT ![q].hProc = proc, ![q].InCriticalSection = section]
      BY <2>3 DEF ControlPrintProcessor
    <3>2. proc = "aborted" => port[q].hProc = "aborted" OBVIOUS
    <3> HIDE DEF proc
    <3> QED BY <1>p, <3>1, <3>2 DEF PortRecords
  <2>4. CASE UNCHANGED port BY <2>4
  <2> QED
    BY <2>1, <2>2, <2>3, <2>4, <1>0
    DEF SetJobTrace, SetPrinterUnblock, PauseOrResumeJob, PauseOrResumeLogged, SetJobTail
<1>4. \A j \in Jobs : JobReads(j)' BY <1>1, CalmReads DEF ReadInv
<1>5. \A p \in Ports : PortReads(p)'
  BY <1>1, <1>2, <1>3, ClientPorts, CalmPort DEF ReadInv, Woken
<1>6. \A b \in Clients : client'[b].pc # "alert"
  <2> DEFINE Quietly == \A b \in Clients : client'[b].pc # "alert"
  <2>0. \A b \in Clients : client[b].pc # "alert" BY DEF ReadInv
  <2>1. ASSUME NEW pc \in ClientPcs \ {"alert"}, ClientGoesTo(c, pc) PROVE Quietly
    BY <1>c, <2>0, <2>1 DEF ClientGoesTo, ClientRecords
  <2>2. ASSUME NEW j \in Jobs, NEW command, SetJobTrace(c, j, command) PROVE Quietly
    BY <1>c, <2>0, <2>2 DEF SetJobTrace, Begin
  <2>3. ASSUME PauseOrResumeJob(c) PROVE Quietly
    <3>1. \/ client' = [client EXCEPT ![c].pc = "capture", ![c].port = job[client[c].job].pIniPort]
          \/ ClientGoesTo(c, "log")
      BY <2>3 DEF PauseOrResumeJob
    <3>2. CASE client' = [client EXCEPT ![c].pc = "capture", ![c].port = job[client[c].job].pIniPort]
      BY <1>c, <2>0, <3>2 DEF ClientRecords
    <3> QED BY <2>1, <3>1, <3>2 DEF ClientPcs
  <2>4. ASSUME client' = [client EXCEPT ![c] = NoCall] PROVE Quietly BY <1>c, <2>0, <2>4 DEF NoCall
  <2>5. ASSUME UNCHANGED client PROVE Quietly BY <2>0, <2>5
  <2>6. ASSUME ClientGoesTo(c, "log") \/ ClientGoesTo(c, "tail") \/ ClientGoesTo(c, "control")
        PROVE  Quietly
    BY <2>1, <2>6 DEF ClientPcs
  <2> HIDE DEF Quietly
  <2>7. Quietly
    BY <1>0, <2>2, <2>3, <2>4, <2>5, <2>6
    DEF SetPrinterUnblock, PauseOrResumePort, ControlPrintProcessor, PauseOrResumeLogged,
        RestartJob, SetJobTail
  <2> QED BY <2>7 DEF Quietly
<1>7. \A s \in Threads : DeletesOwn(s)'
  <2>1. splSem \in {NoThread, c}
    BY <1>0
    DEF SetJobTrace, SetJob, SetPrinterUnblock, PauseOrResumeJob, PauseOrResumePort,
        ControlPrintProcessor, PauseOrResumeLogged, RestartJob, SetJobTail, Enter, Hold
  <2>2. \E j : MayDelete(c, j) /\ (UNCHANGED del \/ "PENDING_DELETION" \in Status'[j])
    <3>1. CASE UNCHANGED del BY <3>1, ClientDeletes
    <3>2. CASE (RestartJob(c) \/ SetJobTail(c)) /\ ~ UNCHANGED del
      <4>1. MayDelete(c, client[c].job)
        BY <3>2 DEF RestartJob, SetJobTail, DeleteJobCheckAndLeave, MayDelete, Enter, Hold
      <4>2. "PENDING_DELETION" \in Status'[client[c].job]
        BY <3>2 DEF RestartJob, SetJobTail, DeleteJobCheckAndLeave
      <4> QED BY <4>1, <4>2
    <3> QED
      BY <1>0, <3>1, <3>2
      DEF SetJobTrace, SetPrinterUnblock, PauseOrResumeJob, PauseOrResumePort,
          ControlPrintProcessor, PauseOrResumeLogged
  <2>3. c \in Threads BY DEF Threads
  <2> QED BY <1>2, <2>1, <2>2, <2>3, StretchDeletesOwn DEF ReadInv
<1> QED BY <1>4, <1>5, <1>6, <1>7 DEF ReadInv

\* The scheduler reads no job,
LEMMA SchedulerCalm ==
  ASSUME TypeInv, SchedulerThread
  PROVE  \A k \in Jobs : Calm(k)
<1>j. job \in [Jobs -> JobRecords] BY DEF TypeInv, TypeOK, JobTypes
<1>s. Status \in [Jobs -> SUBSET Flags] BY StatusType
<1>0. UNCHANGED app BY SchedulerMoves
<1> DEFINE SameData == \A k \in Jobs : /\ job'[k].unread = job[k].unread
                                       /\ job'[k].data = job[k].data /\ job'[k].Size = job[k].Size
           SameFlags == \A k \in Jobs : /\ Status[k] \subseteq Status'[k]
                                        /\ Status'[k] \subseteq Status[k] \cup {"DESPOOLING", "ABANDON"}
<1>1. ASSUME NEW j, NEW p \in Ports, NEW d, AssignJob(p, j, d) PROVE SameData /\ SameFlags
  <2>1. CASE j \in Jobs
    <3>1. PICK chain, wait : job' = [job EXCEPT ![j].pIniPort = p, ![j].pCurrentIniJob = chain,
                                                ![j].WaitForWrite = wait]
      BY <1>j, <1>1, <2>1, Zenon DEF AssignJob
    <3>2. SameData BY <1>j, <3>1 DEF JobRecords
    <3>3. SameFlags BY <1>s, <1>1 DEF AssignJob
    <3> QED BY <3>2, <3>3
  <2>2. CASE j \notin Jobs BY <1>j, <1>s, <1>1, <2>2 DEF AssignJob
  <2> QED BY <2>1, <2>2
<1>2. ASSUME NEW p \in Ports, ScheduleFirstJob(p) \/ ScheduleByMemory(p) \/ SchedulePort(p)
      PROVE  \E j, d : AssignJob(p, j, d)
  BY <1>2 DEF ScheduleFirstJob, ScheduleByMemory, ScheduleFromWaitingList, SchedulePort
<1>3. ASSUME NEW p \in Ports, AbandonJob(p) PROVE SameData /\ SameFlags
  BY <1>s, <1>3 DEF AbandonJob
<1>4. ASSUME AbandonLogged PROVE SameData /\ SameFlags BY <1>j, <1>4 DEF AbandonLogged, JobRecords
<1>5. ASSUME UNCHANGED <<Status, job>> PROVE SameData /\ SameFlags BY <1>5
<1> HIDE DEF SameData, SameFlags
<1>6. SameData /\ SameFlags
  BY <1>1, <1>2, <1>3, <1>4, <1>5
  DEF SchedulerThread, SchedulerWakes, UpdateJobList, NoFirstJob, NoMoreByMemory,
      PortThreadGone, PortThreadReady, SchedulerSleeps, JobExpires, DropWaitingJob,
      DestroyPortThread, CreatePortThread, SkipPort
<1> QED BY <1>0, <1>6 DEF SameData, SameFlags, Calm

\* and gives no port a job that is marked as printed.
LEMMA SchedulerReads ==
  ASSUME ReadGround, ReadInv, SchedulerThread
  PROVE  ReadInv'
<1> USE DEF ReadGround
<1>p. port \in [Ports -> PortRecords] BY DEF TypeInv, TypeOK, GlobalTypes
<1>t. pt \in [Ports -> PtRecords] BY DEF TypeInv, TypeOK, ThreadTypes
<1>1. \A k \in Jobs : Calm(k) BY SchedulerCalm
<1>2. UNCHANGED <<client, del>> BY SchedulerMoves
<1>3. \A j \in Jobs : JobReads(j)' BY <1>1, CalmReads DEF ReadInv
<1>4. \A p \in Ports : pt'[p] = pt[p] \/ (pt[p].pc = "none" /\ pt'[p].pc = "started")
  <2>1. ASSUME NEW q \in Ports, CreatePortThread(q)
        PROVE  \A p \in Ports : pt'[p] = pt[p] \/ (pt[p].pc = "none" /\ pt'[p].pc = "started")
    <3>1. /\ "THREADRUNNING" \notin port[q].Status /\ sched.pc = "ports"
          /\ pt' = [pt EXCEPT ![q].pc = "started"]
      BY <2>1 DEF CreatePortThread, CheckPort, SchedulerAt
    <3>2. pt[q].pc = "none" BY <3>1 DEF Ownership, PortHandshake
    <3> QED BY <1>t, <3>1, <3>2 DEF PtRecords
  <2>2. CASE UNCHANGED pt BY <2>2
  <2> QED
    BY <2>1, <2>2
    DEF SchedulerThread, SchedulerWakes, UpdateJobList, NoFirstJob, NoMoreByMemory,
        AbandonLogged, PortThreadGone, PortThreadReady, SchedulerSleeps, JobExpires,
        DropWaitingJob, ScheduleFirstJob, ScheduleByMemory, ScheduleFromWaitingList,
        SchedulePort, AbandonJob, DestroyPortThread, SkipPort
<1>5. \A p \in Ports :
        /\ port'[p].hProc = port[p].hProc
        /\ Woken(p)' => \/ Woken(p) /\ port'[p].pIniJob = port[p].pIniJob
                        \/ port'[p].pIniJob \in Jobs /\ "PRINTED" \notin Status'[port'[p].pIniJob]
  <2> DEFINE Gives == \A p \in Ports :
        /\ port'[p].hProc = port[p].hProc
        /\ Woken(p)' => \/ Woken(p) /\ port'[p].pIniJob = port[p].pIniJob
                        \/ port'[p].pIniJob \in Jobs /\ "PRINTED" \notin Status'[port'[p].pIniJob]
  <2>1. ASSUME NEW q \in Ports, ScheduleFirstJob(q) \/ ScheduleByMemory(q) \/ SchedulePort(q)
        PROVE  Gives
    <3>1. PICK j \in Jobs : Schedulable(j) /\ \E d : AssignJob(q, j, d)
      BY <2>1, SchedulesSchedulable
    <3>2. "PRINTED" \notin Status'[j]
      <4>1. "PRINTED" \notin Status[j] BY <3>1 DEF Schedulable, Has, NotSchedulable
      <4> QED BY <1>1, <4>1 DEF Calm
    <3>3. port'[q].pIniJob = j /\ \A p \in Ports : p # q => port'[p] = port[p]
      BY <3>1, AssignJobPort
    <3>4. \A p \in Ports : port'[p].hProc = port[p].hProc
      BY <1>p, <3>1 DEF AssignJob, PortRecords
    <3>5. UNCHANGED pt
      BY <2>1 DEF ScheduleFirstJob, ScheduleByMemory, SchedulePort, ScheduleFromWaitingList
    <3> QED BY <3>2, <3>3, <3>4, <3>5 DEF Woken
  <2>2. ASSUME NEW q \in Ports, DestroyPortThread(q) PROVE Gives
    <3>1. port' = [port EXCEPT ![q].Status = @ \ {"RUNTHREAD"}, ![q].Semaphore = TRUE] /\ UNCHANGED pt
      BY <2>2 DEF DestroyPortThread
    <3>2. /\ \A p \in Ports : port'[p].hProc = port[p].hProc /\ (p # q => port'[p] = port[p])
          /\ "RUNTHREAD" \notin port'[q].Status
      BY <1>p, <3>1 DEF PortRecords
    <3> QED BY <3>1, <3>2 DEF Woken
  <2>3. ASSUME NEW q \in Ports, CreatePortThread(q) PROVE Gives
    <3>1. port' = [port EXCEPT ![q].Status = @ \cup {"RUNTHREAD"}]
          /\ pt' = [pt EXCEPT ![q].pc = "started"]
      BY <2>3 DEF CreatePortThread
    <3>2. /\ \A p \in Ports : port'[p].hProc = port[p].hProc /\ (p # q => port'[p] = port[p])
          /\ pt'[q].pc = "started" /\ \A p \in Ports \ {q} : pt'[p] = pt[p]
      BY <1>p, <1>t, <3>1 DEF PortRecords, PtRecords
    <3> QED BY <3>2 DEF Woken
  <2>4. ASSUME PortThreadGone \/ PortThreadReady PROVE Gives
    <3>1. UNCHANGED pt
          /\ \E x : \/ port' = [port EXCEPT ![x].Status = @ \ {"WAITING"}]
                    \/ port' = [port EXCEPT ![x].Status = @ \cup {"THREADRUNNING"}]
      BY <2>4 DEF PortThreadGone, PortThreadReady
    <3>2. \A p \in Ports : /\ port'[p].hProc = port[p].hProc /\ port'[p].pIniJob = port[p].pIniJob
                           /\ port'[p].Semaphore = port[p].Semaphore
                           /\ "RUNTHREAD" \in port'[p].Status => "RUNTHREAD" \in port[p].Status
      BY <1>p, <3>1 DEF PortRecords
    <3> QED BY <3>1, <3>2 DEF Woken
  <2>5. ASSUME UNCHANGED <<port, pt>> PROVE Gives BY <2>5 DEF Woken
  <2> HIDE DEF Gives
  <2>6. Gives
    BY <2>1, <2>2, <2>3, <2>4, <2>5
    DEF SchedulerThread, SchedulerWakes, UpdateJobList, NoFirstJob, NoMoreByMemory,
        AbandonLogged, SchedulerSleeps, JobExpires, DropWaitingJob, AbandonJob, SkipPort
  <2> QED BY <2>6 DEF Gives
<1>6. ASSUME NEW p \in Ports PROVE PortReads(p)'
  <2>1. CASE pt[p].pc = "none" /\ pt'[p].pc = "started"
    <3>1. port'[p].hProc # "aborted" BY <1>5, <2>1 DEF ReadInv, PortReads, Ended
    <3> QED BY <2>1, <3>1 DEF PortReads, Woken, AtWork
  <2>2. CASE pt'[p] = pt[p] /\ (Woken(p)' => Woken(p) /\ port'[p].pIniJob = port[p].pIniJob)
    BY <1>1, <1>5, <2>2, CalmPort DEF ReadInv
  <2>3. CASE /\ pt'[p] = pt[p] /\ Woken(p)'
             /\ port'[p].pIniJob \in Jobs /\ "PRINTED" \notin Status'[port'[p].pIniJob]
    <3>1. pt[p].pc = "wait" BY <2>3 DEF Woken
    <3> QED BY <1>5, <2>3, <3>1 DEF ReadInv, PortReads, AtWork, Ended
  <2> QED BY <1>4, <1>5, <2>1, <2>2, <2>3
<1>7. ASSUME NEW s \in Threads PROVE DeletesOwn(s)'
  <2>1. del[s].pc = "start" => del[s].job \in Jobs BY DEF TypeInv, DeletersHaveJobs
  <2>2. s \in Ports /\ pt[s].pc = "tail" => pt'[s] = pt[s] BY <1>4
  <2> QED BY <1>1, <1>2, <2>1, <2>2 DEF ReadInv, DeletesOwn, Calm
<1> QED BY <1>2, <1>3, <1>6, <1>7 DEF ReadInv

\* A port's thread touches no job but its own.
LEMMA PortThreadOwnJob ==
  ASSUME ReadGround, NEW p \in Ports, PortThread(p)
  PROVE  \A k \in Jobs \ {pt[p].job} : job'[k] = job[k] /\ Status'[k] = Status[k]
<1> USE DEF ReadGround
<1>j. job \in [Jobs -> JobRecords] BY DEF TypeInv, TypeOK, JobTypes
<1>s. Status \in [Jobs -> SUBSET Flags] BY StatusType
<1>1. pt[p].pc \notin Jobless => Source(pt[p].job) = pt[p].job
  BY NextNone DEF TypeInv, PortsHaveJobs
<1> DEFINE Own == \A k \in Jobs \ {pt[p].job} : job'[k] = job[k] /\ Status'[k] = Status[k]
<1>2. ASSUME PrintRawJob(p) PROVE Own
  BY <1>j, <1>1, <1>2 DEF PrintRawJob, PortAt, Jobless
<1>3. ASSUME ReadPrinter(p) PROVE Own
  BY <1>j, <1>s, <1>1, <1>3 DEF ReadPrinter, PortAt, Jobless
<1>4. ASSUME ReadPrinterTimesOut(p) PROVE Own BY <1>j, <1>s, <1>4 DEF ReadPrinterTimesOut
<1>5. ASSUME EndDocPort(p) PROVE Own BY <1>j, <1>s, <1>5 DEF EndDocPort
<1>6. ASSUME SentToPrinter(p) PROVE Own
  <2>1. PICK pending, flags : /\ job' = [job EXCEPT ![pt[p].job].dwJobControlsPending = pending]
                              /\ Status' = [Status EXCEPT ![pt[p].job] = flags]
    BY <1>6 DEF SentToPrinter
  <2> QED BY <1>j, <1>s, <2>1
<1>7. ASSUME PortThreadFinishes(p) PROVE Own
  <2>1. PICK next, flags : /\ job' = [job EXCEPT ![pt[p].job].pCurrentIniJob = next]
                           /\ Status' = [Status EXCEPT ![pt[p].job] = flags]
    BY <1>7 DEF PortThreadFinishes
  <2> QED BY <1>j, <1>s, <2>1
<1>8. ASSUME PortThreadReleases(p) PROVE Own BY <1>j, <1>s, <1>8 DEF PortThreadReleases
<1>9. ASSUME PortThreadKeeps(p) PROVE Own BY <1>s, <1>9 DEF PortThreadKeeps
<1>10. ASSUME \/ PortThreadBegins(p) \/ OpenPrintProcessor(p) \/ SentToPrinterAlerted(p)
              \/ PrintDone(p) \/ DiscardJobFromPortThread(p)
       PROVE  Own
  BY <1>s, <1>10 DEF PortThreadBegins, OpenPrintProcessor, SentToPrinterAlerted, PrintDone,
                     DiscardJobFromPortThread
<1>11. ASSUME UNCHANGED <<job, Status>> PROVE Own BY <1>11
<1> HIDE DEF Own
<1>12. Own
  BY <1>2, <1>3, <1>4, <1>5, <1>6, <1>7, <1>8, <1>9, <1>10, <1>11
  DEF PortThread, PortThreadWaits, PortThreadExits, PortThreadTakes, DevQueryPrint,
      ReadPrinterWakes, WritePort, ClosePrinter, SentToPrinterTail, EndDocPortDone,
      ClosePrintProcessor
<1> QED BY <1>12 DEF Own

\* What the thread of port p does to its own job: nothing is left to read when it
\* stops reading a job that is not to stop, and the job is not marked as printed
\* before that.
LEMMA PortThreadOwnReads ==
  ASSUME ReadGround, ReadInv, NEW p \in Ports, PortThread(p)
  PROVE  /\ \A j \in Jobs : j = pt[p].job => JobReads(j)'
         /\ PortReads(p)'
<1> USE DEF ReadGround
<1>r. SUFFICES ASSUME NEW j, j = pt[p].job
               PROVE  (j \in Jobs => JobReads(j)') /\ PortReads(p)'
  OBVIOUS
<1> DEFINE Fine == (j \in Jobs => JobReads(j)') /\ PortReads(p)'
<1>j. job \in [Jobs -> JobRecords] BY DEF TypeInv, TypeOK, JobTypes
<1>s. Status \in [Jobs -> SUBSET Flags] BY StatusType
<1>p. port \in [Ports -> PortRecords] BY DEF TypeInv, TypeOK, GlobalTypes
<1>t. pt \in [Ports -> PtRecords] BY DEF TypeInv, TypeOK, ThreadTypes
<1>a. UNCHANGED app BY PortThreadMoves
<1>i. (j \in Jobs => JobReads(j)) /\ PortReads(p) BY DEF ReadInv
<1>w. pt[p].pc # "wait" => ~ port[p].Semaphore BY DEF Ownership, PortHandshake
<1>d. j \in Jobs => "DESPOOLING" \in Status[j] /\ "SPOOLING" \notin Status[j]
  BY <1>r, ConstantsAssumption
  DEF ConstantsAssumption, Ownership, ClaimedJobsDespool, Claimed, NotWhileSpooling
<1>h. pt[p].pc \notin Jobless => j \in Jobs BY <1>r DEF TypeInv, PortsHaveJobs
<1>u. j \in Jobs => /\ job[j].unread \in Nat /\ job[j].data \in Nat /\ job[j].Size \in Nat
  BY <1>j DEF JobRecords, Sizes, MaxSize, dwFastPrintSlowDownThreshold
<1>e. pt[p].pc \notin Ended => port[p].hProc # "aborted" BY DEF ReadInv, PortReads
<1>g. \A pc : PortGoesTo(p, pc) => pt'[p].pc = pc /\ pt'[p].job = j
  BY <1>r, <1>t DEF PortGoesTo, PtRecords
<1>0. ASSUME j \in Jobs, "SPOOLING" \notin Status'[j], job'[j].unread <= job'[j].data,
             job'[j].data = job[j].data, job'[j].Size = job[j].Size,
             "PRINTED" \in Status'[j] => job'[j].unread = 0
      PROVE  JobReads(j)'
  BY <1>0, <1>a, <1>i, <1>d DEF JobReads
<1>k. job' = job /\ Status' = Status => (j \in Jobs => JobReads(j)') BY <1>a, <1>i DEF JobReads
\* Waiting for a job, and being given one.
<1>1. ASSUME PortThreadWaits(p) PROVE Fine
  <2>1. /\ pt[p].pc \in {"started", "top"} /\ pt'[p].pc = "wait" /\ UNCHANGED <<job, Status>>
        /\ port' = [port EXCEPT ![p].Status = @ \cup {"WAITING"}]
    BY <1>1, <1>g DEF PortThreadWaits, PortAt, Hold
  <2>2. ~ port'[p].Semaphore /\ port'[p].hProc # "aborted"
    BY <1>p, <1>w, <1>e, <2>1 DEF PortRecords, Ended
  <2> QED BY <1>k, <2>1, <2>2 DEF PortReads, Woken, AtWork
<1>2. ASSUME PortThreadExits(p) PROVE Fine
  <2>1. /\ pt[p].pc = "wait" /\ pt'[p].pc = "none" /\ UNCHANGED <<job, Status>>
        /\ port' = [port EXCEPT ![p].Status = @ \ {"THREADRUNNING", "WAITING"}, ![p].Semaphore = FALSE]
    BY <1>2, <1>g DEF PortThreadExits, PortAt
  <2>2. port'[p].hProc # "aborted" BY <1>p, <1>e, <2>1 DEF PortRecords, Ended
  <2> QED BY <1>k, <2>1, <2>2 DEF PortReads, Woken, AtWork
<1>3. ASSUME PortThreadTakes(p) PROVE Fine
  <2>1. /\ Woken(p) /\ UNCHANGED <<job, Status>>
        /\ port' = [port EXCEPT ![p].Semaphore = FALSE]
        /\ pt' = [pt EXCEPT ![p] = PortThreadAt("taken", port[p].pIniJob)]
    BY <1>3 DEF PortThreadTakes, PortAt, Woken
  <2>2. pt'[p].pc = "taken" /\ pt'[p].job = port[p].pIniJob BY <1>t, <2>1 DEF PortThreadAt
  <2>3. port'[p].hProc # "aborted" BY <1>p, <1>e, <2>1 DEF PortRecords, Ended, Woken
  <2> QED BY <1>k, <1>i, <2>1, <2>2, <2>3 DEF PortReads, Woken
\* Up to the document.
<1>4. ASSUME PortThreadBegins(p) PROVE Fine
  <2>1. /\ pt[p].pc = "taken" /\ pt'[p].pc = "devq" /\ pt'[p].job = j /\ UNCHANGED <<job, port>>
    BY <1>4, <1>g DEF PortThreadBegins, PortAt
  <2>2. j \in Jobs BY <1>h, <2>1 DEF Jobless
  <2>3. Status'[j] \subseteq Status[j] BY <1>r, <1>s, <1>4, <2>2 DEF PortThreadBegins
  <2>4. JobReads(j)' BY <1>0, <1>d, <1>i, <2>1, <2>2, <2>3 DEF JobReads
  <2> QED BY <1>r, <1>e, <1>i, <2>1, <2>3, <2>4 DEF PortReads, Woken, AtWork, Ended
<1>5. ASSUME DevQueryPrint(p) PROVE Fine
  <2>1. pt[p].pc = "devq" /\ pt'[p].job = j /\ pt'[p].pc \in {"open", "post"}
    BY <1>r, <1>t, <1>5, <1>g DEF DevQueryPrint, PtRecords
  <2>2. UNCHANGED <<job, Status, port>> BY <1>5 DEF DevQueryPrint
  <2> QED BY <1>r, <1>e, <1>i, <1>k, <2>1, <2>2 DEF PortReads, Woken, AtWork, Ended
<1>6. ASSUME OpenPrintProcessor(p) PROVE Fine
  <2>1. pt[p].pc = "open" /\ UNCHANGED job BY <1>6 DEF OpenPrintProcessor, PortAt
  <2>2. j \in Jobs BY <1>h, <2>1 DEF Jobless
  <2>3. \/ pt'[p].pc = "print" /\ pt'[p].job = j /\ port'[p].hProc = "running"
        \/ pt'[p].pc = "discard" /\ pt'[p].job = j /\ UNCHANGED port
    BY <1>p, <1>6, <1>g DEF OpenPrintProcessor, PortRecords
  <2>4. Status'[j] \subseteq Status[j] \cup {"PRINTING"}
    BY <1>r, <1>s, <1>6, <2>2 DEF OpenPrintProcessor
  <2>5. JobReads(j)' BY <1>0, <1>d, <1>i, <2>1, <2>2, <2>4 DEF JobReads
  <2> QED BY <1>r, <1>e, <1>i, <2>1, <2>3, <2>4, <2>5 DEF PortReads, Woken, AtWork, Ended
<1>7. ASSUME PrintRawJob(p) PROVE Fine
  <2>1. pt[p].pc = "print" /\ UNCHANGED <<Status, port>> BY <1>7 DEF PrintRawJob, PortAt
  <2>2. j \in Jobs BY <1>h, <2>1 DEF Jobless
  <2>3. Source(j) = j BY <2>2, NextNone
  <2>4. \/ /\ pt'[p].pc = "read" /\ pt'[p].job = j
           /\ job' = [job EXCEPT ![j].unread = job[j].data]
        \/ pt'[p].pc = "close" /\ pt'[p].job = j /\ UNCHANGED job
    BY <1>r, <1>t, <1>7, <1>g, <2>3 DEF PrintRawJob, PtRecords
  <2>5. /\ job'[j].unread \in {job[j].unread, job[j].data}
        /\ job'[j].data = job[j].data /\ job'[j].Size = job[j].Size
    BY <1>j, <2>2, <2>4 DEF JobRecords
  <2>6. "PRINTED" \notin Status[j] BY <1>r, <1>i, <2>1 DEF PortReads, AtWork
  <2>7. JobReads(j)' BY <1>0, <1>d, <1>i, <1>u, <2>1, <2>2, <2>5, <2>6 DEF JobReads
  <2> QED BY <1>e, <2>1, <2>4, <2>6, <2>7 DEF PortReads, Woken, AtWork, Ended
\* Reading: until nothing is left, or the job is to stop.
<1>8. ASSUME ReadPrinter(p) PROVE Fine
  <2>1. pt[p].pc \in {"read", "again"} /\ UNCHANGED port BY <1>8 DEF ReadPrinter, PortAt
  <2>2. j \in Jobs BY <1>h, <2>1 DEF Jobless
  <2>3. Source(j) = j BY <2>2, NextNone
  <2>4. ~ MustWait(j) BY <1>d, <2>2 DEF MustWait, Has
  <2>5. \/ /\ pt'[p].pc = "closejob" /\ pt'[p].job = j /\ UNCHANGED <<Status, job>> /\ Stopped(j)
        \/ /\ pt'[p].pc = IF job[j].unread > 0 THEN "write" ELSE "closejob"
           /\ pt'[p].job = j
           /\ Status' = [Status EXCEPT ![j] = @ \ {"TIMEOUT", "ABANDON"}]
           /\ job' = [job EXCEPT ![j].unread = IF @ > 0 THEN @ - 1 ELSE 0]
    BY <1>r, <1>8, <1>g, <2>3, <2>4 DEF ReadPrinter, Stopped, Has
  <2>6. "PRINTED" \notin Status[j] BY <1>r, <1>i, <2>1 DEF PortReads, AtWork
  <2>7. CASE /\ pt'[p].pc = "closejob" /\ pt'[p].job = j /\ UNCHANGED <<Status, job>> /\ Stopped(j)
    BY <1>e, <1>k, <2>1, <2>6, <2>7 DEF PortReads, Woken, AtWork, Ended, Stopped, Has
  <2>8. CASE /\ pt'[p].pc = IF job[j].unread > 0 THEN "write" ELSE "closejob"
             /\ pt'[p].job = j
             /\ Status' = [Status EXCEPT ![j] = @ \ {"TIMEOUT", "ABANDON"}]
             /\ job' = [job EXCEPT ![j].unread = IF @ > 0 THEN @ - 1 ELSE 0]
    <3>1. Status'[j] \subseteq Status[j] BY <1>s, <2>2, <2>8
    <3>2. /\ job'[j].unread = IF job[j].unread > 0 THEN job[j].unread - 1 ELSE 0
          /\ job'[j].data = job[j].data /\ job'[j].Size = job[j].Size
      BY <1>j, <2>2, <2>8 DEF JobRecords
    <3>3. job'[j].unread <= job'[j].data BY <1>i, <1>u, <2>2, <3>2 DEF JobReads
    <3>4. JobReads(j)' BY <1>0, <1>d, <2>2, <2>6, <3>1, <3>2, <3>3
    <3>5. pt'[p].pc = "closejob" => job'[j].unread = 0 BY <1>u, <2>2, <2>8, <3>2
    <3> QED BY <1>e, <2>1, <2>6, <2>8, <3>1, <3>4, <3>5 DEF PortReads, Woken, AtWork, Ended
  <2> QED BY <2>5, <2>7, <2>8
<1>9. ~ ReadPrinterWakes(p) /\ ~ ReadPrinterTimesOut(p)
  BY DEF NotWhileSpooling, ReadPrinterWakes, ReadPrinterTimesOut, PortAt
<1>10. ASSUME WritePort(p) PROVE Fine
  <2>1. pt[p].pc = "write" /\ UNCHANGED <<job, Status, port>> BY <1>10 DEF WritePort
  <2>2. pt'[p].pc = "read" /\ pt'[p].job = j BY <1>10, <1>e, <1>g, <2>1 DEF WritePort, Ended
  <2> QED BY <1>r, <1>e, <1>i, <1>k, <2>1, <2>2 DEF PortReads, Woken, AtWork, Ended
\* The end of the document.
<1>11. ASSUME ClosePrinter(p) PROVE Fine
  <2>1. /\ pt[p].pc = "closejob" /\ UNCHANGED <<job, Status, port>>
        /\ pt'[p].pc = "enddoc" /\ pt'[p].job = j
    BY <1>11, <1>g DEF ClosePrinter, PortAt
  <2> QED BY <1>r, <1>e, <1>i, <1>k, <2>1 DEF PortReads, Woken, AtWork, Ended, Stopped, Has
<1>12. ASSUME EndDocPort(p) PROVE Fine
  <2>1. /\ pt[p].pc = "enddoc" /\ UNCHANGED port /\ pt'[p].pc = "sent" /\ pt'[p].job = j
    BY <1>12, <1>g DEF EndDocPort, PortAt
  <2>2. j \in Jobs BY <1>h, <2>1 DEF Jobless
  <2>3. /\ job'[j].unread = job[j].unread /\ job'[j].data = job[j].data /\ job'[j].Size = job[j].Size
    BY <1>r, <1>j, <1>12, <2>2 DEF EndDocPort, JobRecords
  <2>4. /\ Status'[j] \subseteq Status[j] \cup {"INTERRUPTED"}
        /\ Stopped(j) => "INTERRUPTED" \in Status'[j]
    BY <1>r, <1>s, <1>12, <2>2 DEF EndDocPort, Stopped
  <2>5. JobReads(j)' BY <1>0, <1>d, <1>i, <2>2, <2>3, <2>4 DEF JobReads
  <2> QED BY <1>r, <1>e, <1>i, <2>1, <2>3, <2>4, <2>5 DEF PortReads, Woken, AtWork, Ended
<1>13. ASSUME SentToPrinter(p) PROVE Fine
  <2>1. pt[p].pc = "sent" /\ UNCHANGED port BY <1>13 DEF SentToPrinter, PortAt
  <2>2. j \in Jobs BY <1>h, <2>1 DEF Jobless
  <2>3. pt'[p].pc \in {"alert", "tail"} BY <1>13, <1>g DEF SentToPrinter
  <2>p. PICK pending :
          /\ job' = [job EXCEPT ![j].dwJobControlsPending = pending]
          /\ Status' = [Status EXCEPT ![j] = IF pending = 0 /\ ~ Has(j, {"INTERRUPTED", "SPOOLING"})
                                             THEN (@ \cup {"PRINTED"}) \ {"COMPLETE"} ELSE @]
    BY <1>r, <1>13, Zenon DEF SentToPrinter
  <2>4. PICK printed \in BOOLEAN :
          /\ printed => ~ Has(j, {"INTERRUPTED", "SPOOLING"})
          /\ Status' = [Status EXCEPT ![j] = IF printed THEN (@ \cup {"PRINTED"}) \ {"COMPLETE"} ELSE @]
    <3> DEFINE toldAll == pending = 0 /\ ~ Has(j, {"INTERRUPTED", "SPOOLING"})
    <3> WITNESS toldAll \in BOOLEAN
    <3> QED BY <2>p, Zenon
  <2>5. /\ job'[j].unread = job[j].unread /\ job'[j].data = job[j].data /\ job'[j].Size = job[j].Size
    BY <1>j, <2>2, <2>p DEF JobRecords
  <2>6. /\ Status'[j] \subseteq Status[j] \cup {"PRINTED"}
        /\ "PRINTED" \in Status'[j] => "PRINTED" \in Status[j] \/ "INTERRUPTED" \notin Status[j]
    BY <1>s, <2>2, <2>4 DEF Has
  <2>7. JobReads(j)' BY <1>r, <1>0, <1>d, <1>i, <2>1, <2>2, <2>5, <2>6 DEF JobReads, PortReads
  <2> QED BY <1>e, <2>1, <2>3, <2>7 DEF PortReads, Woken, AtWork, Ended
<1>14. ASSUME SentToPrinterAlerted(p) PROVE Fine
  <2>1. pt[p].pc = "alert" /\ UNCHANGED <<job, port>> /\ pt'[p].pc = "tail"
    BY <1>14, <1>g DEF SentToPrinterAlerted, PortAt
  <2>2. j \in Jobs BY <1>h, <2>1 DEF Jobless
  <2>3. Status'[j] \subseteq Status[j] BY <1>r, <1>s, <1>14, <2>2 DEF SentToPrinterAlerted
  <2>4. JobReads(j)' BY <1>0, <1>d, <1>i, <2>1, <2>2, <2>3 DEF JobReads
  <2> QED BY <2>1, <2>4 DEF PortReads, Woken, AtWork, Ended
<1>15. ASSUME SentToPrinterTail(p) \/ EndDocPortDone(p) PROVE Fine
  <2>1. UNCHANGED <<job, Status, port>> /\ pt'[p].pc \in {"ended", "close"}
    BY <1>15, <1>g DEF SentToPrinterTail, EndDocPortDone
  <2> QED BY <1>k, <2>1 DEF PortReads, Woken, AtWork, Ended
\* What comes after it.
<1>16. ASSUME PrintDone(p) PROVE Fine
  <2>1. pt[p].pc = "close" /\ UNCHANGED <<job, port>> /\ pt'[p].pc = "closeproc"
    BY <1>16, <1>g DEF PrintDone, PortAt
  <2>2. j \in Jobs BY <1>h, <2>1 DEF Jobless
  <2>3. Status'[j] \subseteq Status[j] BY <1>r, <1>s, <1>16, <2>2 DEF PrintDone
  <2>4. JobReads(j)' BY <1>0, <1>d, <1>i, <2>1, <2>2, <2>3 DEF JobReads
  <2> QED BY <2>1, <2>4 DEF PortReads, Woken, AtWork, Ended
<1>17. ASSUME ClosePrintProcessor(p) PROVE Fine
  <2>1. UNCHANGED <<job, Status>> /\ pt'[p].pc \in {"discard", "post"}
    BY <1>17, <1>g DEF ClosePrintProcessor
  <2>2. port'[p].hProc = "closed" BY <1>p, <1>17 DEF ClosePrintProcessor, PortRecords
  <2> QED BY <1>k, <2>1, <2>2 DEF PortReads, Woken, AtWork
<1>18. ASSUME DiscardJobFromPortThread(p) PROVE Fine
  <2>1. pt[p].pc = "discard" /\ UNCHANGED <<job, port>> /\ pt'[p].pc = "post"
    BY <1>18, <1>g DEF DiscardJobFromPortThread, PortAt
  <2>2. j \in Jobs BY <1>h, <2>1 DEF Jobless
  <2>3. Status'[j] \subseteq Status[j] \cup {"PENDING_DELETION"}
    BY <1>r, <1>s, <1>18, <2>2 DEF DiscardJobFromPortThread
  <2>4. JobReads(j)' BY <1>0, <1>d, <1>i, <2>1, <2>2, <2>3 DEF JobReads
  <2> QED BY <1>e, <2>1, <2>4 DEF PortReads, Woken, AtWork, Ended
\* An empty job counts as printed; there was nothing to read.
<1>19. ASSUME PortThreadFinishes(p) PROVE Fine
  <2>1. pt[p].pc = "post" BY <1>19 DEF PortThreadFinishes, PortAt
  <2>2. j \in Jobs BY <1>h, <2>1 DEF Jobless
  <2>3. pt'[p].pc \in {"log", "keep"} BY <1>19, <1>g DEF PortThreadFinishes
  <2>4. PICK next, after : /\ job' = [job EXCEPT ![j].pCurrentIniJob = next]
                           /\ port' = [port EXCEPT ![p].pIniJob = after]
    BY <1>r, <1>19 DEF PortThreadFinishes
  <2>5. /\ job'[j].unread = job[j].unread /\ job'[j].data = job[j].data /\ job'[j].Size = job[j].Size
    BY <1>j, <2>2, <2>4 DEF JobRecords
  <2>6. port'[p].hProc # "aborted" BY <1>p, <1>e, <2>1, <2>4 DEF PortRecords, Ended
  <2>7. /\ Status'[j] \subseteq Status[j] \cup {"BLOCKED_DEVQ", "PRINTED", "COMPLETE"}
        /\ "PRINTED" \in Status'[j] => "PRINTED" \in Status[j] \/ job[j].Size = 0
    BY <1>r, <1>s, <1>19, <2>2 DEF PortThreadFinishes
  <2>8. job[j].Size = 0 => job[j].unread = 0 BY <1>i, <1>u, <2>2 DEF JobReads
  <2>9. JobReads(j)' BY <1>0, <1>d, <1>i, <2>2, <2>5, <2>7, <2>8 DEF JobReads
  <2> QED BY <2>3, <2>6, <2>9 DEF PortReads, Woken, AtWork
<1>20. ASSUME PortThreadKeeps(p) PROVE Fine
  <2>1. pt[p].pc \in {"log", "keep"} /\ UNCHANGED <<job, port>>
    BY <1>20 DEF PortThreadKeeps, PortAt, Hold
  <2>2. j \in Jobs BY <1>h, <2>1 DEF Jobless
  <2>3. pt'[p].pc \in {"shadow", "release"} BY <1>20, <1>g DEF PortThreadKeeps
  <2>4. Status'[j] \subseteq Status[j] \cup {"COMPLETE"} BY <1>r, <1>s, <1>20, <2>2 DEF PortThreadKeeps
  <2>5. JobReads(j)' BY <1>0, <1>d, <1>i, <2>1, <2>2, <2>4 DEF JobReads
  <2> QED BY <1>e, <2>1, <2>3, <2>5 DEF PortReads, Woken, AtWork, Ended
<1>21. ASSUME PortThreadReleases(p) PROVE Fine
  <2>1. /\ pt[p].pc \in {"shadow", "release"}
        /\ pt' = [pt EXCEPT ![p] = PortThreadAt("top", NoJob)]
        /\ port' = [port EXCEPT ![p].cJobs = @ - 1]
        /\ job' = [job EXCEPT ![j].pIniPort = NoPort]
    BY <1>r, <1>21 DEF PortThreadReleases, PortAt, Hold
  <2>2. j \in Jobs BY <1>h, <2>1 DEF Jobless
  <2>3. pt'[p].pc = "top" BY <1>t, <2>1 DEF PortThreadAt
  <2>4. /\ job'[j].unread = job[j].unread /\ job'[j].data = job[j].data /\ job'[j].Size = job[j].Size
    BY <1>j, <2>1, <2>2 DEF JobRecords
  <2>5. port'[p].hProc # "aborted" BY <1>p, <1>e, <2>1 DEF PortRecords, Ended
  <2>6. Status'[j] \subseteq Status[j] BY <1>r, <1>s, <1>21, <2>2 DEF PortThreadReleases
  <2>7. JobReads(j)' BY <1>0, <1>d, <1>i, <2>2, <2>4, <2>6 DEF JobReads
  <2> QED BY <2>3, <2>5, <2>7 DEF PortReads, Woken, AtWork
<1> HIDE DEF Fine
<1>22. Fine
  BY <1>1, <1>2, <1>3, <1>4, <1>5, <1>6, <1>7, <1>8, <1>9, <1>10, <1>11, <1>12, <1>13, <1>14,
     <1>15, <1>16, <1>17, <1>18, <1>19, <1>20, <1>21
  DEF PortThread
<1> QED BY <1>r, <1>22 DEF Fine

\* The thread of port p tells the monitor that its document is over before it
\* deletes its job, or finds the job pending deletion.
LEMMA PortThreadTellsOwn ==
  ASSUME ReadGround, NEW p \in Ports, PortThread(p)
  PROVE  /\ splSem \in {NoThread, p} \/ UNCHANGED Status
         /\ \/ UNCHANGED del
            \/ "PENDING_DELETION" \in Status'[pt[p].job]
            \/ pt'[p].pc = "tail" /\ pt'[p].job = pt[p].job
<1> DEFINE Tells == /\ splSem \in {NoThread, p} \/ UNCHANGED Status
                    /\ \/ UNCHANGED del
                       \/ "PENDING_DELETION" \in Status'[pt[p].job]
                       \/ pt'[p].pc = "tail" /\ pt'[p].job = pt[p].job
<1>t. pt \in [Ports -> PtRecords] BY DEF ReadGround, TypeInv, TypeOK, ThreadTypes
<1>g. PortGoesTo(p, "tail") => pt'[p].pc = "tail" /\ pt'[p].job = pt[p].job
  BY <1>t DEF PortGoesTo, PtRecords
<1> USE DEF PortFrame
<1>1. ASSUME DevQueryPrint(p) PROVE Tells BY <1>1 DEF DevQueryPrint
<1>2. ASSUME WritePort(p) PROVE Tells BY <1>2 DEF WritePort
<1>3. ASSUME ClosePrintProcessor(p) PROVE Tells BY <1>3 DEF ClosePrintProcessor
<1>4. ASSUME ClosePrinter(p) PROVE Tells
  BY <1>4 DEF ClosePrinter, DeleteJobCheckAndLeave, PortAt, Enter
<1>5. ASSUME SentToPrinter(p) PROVE Tells
  <2>1. splSem \in {NoThread, p} BY <1>5 DEF SentToPrinter, PortAt, Enter
  <2>2. UNCHANGED del \/ PortGoesTo(p, "tail") BY <1>5 DEF SentToPrinter
  <2> QED BY <1>g, <2>1, <2>2
<1>6. ASSUME SentToPrinterAlerted(p) PROVE Tells
  BY <1>g, <1>6 DEF SentToPrinterAlerted, PortAt, Enter
<1>7. ASSUME SentToPrinterTail(p) PROVE Tells
  BY <1>7 DEF SentToPrinterTail, DeleteJobCheckAndLeave, Hold
<1>8. ASSUME EndDocPortDone(p) PROVE Tells
  BY <1>8 DEF EndDocPortDone, DeleteJobCheckAndLeave, PortAt, Enter, Hold
<1>9. ASSUME PortThreadReleases(p) PROVE Tells
  BY <1>9 DEF PortThreadReleases, DeleteJobCheckAndHold, PortAt, Enter, Hold
<1>10. ASSUME splSem \in {NoThread, p} \/ UNCHANGED Status, UNCHANGED del PROVE Tells BY <1>10
<1> HIDE DEF Tells
<1>11. Tells
  BY <1>1, <1>2, <1>3, <1>4, <1>5, <1>6, <1>7, <1>8, <1>9, <1>10
  DEF PortThread, PortThreadWaits, PortThreadExits, PortThreadTakes, PortThreadBegins,
      OpenPrintProcessor, PrintRawJob, ReadPrinter, ReadPrinterWakes, ReadPrinterTimesOut,
      EndDocPort, PrintDone, DiscardJobFromPortThread, PortThreadFinishes, PortThreadKeeps,
      PortAt, Enter, Hold
<1> QED BY <1>11 DEF Tells

\* What it prints is no other port's job.
LEMMA PortThreadReads ==
  ASSUME ReadGround, ReadInv, NEW p \in Ports, PortThread(p)
  PROVE  ReadInv'
<1> USE DEF ReadGround
<1>1. UNCHANGED <<app, client>> BY PortThreadMoves
<1>2. \A q \in Ports \ {p} : port'[q] = port[q] /\ pt'[q] = pt[q] BY PortThreadAlone
<1>3. \A k \in Jobs \ {pt[p].job} : Calm(k) BY <1>1, PortThreadOwnJob DEF Calm
<1>4. ASSUME NEW j \in Jobs PROVE JobReads(j)'
  <2>1. CASE j = pt[p].job BY <2>1, PortThreadOwnReads
  <2>2. CASE j # pt[p].job BY <1>3, <2>2, CalmReads DEF ReadInv
  <2> QED BY <2>1, <2>2
<1>5. ASSUME NEW q \in Ports \ {p} PROVE PortReads(q)'
  <2>1. NoJob \notin Jobs BY ConstantsAssumption DEF ConstantsAssumption
  <2>2. ASSUME NEW k \in Jobs, k \in Claimed(q) PROVE Calm(k)
    <3>1. k \notin Claimed(p) BY <2>2 DEF Ownership, OnePortPerJob
    <3>2. k # pt[p].job BY <2>1, <2>2, <3>1 DEF Claimed
    <3> QED BY <1>3, <3>2
  <2>3. Woken(q)' => Woken(q) /\ port'[q].pIniJob = port[q].pIniJob BY <1>2 DEF Woken
  <2> QED BY <1>2, <2>2, <2>3, CalmPort DEF ReadInv
<1>6. \A s \in Threads : DeletesOwn(s)'
  <2>1. p \in Threads BY DEF Threads
  <2>2. MayDelete(p, pt[p].job) BY PortThreadDeletes
  <2>3. \A q \in Ports \ {p} : pt[q].pc = "tail" => pt'[q] = pt[q] BY <1>2
  <2>4. \A j : j = pt[p].job =>
          /\ MayDelete(p, j)
          /\ UNCHANGED del \/ "PENDING_DELETION" \in Status'[j] \/ (pt'[p].pc = "tail" /\ pt'[p].job = j)
    BY <2>2, PortThreadTellsOwn
  <2>5. splSem \in {NoThread, p} \/ UNCHANGED Status BY PortThreadTellsOwn
  <2>6. PICK j : j = pt[p].job OBVIOUS
  <2> QED BY <2>1, <2>3, <2>4, <2>5, <2>6, StretchDeletesOwn DEF ReadInv
<1> QED BY <1>1, <1>4, <1>5, <1>6, PortThreadOwnReads DEF ReadInv

\* Every step keeps it.
LEMMA ReadAlways ==
  ASSUME SpooledFirst, JobsAreLeft
  PROVE  Spec => []ReadInv
<1>1. Init => ReadInv
  <2> SUFFICES ASSUME Init PROVE ReadInv OBVIOUS
  <2>1. \A j \in Jobs : JobReads(j) BY DEF Init, JobReads
  <2>2. \A p \in Ports : PortReads(p) BY DEF Init, PortReads, Woken, PortThreadAt, AtWork
  <2>3. \A t \in Threads : DeletesOwn(t) BY DEF Init, DeletesOwn, NotDeleting
  <2>4. \A c \in Clients : client[c].pc # "alert" BY DEF Init, NoCall
  <2> QED BY <2>1, <2>2, <2>3, <2>4 DEF ReadInv
<1>2. ReadGround /\ ReadInv /\ [Next]_vars => ReadInv'
  <2> SUFFICES ASSUME ReadGround, ReadInv, [Next]_vars PROVE ReadInv' OBVIOUS
  <2>1. CASE UNCHANGED vars
    BY <2>1 DEF vars, jobVars, ReadInv, JobReads, PortReads, DeletesOwn, Woken, Stopped, Has
  <2>2. CASE Next
    BY <2>2, DeleteJobReads, ApplicationReads, ClientReads, PortThreadReads, SchedulerReads DEF Next
  <2> QED BY <2>1, <2>2
<1>3. Spec => []Unchained /\ []PortsGivenJobs
  <2>1. NoChains BY DEF NoChains, JobsAreLeft
  <2> QED BY <2>1, UnchainedAlways, GivenAlways
<1>4. Spec => []NotWhileSpooling BY NotWhileSpoolingAlways
<1>5. TypeInv /\ Ownership /\ Unchained /\ PortsGivenJobs /\ InSection /\ NotWhileSpooling => ReadGround
  BY DEF ReadGround
<1> QED
  BY <1>1, <1>2, <1>3, <1>4, <1>5, TypesAlways, OwnershipAlways, InSectionAlways, PTL DEF Spec

\* A job marked as printed was read to its end, whoever pauses, resumes or restarts
\* it, and whatever becomes of the document (EndDocPrinter, spooler.c, and SetJob's
\* JOB_CONTROL_SENT_TO_PRINTER, job.c 1428), on a printer that spools its jobs
\* before it prints them and whose jobs nobody cancels, deletes or chains.
THEOREM PrintedWasRead ==
  ASSUME SpooledFirst, JobsAreLeft
  PROVE  Spec => []PrintedImpliesRead
<1>1. ReadInv => PrintedImpliesRead BY DEF ReadInv, JobReads, PrintedImpliesRead
<1> QED BY <1>1, ReadAlways, PTL

=============================================================================
