--------------------------- MODULE JobStoreProofs ---------------------------
(***************************************************************************)
(* For every number of documents, clients and ids: a job id names one job  *)
(* at a time, where documents are submitted by StartDocPrinter, no         *)
(* application asks for a spool file's handle, and the bitmap can grow.    *)
(*                                                                         *)
(* The argument rests on the reference count of a job.  DeleteJob takes a  *)
(* job that is still used for a moment by taking a reference, and only the *)
(* thread that finds none left removes the job and holds its id until the  *)
(* files are gone.  So the count must be exact at every step.              *)
(*                                                                         *)
(* The last part is about the jobs of AddJob, which stand on the list of a *)
(* handle until they are scheduled.                                        *)
(***************************************************************************)
EXTENDS JobStoreProperties, FiniteSetTheorems, TLAPS

\* ClosePrinter has no ids to free, and an id is never 0.
StartDocOnly == AddJobs = {} /\ Mapped = {} /\ "ReallocJobIdMap" \notin Failures

CallPcs   == {"cancel", "deleteShadow", "shadowDeleted", "shadowKept"}
WritePcs  == {"createFile", "write", "closeFile", "written", "unwritten"}
RemovePcs == {"removeShadow", "removeSpool", "freeId"}
SubmitPcs == {"create", "queue"}
PortPcs   == {"assigned", "query", "refused", "printing", "sent", "end"}
ClientPcs == {"close", "deleteFile"}

\* Who has a reference to document d: a thread in DeleteJob, the handle that spools
\* it, the port thread that keeps it.  The port the job is assigned to has another.
Calls(r, d)  == r.doc = d /\ r.pc \in CallPcs
Spools(h, d) == h.STARTDOC /\ h.pIniJob = d
Keeps(r, d)  == r.doc = d /\ r.pc \in WritePcs /\ r.then = "kept"

Callers(d)  == {t \in Threads : Calls(thread[t], d)}
Spoolers(d) == {c \in Clients : Spools(handle[c], d)}
One(b)      == IF b THEN 1 ELSE 0
Despools(d) == "DESPOOLING" \in job[d].Status

\* The reference count of every job is exact, and 0 outside the queue.
RefsExact ==
  \A d \in Docs : job[d].cRef = Cardinality(Callers(d)) + Cardinality(Spoolers(d))
                                + One(Despools(d)) + One(Keeps(thread[Port], d))
RefsQueued == \A d \in Docs : job[d].state # "queued" => job[d].cRef = 0

\* The port thread works on a job that is assigned to it.
PortBusy(r) == r.pc \in PortPcs \cup WritePcs \/ (r.pc \in CallPcs /\ r.then = "sent")

\* Where a thread is says what it works on, and for whom.
ThreadOK(t) ==
  /\ thread[t].pc \in {"idle"} \cup CallPcs \cup WritePcs \cup RemovePcs
                        \cup SubmitPcs \cup PortPcs \cup ClientPcs
  /\ thread[t].pc \notin {"idle", "close"} => thread[t].doc \in Docs
  /\ thread[t].pc \in SubmitPcs =>
       t \in Clients /\ ~ handle[t].STARTDOC /\ job[thread[t].doc].state = "submitted"
  /\ thread[t].pc \in WritePcs =>
       IF t = Port THEN thread[t].then \in {"query", "kept"}
       ELSE thread[t].then = "endDoc" /\ Spools(handle[t], thread[t].doc)
  /\ thread[t].pc \in PortPcs => t = Port
  /\ thread[t].pc \in CallPcs =>
       thread[t].then = "idle" \/ (thread[t].then = "sent" /\ t = Port)
  /\ thread[t].pc \in RemovePcs => thread[t].then = "idle"
  /\ thread[t].pc \in ClientPcs => t \in Clients
  /\ thread[t].pc = "close" => ~ handle[t].STARTDOC
  /\ t = Port /\ PortBusy(thread[t]) => Despools(thread[t].doc)

\* One thread submits a document.
SubmitsAlone ==
  \A t, u \in Threads :
    thread[t].pc \in SubmitPcs /\ thread[u].pc \in SubmitPcs /\ thread[t].doc = thread[u].doc
      => t = u

HandleOK(c) ==
  /\ handle[c].mapped = [i \in Ids |-> "none"] /\ ~ handle[c].ADDJOB
  /\ handle[c].STARTDOC => handle[c].pIniJob \in Docs
HandlesOK == \A c \in Clients : HandleOK(c)

\* The ids that are used are marked, and used once.
IdsOK ==
  /\ dwCurrentJobId < dwMaxJobId /\ \A i \in idMap : i < dwMaxJobId
  /\ \A d \in Queued : job[d].JobId \in idMap
  /\ \A d, e \in Queued : job[d].JobId = job[e].JobId => d = e
  /\ \A t \in Threads : \A i \in Ids : HoldsId(t, i) => i \in idMap /\ FindJob(i) = {}
  /\ \A t, u \in Threads : \A i \in Ids : HoldsId(t, i) /\ HoldsId(u, i) => t = u

ThreadsOK == SubmitsAlone /\ \A t \in Threads : ThreadOK(t)
StoreInv == Types /\ RefsExact /\ RefsQueued /\ ThreadsOK /\ HandlesOK /\ IdsOK

----------------------------------------------------------------------------
(* Counting references.                                                     *)

\* The types of what is in memory.
CoreTypes ==
  /\ idMap \subseteq Ids /\ dwCurrentJobId \in Ids /\ dwMaxJobId \in 1 .. MaxIds + 1
  /\ job \in [Docs -> JobRecords]
  /\ handle \in [Clients -> HandleRecords]
  /\ thread \in [Threads -> ThreadRecords]

\* A step of thread t: the other threads, handles and documents stay.
Moves(t, d) ==
  /\ CoreTypes'
  /\ \A u \in Threads : u # t => thread'[u] = thread[u]
  /\ \A c \in Clients : c # t => handle'[c] = handle[c]
  /\ \A e \in Docs : e # d => job'[e] = job[e]

\* The references of thread t to document e.
Held(t, e) == One(Calls(thread[t], e)) + One(t \in Clients /\ Spools(handle[t], e))
              + One(t = Port /\ Keeps(thread[t], e))

\* There are finitely many threads to count.
LEMMA ThreadsFinite == IsFiniteSet(Threads) /\ IsFiniteSet(Clients)
<1>1. IsFiniteSet(Clients) BY ConstantsAssumption
<1> QED BY <1>1, FS_AddElement DEF Threads

\* The size of a set that thread t may enter or leave.
LEMMA CountOne ==
  ASSUME NEW S, NEW P \in SUBSET S, NEW Q \in SUBSET S, IsFiniteSet(S), NEW t \in S,
         \A u \in S : u # t => (u \in P <=> u \in Q)
  PROVE  /\ Cardinality(P) \in Nat /\ Cardinality(Q) \in Nat
         /\ Cardinality(Q) = Cardinality(P) + One(t \in Q) - One(t \in P)
<1>1. IsFiniteSet(P) /\ IsFiniteSet(Q) BY FS_Subset
<1>2. Cardinality(P) \in Nat /\ Cardinality(Q) \in Nat BY <1>1, FS_CardinalityType
<1>3. CASE t \in P <=> t \in Q
  <2>1. P = Q BY <1>3
  <2> QED BY <2>1, <1>2 DEF One
<1>4. CASE t \in Q /\ t \notin P
  <2>1. Q = P \cup {t} BY <1>4
  <2> QED BY <2>1, <1>1, <1>2, <1>4, FS_AddElement DEF One
<1>5. CASE t \in P /\ t \notin Q
  <2>1. Q = P \ {t} BY <1>5
  <2>2. Cardinality(Q) = Cardinality(P) - 1 BY <2>1, <1>1, <1>5, FS_RemoveElement
  <2> QED BY <2>2, <1>2, <1>5 DEF One
<1> QED BY <1>3, <1>4, <1>5

\* The count stays exact when it changes with the references of the thread that moves.
LEMMA RefsStep ==
  ASSUME NEW t \in Threads, NEW d, Moves(t, d), RefsExact,
         \A e \in Docs : job'[e].cRef = job[e].cRef + Held(t, e)' - Held(t, e)
                                          + One(Despools(e)') - One(Despools(e))
  PROVE  RefsExact'
<1> SUFFICES ASSUME NEW e \in Docs
             PROVE  job'[e].cRef = Cardinality(Callers(e)') + Cardinality(Spoolers(e)')
                                   + One(Despools(e)') + One(Keeps(thread[Port], e)')
  BY DEF RefsExact
<1> DEFINE calls == Cardinality(Callers(e))
           spools == Cardinality(Spoolers(e))
           calls1 == Cardinality(Callers(e)')
           spools1 == Cardinality(Spoolers(e)')
<1>1. /\ calls \in Nat /\ calls1 \in Nat
      /\ calls1 = calls + One(Calls(thread[t], e)') - One(Calls(thread[t], e))
  <2>1. Callers(e) \in SUBSET Threads /\ Callers(e)' \in SUBSET Threads BY DEF Callers
  <2>2. \A u \in Threads : u # t => (u \in Callers(e) <=> u \in Callers(e)')
    BY DEF Callers, Calls, Moves
  <2>3. (t \in Callers(e) <=> Calls(thread[t], e)) /\ (t \in Callers(e)' <=> Calls(thread[t], e)')
    BY DEF Callers
  <2>4. /\ One(t \in Callers(e)) = One(Calls(thread[t], e))
        /\ One(t \in Callers(e)') = One(Calls(thread[t], e)')
    BY <2>3 DEF One
  <2> QED BY <2>1, <2>2, <2>4, ThreadsFinite, CountOne
<1>2. /\ spools \in Nat /\ spools1 \in Nat
      /\ spools1 = spools + One(t \in Clients /\ Spools(handle[t], e)')
                          - One(t \in Clients /\ Spools(handle[t], e))
  <2>1. Spoolers(e) \in SUBSET Clients /\ Spoolers(e)' \in SUBSET Clients BY DEF Spoolers
  <2>2. \A c \in Clients : c # t => (c \in Spoolers(e) <=> c \in Spoolers(e)')
    BY DEF Spoolers, Spools, Moves
  <2>3. CASE t \in Clients
    <3>1. (t \in Spoolers(e) <=> Spools(handle[t], e)) /\ (t \in Spoolers(e)' <=> Spools(handle[t], e)')
      BY <2>3 DEF Spoolers
    <3>2. /\ One(t \in Spoolers(e)) = One(t \in Clients /\ Spools(handle[t], e))
          /\ One(t \in Spoolers(e)') = One(t \in Clients /\ Spools(handle[t], e)')
      BY <3>1, <2>3 DEF One
    <3> QED BY <2>1, <2>2, <2>3, <3>2, ThreadsFinite, CountOne
  <2>4. CASE t \notin Clients
    <3>1. Spoolers(e) = Spoolers(e)' BY <2>1, <2>2, <2>4
    <3>2. IsFiniteSet(Spoolers(e)) BY <2>1, ThreadsFinite, FS_Subset
    <3>3. spools \in Nat BY <3>2, FS_CardinalityType
    <3> QED BY <3>1, <3>3, <2>4 DEF One
  <2> QED BY <2>3, <2>4
<1>3. One(Keeps(thread[Port], e)') = One(Keeps(thread[Port], e))
        + One(t = Port /\ Keeps(thread[t], e)') - One(t = Port /\ Keeps(thread[t], e))
  <2>1. CASE t = Port BY <2>1 DEF One
  <2>2. CASE t # Port
    <3>1. thread'[Port] = thread[Port] BY <2>2 DEF Moves, Threads
    <3> QED BY <3>1, <2>2 DEF One, Keeps
  <2> QED BY <2>1, <2>2
<1>4. job[e].cRef = calls + spools + One(Despools(e)) + One(Keeps(thread[Port], e))
  BY DEF RefsExact
<1>5. Held(t, e) = One(Calls(thread[t], e)) + One(t \in Clients /\ Spools(handle[t], e))
                     + One(t = Port /\ Keeps(thread[t], e))
  BY DEF Held
<1>6. Held(t, e)' = One(Calls(thread[t], e)') + One(t \in Clients /\ Spools(handle[t], e)')
                     + One(t = Port /\ Keeps(thread[t], e)')
  BY DEF Held
<1>7. \A b : One(b) \in Int BY DEF One
<1>8. job'[e].cRef = job[e].cRef + Held(t, e)' - Held(t, e) + One(Despools(e))' - One(Despools(e))
  OBVIOUS
<1> QED BY <1>1, <1>2, <1>3, <1>4, <1>5, <1>6, <1>8 DEF One

\* The count is no smaller than what one thread and the port hold of it.
LEMMA RefsAtLeast ==
  ASSUME RefsExact, NEW t \in Threads, NEW d \in Docs
  PROVE  job[d].cRef \in Nat /\ job[d].cRef >= Held(t, d) + One(Despools(d))
<1>1. /\ Cardinality(Callers(d)) \in Nat
      /\ Cardinality(Callers(d)) >= One(Calls(thread[t], d))
  <2>1. Callers(d) \in SUBSET Threads BY DEF Callers
  <2>2. Callers(d) \ {t} \in SUBSET Threads BY <2>1
  <2>3. \A u \in Threads : u # t => (u \in Callers(d) \ {t} <=> u \in Callers(d)) OBVIOUS
  <2>4. /\ Cardinality(Callers(d) \ {t}) \in Nat /\ Cardinality(Callers(d)) \in Nat
        /\ Cardinality(Callers(d)) = Cardinality(Callers(d) \ {t}) + One(t \in Callers(d))
                                        - One(t \in Callers(d) \ {t})
    BY <2>1, <2>2, <2>3, ThreadsFinite, CountOne
  <2>5. One(t \in Callers(d) \ {t}) = 0 BY DEF One
  <2>6. One(t \in Callers(d)) = One(Calls(thread[t], d)) BY DEF Callers, One
  <2> QED BY <2>4, <2>5, <2>6 DEF One
<1>2. /\ Cardinality(Spoolers(d)) \in Nat
      /\ Cardinality(Spoolers(d)) >= One(t \in Clients /\ Spools(handle[t], d))
  <2>1. Spoolers(d) \in SUBSET Clients BY DEF Spoolers
  <2>2. Cardinality(Spoolers(d)) \in Nat BY <2>1, ThreadsFinite, FS_Subset, FS_CardinalityType
  <2>3. CASE t \in Spoolers(d)
    <3>1. IsFiniteSet(Spoolers(d)) /\ Spoolers(d) # {} BY <2>1, <2>3, ThreadsFinite, FS_Subset
    <3>2. Cardinality(Spoolers(d)) # 0 BY <3>1, FS_EmptySet
    <3> QED BY <2>2, <3>2 DEF One
  <2>4. CASE t \notin Spoolers(d)
    <3>1. ~ (t \in Clients /\ Spools(handle[t], d)) BY <2>4 DEF Spoolers
    <3> QED BY <2>2, <3>1 DEF One
  <2> QED BY <2>3, <2>4
<1>3. One(t = Port /\ Keeps(thread[t], d)) <= One(Keeps(thread[Port], d)) BY DEF One
<1> QED BY <1>1, <1>2, <1>3 DEF RefsExact, Held, One

----------------------------------------------------------------------------
(* A step of one thread, at one document.                                   *)

\* Thread t has to do with document d only.
AtDoc(t, d) == thread[t].pc \in CallPcs \cup WritePcs => thread[t].doc = d

RefsMove(t, d) ==
  /\ AtDoc(t, d) /\ AtDoc(t, d)'
  /\ t \in Clients => \/ handle'[t] = handle[t]
                      \/ \A e \in Docs \ {d} : ~ Spools(handle[t], e) /\ ~ Spools(handle[t], e)'
  /\ d \in Docs => job'[d].cRef = job[d].cRef + Held(t, d)' - Held(t, d)
                                    + One(Despools(d))' - One(Despools(d))

\* What the others rely on.
Stays(t, d) ==
  d \in Docs =>
    /\ job'[d].state # "queued" => job'[d].cRef <= 0
    /\ t # Port /\ Despools(d) => Despools(d)'
    /\ job[d].state = "submitted" /\ job'[d].state # "submitted" =>
         thread[t].pc \in SubmitPcs /\ thread[t].doc = d /\ thread'[t].pc \notin SubmitPcs

Submits(t) ==
  thread'[t].pc \in SubmitPcs =>
    \/ thread[t].pc \in SubmitPcs /\ thread'[t].doc = thread[t].doc
    \/ job[thread'[t].doc].state = "new"

IsId(d, i) == d \in Docs /\ job[d].state = "queued" /\ job[d].JobId = i

\* A used id stays marked, and a thread frees no id but its own.
IdStep(t, d) ==
  /\ dwMaxJobId' >= dwMaxJobId /\ dwCurrentJobId' < dwMaxJobId'
  /\ \A i \in Ids :
       /\ i \in idMap' => i \in idMap \/ i < dwMaxJobId'
       /\ i \in idMap => i \in idMap' \/ HoldsId(t, i)
       /\ IsId(d, i)' \/ HoldsId(t, i)' =>
            i \in idMap' /\ (IsId(d, i) \/ HoldsId(t, i) \/ i \notin idMap)
       /\ ~ (IsId(d, i)' /\ HoldsId(t, i)')

StepOK(t, d) ==
  /\ Moves(t, d) /\ RefsMove(t, d) /\ Stays(t, d) /\ Submits(t)
  /\ ThreadOK(t)' /\ (t \in Clients => HandleOK(t)') /\ IdStep(t, d)

\* The count stays exact.
LEMMA RefsKept ==
  ASSUME StoreInv, NEW t \in Threads, NEW d, StepOK(t, d)
  PROVE  RefsExact' /\ RefsQueued'
<1>1. Moves(t, d) /\ RefsMove(t, d) /\ Stays(t, d) /\ RefsExact BY DEF StepOK, StoreInv
<1>2. ASSUME NEW e \in Docs
      PROVE  job'[e].cRef = job[e].cRef + Held(t, e)' - Held(t, e)
                              + One(Despools(e)') - One(Despools(e))
  <2>1. CASE e = d BY <1>1, <1>2, <2>1 DEF RefsMove
  <2>2. CASE e # d
    <3>1. job'[e] = job[e] BY <1>1, <2>2 DEF Moves
    <3>2. Despools(e)' <=> Despools(e) BY <3>1 DEF Despools
    <3>3. ~ Calls(thread[t], e) /\ ~ Calls(thread[t], e)' BY <1>1, <2>2 DEF RefsMove, AtDoc, Calls
    <3>4. ~ Keeps(thread[t], e) /\ ~ Keeps(thread[t], e)' BY <1>1, <2>2 DEF RefsMove, AtDoc, Keeps
    <3>5. (t \in Clients /\ Spools(handle[t], e)') <=> (t \in Clients /\ Spools(handle[t], e))
      BY <1>1, <2>2 DEF RefsMove, Spools
    <3>6. /\ One(Calls(thread[t], e)) = 0 /\ One(Calls(thread[t], e)') = 0
          /\ One(t = Port /\ Keeps(thread[t], e)) = 0 /\ One(t = Port /\ Keeps(thread[t], e)') = 0
          /\ One(t \in Clients /\ Spools(handle[t], e)') = One(t \in Clients /\ Spools(handle[t], e))
          /\ One(Despools(e)') = One(Despools(e))
      BY <3>2, <3>3, <3>4, <3>5 DEF One
    <3>7. Held(t, e)' = Held(t, e) BY <3>6 DEF Held
    <3>8. Held(t, e) \in Int /\ One(Despools(e)) \in Int /\ job[e].cRef \in Int
      BY <1>1, RefsAtLeast DEF Held, One
    <3> QED BY <3>1, <3>6, <3>7, <3>8
  <2> QED BY <2>1, <2>2
<1>3. RefsExact' BY <1>1, <1>2, RefsStep
<1>4. \A e \in Docs : job'[e].cRef \in Nat
  <2>1. ASSUME NEW S \in SUBSET Threads PROVE Cardinality(S) \in Nat
    BY ThreadsFinite, FS_Subset, FS_CardinalityType
  <2>2. ASSUME NEW e \in Docs PROVE Callers(e)' \in SUBSET Threads /\ Spoolers(e)' \in SUBSET Threads
    BY DEF Callers, Spoolers, Threads
  <2> QED BY <1>3, <2>1, <2>2 DEF RefsExact, One
<1>5. ASSUME NEW e \in Docs, job'[e].state # "queued" PROVE job'[e].cRef = 0
  <2>1. CASE e = d BY <1>1, <1>4, <1>5, <2>1 DEF Stays
  <2>2. CASE e # d
    <3>1. job'[e] = job[e] BY <1>1, <2>2 DEF Moves
    <3> QED BY <1>5, <3>1 DEF StoreInv, RefsQueued
  <2> QED BY <2>1, <2>2
<1> QED BY <1>3, <1>5 DEF RefsQueued

\* What the program counters and the handles say stays true.
LEMMA ThreadsKept ==
  ASSUME StoreInv, NEW t \in Threads, NEW d, StepOK(t, d)
  PROVE  ThreadsOK' /\ HandlesOK'
<1>1. /\ Moves(t, d) /\ Stays(t, d) /\ Submits(t) /\ ThreadOK(t)'
      /\ \A u \in Threads : ThreadOK(u)
  BY DEF StepOK, StoreInv, ThreadsOK
<1>2. ASSUME NEW u \in Threads, u # t PROVE ThreadOK(u)'
  <2>1. thread'[u] = thread[u] /\ (u \in Clients => handle'[u] = handle[u]) /\ ThreadOK(u)
    BY <1>1, <1>2 DEF Moves
  <2>2. thread[u].pc \in SubmitPcs => job'[thread[u].doc].state = "submitted"
    <3>1. SUFFICES ASSUME thread[u].pc \in SubmitPcs, job'[thread[u].doc].state # "submitted" PROVE FALSE
      OBVIOUS
    <3>2. thread[u].doc \in Docs /\ job[thread[u].doc].state = "submitted"
      BY <2>1, <3>1 DEF ThreadOK, SubmitPcs
    <3>3. thread[u].doc = d BY <1>1, <3>1, <3>2 DEF Moves
    <3>4. thread[t].pc \in SubmitPcs /\ thread[t].doc = d BY <1>1, <3>1, <3>2, <3>3 DEF Stays
    <3> QED BY <1>2, <3>1, <3>3, <3>4 DEF StoreInv, ThreadsOK, SubmitsAlone
  <2>3. u = Port /\ PortBusy(thread[u]) => Despools(thread[u].doc)'
    <3>1. SUFFICES ASSUME u = Port, PortBusy(thread[u]) PROVE Despools(thread[u].doc)'
      OBVIOUS
    <3>2. thread[u].doc \in Docs /\ Despools(thread[u].doc)
      BY <2>1, <3>1 DEF ThreadOK, PortBusy, PortPcs, WritePcs, CallPcs
    <3>3. CASE thread[u].doc = d BY <1>1, <1>2, <2>1, <3>1, <3>2, <3>3 DEF Stays, Despools
    <3>4. CASE thread[u].doc # d BY <1>1, <2>1, <3>2, <3>4 DEF Moves, Despools
    <3> QED BY <3>3, <3>4
  <2>4. u \in Clients \/ u = Port BY DEF Threads
  <2>5. thread[u].pc \in SubmitPcs \cup ClientPcs => u \in Clients BY <2>1 DEF ThreadOK
  <2> QED BY <2>1, <2>2, <2>3, <2>4, <2>5 DEF ThreadOK, ClientPcs, Spools
<1>3. \A u \in Threads : ThreadOK(u)' BY <1>1, <1>2
<1>4. ASSUME NEW u \in Threads, u # t, thread'[u].pc \in SubmitPcs, thread'[t].pc \in SubmitPcs,
             thread'[u].doc = thread'[t].doc
      PROVE  FALSE
  <2>1. thread[u] = thread'[u] BY <1>1, <1>4 DEF Moves
  <2>2. job[thread[u].doc].state = "submitted" BY <1>1, <1>4, <2>1 DEF ThreadOK
  <2>3. thread[t].pc \in SubmitPcs /\ thread[t].doc = thread[u].doc
    BY <1>1, <1>4, <2>1, <2>2 DEF Submits
  <2> QED BY <1>4, <2>1, <2>3 DEF StoreInv, ThreadsOK, SubmitsAlone
<1>5. SubmitsAlone'
  <2> SUFFICES ASSUME NEW u \in Threads, NEW v \in Threads,
                      thread'[u].pc \in SubmitPcs, thread'[v].pc \in SubmitPcs,
                      thread'[u].doc = thread'[v].doc, u # v
               PROVE  FALSE
    BY DEF SubmitsAlone
  <2>1. CASE u = t \/ v = t BY <1>4, <2>1
  <2>2. CASE u # t /\ v # t
    <3>1. thread[u] = thread'[u] /\ thread[v] = thread'[v] BY <1>1, <2>2 DEF Moves
    <3> QED BY <3>1 DEF StoreInv, ThreadsOK, SubmitsAlone
  <2> QED BY <2>1, <2>2
<1>6. HandlesOK'
  <2>1. ASSUME NEW c \in Clients, c # t PROVE HandleOK(c)'
    BY <1>1, <2>1 DEF Moves, StoreInv, HandlesOK, HandleOK
  <2> QED BY <2>1 DEF StepOK, HandlesOK
<1> QED BY <1>3, <1>5, <1>6 DEF ThreadsOK

\* The ids stay marked and apart.
LEMMA IdsKept ==
  ASSUME StoreInv, NEW t \in Threads, NEW d, StepOK(t, d)
  PROVE  IdsOK'
<1>1. /\ Moves(t, d) /\ IdStep(t, d) /\ IdsOK
      /\ idMap \subseteq Ids /\ idMap' \subseteq Ids
      /\ dwMaxJobId \in Int /\ dwMaxJobId' \in Int
  BY ConstantsAssumption DEF StepOK, StoreInv, Types, Moves, CoreTypes
<1>2. \A i \in Ids : i \in Int BY ConstantsAssumption DEF Ids
<1>3. dwCurrentJobId' < dwMaxJobId' /\ \A i \in idMap' : i < dwMaxJobId'
  BY <1>1, <1>2 DEF IdsOK, IdStep
<1>4. ASSUME NEW e \in Docs PROVE job[e].JobId \in Ids /\ job'[e].JobId \in Ids
  BY <1>1 DEF StoreInv, Types, Moves, CoreTypes, JobRecords
\* What d or t uses, no other document or thread uses.
<1>5. ASSUME NEW i \in Ids, IsId(d, i)' \/ HoldsId(t, i)'
      PROVE  /\ i \in idMap'
             /\ \A e \in Queued' : job'[e].JobId = i => e = d
             /\ \A u \in Threads : HoldsId(u, i)' => u = t
  <2>1. i \in idMap' /\ (IsId(d, i) \/ HoldsId(t, i) \/ i \notin idMap)
    BY <1>1, <1>5 DEF IdStep
  <2>2. ASSUME NEW e \in Queued', job'[e].JobId = i, e # d PROVE FALSE
    <3>1. e \in Queued /\ job[e].JobId = i BY <1>1, <2>2 DEF Queued, Moves
    <3>2. i \in idMap /\ e \in FindJob(i) BY <1>1, <3>1 DEF IdsOK, FindJob
    <3>3. ~ HoldsId(t, i) BY <1>1, <1>5, <3>2 DEF IdsOK
    <3>4. ~ IsId(d, i) BY <1>1, <2>2, <3>1 DEF IdsOK, IsId, Queued
    <3> QED BY <2>1, <3>2, <3>3, <3>4
  <2>3. ASSUME NEW u \in Threads, HoldsId(u, i)', u # t PROVE FALSE
    <3>1. HoldsId(u, i) BY <1>1, <2>3 DEF HoldsId, Moves
    <3>2. i \in idMap /\ FindJob(i) = {} BY <1>1, <1>5, <3>1 DEF IdsOK
    <3>3. ~ HoldsId(t, i) BY <1>1, <1>5, <2>3, <3>1 DEF IdsOK
    <3>4. ~ IsId(d, i) BY <3>2 DEF IsId, FindJob, Queued
    <3> QED BY <2>1, <3>2, <3>3, <3>4
  <2> QED BY <2>1, <2>2, <2>3
\* What the others use stays marked.
<1>6. ASSUME NEW e \in Docs, e # d, e \in Queued' PROVE e \in Queued /\ job'[e].JobId \in idMap'
  <2>1. e \in Queued /\ job'[e].JobId = job[e].JobId BY <1>1, <1>6 DEF Moves, Queued
  <2>2. job[e].JobId \in idMap /\ e \in FindJob(job[e].JobId) BY <1>1, <2>1 DEF IdsOK, FindJob
  <2>3. ~ HoldsId(t, job[e].JobId) BY <1>1, <1>4, <2>2 DEF IdsOK
  <2> QED BY <1>1, <1>4, <2>1, <2>2, <2>3 DEF IdStep
<1>7. ASSUME NEW u \in Threads, u # t, NEW i \in Ids, HoldsId(u, i)'
      PROVE  HoldsId(u, i) /\ i \in idMap'
  <2>1. HoldsId(u, i) BY <1>1, <1>7 DEF HoldsId, Moves
  <2>2. i \in idMap /\ ~ HoldsId(t, i) BY <1>1, <1>7, <2>1 DEF IdsOK
  <2> QED BY <1>1, <2>1, <2>2 DEF IdStep
<1>8. ASSUME NEW e \in Queued' PROVE job'[e].JobId \in idMap'
  <2>1. CASE e = d BY <1>4, <1>5, <1>8, <2>1 DEF IsId, Queued
  <2>2. CASE e # d BY <1>6, <1>8, <2>2 DEF Queued
  <2> QED BY <2>1, <2>2
<1>9. ASSUME NEW e \in Queued', NEW f \in Queued', job'[e].JobId = job'[f].JobId PROVE e = f
  <2>1. CASE e = d BY <1>4, <1>5, <1>9, <2>1 DEF IsId, Queued
  <2>2. CASE f = d BY <1>4, <1>5, <1>9, <2>2 DEF IsId, Queued
  <2>3. CASE e # d /\ f # d
    <3>1. e \in Queued /\ f \in Queued BY <1>6, <1>9, <2>3 DEF Queued
    <3>2. job[e].JobId = job[f].JobId BY <1>1, <1>9, <2>3 DEF Moves, Queued
    <3> QED BY <1>1, <3>1, <3>2 DEF IdsOK
  <2> QED BY <2>1, <2>2, <2>3
<1>10. ASSUME NEW u \in Threads, NEW i \in Ids, HoldsId(u, i)' PROVE i \in idMap' /\ FindJob(i)' = {}
  <2> SUFFICES i \in idMap' /\ \A e \in Queued' : job'[e].JobId # i BY DEF FindJob
  <2>1. CASE u = t
    <3>1. ~ IsId(d, i)' BY <1>1, <1>10, <2>1 DEF IdStep
    <3> QED BY <1>5, <1>10, <2>1, <3>1 DEF IsId, Queued
  <2>2. CASE u # t
    <3>1. HoldsId(u, i) /\ i \in idMap' BY <1>7, <1>10, <2>2
    <3>2. ASSUME NEW e \in Queued', job'[e].JobId = i PROVE FALSE
      <4>1. CASE e = d
        <5>1. IsId(d, i)' BY <3>2, <4>1 DEF IsId, Queued
        <5> QED BY <1>5, <1>10, <2>2, <5>1
      <4>2. CASE e # d
        <5>1. e \in Queued /\ job[e].JobId = i BY <1>1, <3>2, <4>2 DEF Moves, Queued
        <5> QED BY <1>1, <3>1, <5>1 DEF IdsOK, FindJob
      <4> QED BY <4>1, <4>2
    <3> QED BY <3>1, <3>2
  <2> QED BY <2>1, <2>2
<1>11. ASSUME NEW u \in Threads, NEW v \in Threads, NEW i \in Ids, HoldsId(u, i)', HoldsId(v, i)'
       PROVE  u = v
  <2>1. CASE u = t BY <1>5, <1>11, <2>1
  <2>2. CASE v = t BY <1>5, <1>11, <2>2
  <2>3. CASE u # t /\ v # t BY <1>1, <1>7, <1>11, <2>3 DEF IdsOK
  <2> QED BY <2>1, <2>2, <2>3
<1> QED BY <1>3, <1>8, <1>9, <1>10, <1>11 DEF IdsOK

\* So a step of one thread at one document preserves the invariant.
LEMMA StepPreserves ==
  ASSUME StoreInv, Types', NEW t \in Threads, NEW d, StepOK(t, d)
  PROVE  StoreInv'
BY RefsKept, ThreadsKept, IdsKept DEF StoreInv

----------------------------------------------------------------------------
(* The steps, by kind.                                                      *)

\* The invariant, taken apart.
LEMMA Known ==
  ASSUME StoreInv
  PROVE  /\ CoreTypes /\ RefsExact /\ RefsQueued /\ IdsOK
         /\ \A t \in Threads : ThreadOK(t) /\ thread[t] \in ThreadRecords
         /\ \A d \in Docs : job[d] \in JobRecords /\ job[d].cRef \in Int
         /\ \A c \in Clients : HandleOK(c) /\ handle[c] \in HandleRecords
BY DEF StoreInv, Types, CoreTypes, ThreadsOK, HandlesOK, JobRecords

\* Only what the invariant looks at matters in a job.
SameJob(d) ==
  /\ job' \in [Docs -> JobRecords]
  /\ \A e \in Docs : e # d => job'[e] = job[e]
  /\ d \in Docs => /\ job'[d].state = job[d].state /\ job'[d].JobId = job[d].JobId
                   /\ job'[d].cRef = job[d].cRef
                   /\ Despools(d)' <=> Despools(d)

\* A change of Status that leaves DESPOOLING is of no interest.
LEMMA StatusChange ==
  ASSUME StoreInv, NEW d \in Docs, NEW s \in SUBSET Flags,
         "DESPOOLING" \in s <=> "DESPOOLING" \in job[d].Status,
         job' = [job EXCEPT ![d] = [job[d] EXCEPT !.Status = s]]
  PROVE  SameJob(d)
<1>1. job \in [Docs -> JobRecords] /\ job[d] \in JobRecords BY DEF StoreInv, Types
<1>2. [job[d] EXCEPT !.Status = s] \in JobRecords BY <1>1 DEF JobRecords
<1>3. job'[d] = [job[d] EXCEPT !.Status = s] BY <1>1
<1> QED BY <1>1, <1>2, <1>3 DEF SameJob, Despools, JobRecords

\* Nor is no change.
LEMMA JobsSame == ASSUME StoreInv, job' = job, NEW d PROVE SameJob(d)
BY DEF StoreInv, Types, SameJob, Despools

\* The thread goes on within a call it is in.
LEMMA SameKind ==
  ASSUME StoreInv, NEW t \in Threads, NEW d \in Docs, d = thread[t].doc, SameJob(d),
         NEW K \in {CallPcs, WritePcs, RemovePcs, SubmitPcs, PortPcs}, thread[t].pc \in K,
         NEW pc \in K, GoTo(t, pc), UNCHANGED <<mapVars, handle>>
  PROVE  StepOK(t, d)
<1>0. /\ CoreTypes /\ RefsQueued /\ IdsOK /\ ThreadOK(t) /\ thread[t] \in ThreadRecords
      /\ job[d].cRef \in Int
      /\ t \in Clients => HandleOK(t)
  BY Known
<1>1. /\ thread' = [thread EXCEPT ![t] = [thread[t] EXCEPT !.pc = pc]]
      /\ thread'[t] = [thread[t] EXCEPT !.pc = pc]
  BY <1>0 DEF GoTo, CoreTypes
<1>2. /\ thread'[t].pc = pc /\ thread'[t].doc = d /\ thread'[t].id = thread[t].id
      /\ thread'[t].then = thread[t].then
  BY <1>0, <1>1 DEF ThreadRecords
<1>3. pc \in Pcs BY DEF Pcs, CallPcs, WritePcs, RemovePcs, SubmitPcs, PortPcs
<1>4. CoreTypes'
  <2>1. [thread[t] EXCEPT !.pc = pc] \in ThreadRecords BY <1>0, <1>3 DEF ThreadRecords
  <2> QED BY <1>0, <1>1, <2>1 DEF CoreTypes, SameJob, mapVars
<1>5. Moves(t, d) BY <1>0, <1>1, <1>4 DEF Moves, SameJob, CoreTypes
<1>6. /\ pc \in CallPcs <=> thread[t].pc \in CallPcs
      /\ pc \in WritePcs <=> thread[t].pc \in WritePcs
      /\ pc \in RemovePcs <=> thread[t].pc \in RemovePcs
      /\ pc \in SubmitPcs <=> thread[t].pc \in SubmitPcs
      /\ pc \in PortPcs <=> thread[t].pc \in PortPcs
      /\ pc \notin ClientPcs \cup {"idle"} /\ thread[t].pc \notin ClientPcs \cup {"idle"}
  BY DEF CallPcs, WritePcs, RemovePcs, SubmitPcs, PortPcs, ClientPcs
<1>7. RefsMove(t, d)
  <2>1. (Calls(thread[t], d)' <=> Calls(thread[t], d)) /\ (Keeps(thread[t], d)' <=> Keeps(thread[t], d))
    BY <1>2, <1>6 DEF Calls, Keeps
  <2>2. Spools(handle[t], d)' <=> Spools(handle[t], d) BY DEF Spools
  <2>3. Held(t, d)' = Held(t, d) BY <2>1, <2>2 DEF Held, One
  <2>4. Held(t, d) \in Int /\ One(Despools(d)) \in Int BY DEF Held, One
  <2>5. One(Despools(d)') = One(Despools(d)) /\ job'[d].cRef = job[d].cRef BY DEF SameJob, One
  <2>6. AtDoc(t, d) /\ AtDoc(t, d)' BY <1>2 DEF AtDoc
  <2> QED BY <1>0, <2>3, <2>4, <2>5, <2>6 DEF RefsMove
<1>8. Stays(t, d) BY <1>0 DEF Stays, SameJob, RefsQueued
<1>9. Submits(t) BY <1>2, <1>6 DEF Submits
<1>10. ThreadOK(t)'
  <2>1. thread[t].pc \in SubmitPcs => job'[d].state = "submitted" BY <1>0 DEF SameJob, ThreadOK
  <2>2. t = Port /\ PortBusy(thread'[t]) => Despools(d)'
    BY <1>0, <1>2, <1>6 DEF PortBusy, ThreadOK, SameJob
  <2>3. handle' = handle OBVIOUS
  <2>4. Spools(handle[t], d)' <=> Spools(handle[t], d) BY DEF Spools
  <2>5. Despools(thread[t].doc)' <=> Despools(d)' BY <1>2 DEF Despools
  <2> QED BY <1>0, <1>2, <1>6, <2>1, <2>2, <2>3, <2>4, <2>5 DEF ThreadOK, ClientPcs, Spools
<1>11. t \in Clients => HandleOK(t)' BY <1>0 DEF HandleOK
<1>12. IdStep(t, d)
  <2>1. \A i : IsId(d, i)' <=> IsId(d, i) BY DEF IsId, SameJob
  <2>3. \A i : HoldsId(t, i)' <=> HoldsId(t, i)
    BY <1>2, <1>6 DEF HoldsId, RemovePcs, SubmitPcs, CallPcs, WritePcs, PortPcs
  <2>4. /\ dwMaxJobId' = dwMaxJobId /\ idMap' = idMap /\ dwMaxJobId \in Int
        /\ dwCurrentJobId' < dwMaxJobId'
    BY <1>0 DEF mapVars, CoreTypes, IdsOK
  <2>5. \A i \in Ids : ~ (IsId(d, i) /\ HoldsId(t, i))
    BY <1>0 DEF IdsOK, IsId, FindJob, Queued
  <2>6. \A i \in Ids : IsId(d, i) \/ HoldsId(t, i) => i \in idMap
    BY <1>0 DEF IdsOK, IsId, Queued
  <2> QED BY <2>1, <2>3, <2>4, <2>5, <2>6 DEF IdStep
<1> QED BY <1>5, <1>7, <1>8, <1>9, <1>10, <1>11, <1>12 DEF StepOK

\* What DeleteJob leaves of a job that is j when it is called: nothing of interest,
\* one more reference, or nothing but the id.
Deletes(t, d, j, then) ==
  \E s \in SUBSET Flags :
    /\ "DESPOOLING" \in s <=> "DESPOOLING" \in j.Status
    /\ \/ SetJob(d, [j EXCEPT !.Status = s]) /\ Resume(t, then)
       \/ \E pc \in {"cancel", "deleteShadow"} :
            /\ SetJob(d, [j EXCEPT !.Status = s, !.cRef = @ + 1])
            /\ thread' = [thread EXCEPT ![t] = [pc |-> pc, doc |-> d, id |-> j.JobId, then |-> then]]
       \/ \E pc \in {"removeShadow", "removeSpool"} :
            /\ j.cRef <= 0
            /\ SetJob(d, [j EXCEPT !.Status = s, !.state = "gone"])
            /\ thread' = [thread EXCEPT ![t] = [pc |-> pc, doc |-> d, id |-> j.JobId, then |-> then]]

\* DeleteJob and what it calls do one of these.
LEMMA ResumeDeletes ==
  ASSUME NEW t, NEW d, NEW j \in JobRecords, NEW then, SetJob(d, j), Resume(t, then)
  PROVE  Deletes(t, d, j, then)
<1>1. j.Status \in SUBSET Flags /\ j = [j EXCEPT !.Status = j.Status] BY DEF JobRecords
<1> QED BY <1>1 DEF Deletes

\* ... where the job is not printing,
LEMMA DeleteUnlessPrintingDeletes ==
  ASSUME NEW t, NEW d, NEW j \in JobRecords, NEW then, DeleteUnlessPrinting(t, d, j, then)
  PROVE  Deletes(t, d, j, then)
<1>0. j.Status \in SUBSET Flags /\ j.cRef \in Int BY DEF JobRecords
<1>1. CASE j.cRef > 0
  <2> DEFINE s == j.Status \cup {"SHADOW_DELETED"}
  <2>1. s \in SUBSET Flags /\ ("DESPOOLING" \in s <=> "DESPOOLING" \in j.Status)
    BY <1>0 DEF Flags
  <2>2. /\ SetJob(d, [j EXCEPT !.Status = s, !.cRef = @ + 1])
        /\ thread' = [thread EXCEPT ![t] = [pc |-> "deleteShadow", doc |-> d,
                                            id |-> j.JobId, then |-> then]]
    BY <1>1 DEF DeleteUnlessPrinting
  <2> HIDE DEF s
  <2> QED BY <2>1, <2>2 DEF Deletes
<1>2. CASE ~ (j.cRef > 0) /\ "SPOOLING" \in j.Status
  BY <1>2, ResumeDeletes DEF DeleteUnlessPrinting
<1>3. CASE ~ (j.cRef > 0) /\ "SPOOLING" \notin j.Status
  <2>1. j.cRef <= 0 BY <1>0, <1>3
  <2>2. [j EXCEPT !.state = "gone"] = [j EXCEPT !.Status = j.Status, !.state = "gone"]
    BY DEF JobRecords
  <2>3. \E pc \in {"removeShadow", "removeSpool"} :
          /\ SetJob(d, [j EXCEPT !.Status = j.Status, !.state = "gone"])
          /\ thread' = [thread EXCEPT ![t] = [pc |-> pc, doc |-> d, id |-> j.JobId, then |-> then]]
    BY <1>3, <2>2 DEF DeleteUnlessPrinting
  <2> QED BY <1>0, <2>1, <2>3 DEF Deletes
<1> QED BY <1>1, <1>2, <1>3

\* ... where it may be,
LEMMA DeleteJobDeletes ==
  ASSUME NEW t, NEW d, NEW j \in JobRecords, NEW then, DeleteJob(t, d, j, then)
  PROVE  Deletes(t, d, j, then)
<1>0. j.Status \in SUBSET Flags BY DEF JobRecords
<1>1. CASE "RESTART" \in j.Status BY <1>1, ResumeDeletes DEF DeleteJob
<1> DEFINE s == j.Status \cup {"PENDING_DELETION"}
<1>2. s \in SUBSET Flags /\ ("DESPOOLING" \in s <=> "DESPOOLING" \in j.Status)
  BY <1>0 DEF Flags
<1>3. CASE "RESTART" \notin j.Status /\ "PRINTING" \in j.Status /\ "PENDING_DELETION" \notin j.Status
  <2>1. /\ SetJob(d, [j EXCEPT !.Status = s, !.cRef = @ + 1])
        /\ thread' = [thread EXCEPT ![t] = [pc |-> "cancel", doc |-> d,
                                            id |-> j.JobId, then |-> then]]
    BY <1>3 DEF DeleteJob
  <2> HIDE DEF s
  <2> QED BY <1>2, <2>1 DEF Deletes
<1>4. CASE "RESTART" \notin j.Status /\ ~ ("PRINTING" \in j.Status /\ "PENDING_DELETION" \notin j.Status)
  <2> DEFINE k == [j EXCEPT !.Status = s]
  <2>1. k \in JobRecords /\ k.Status = s /\ k.cRef = j.cRef /\ k.JobId = j.JobId
    BY <1>2 DEF JobRecords
  <2>2. DeleteUnlessPrinting(t, d, k, then) BY <1>4 DEF DeleteJob
  <2>3. Deletes(t, d, k, then)
    <3> HIDE DEF k
    <3> QED BY <2>1, <2>2, DeleteUnlessPrintingDeletes
  <2>4. \A u : [k EXCEPT !.Status = u] = [j EXCEPT !.Status = u] OBVIOUS
  <2>5. \A u : /\ [k EXCEPT !.Status = u, !.cRef = @ + 1] = [j EXCEPT !.Status = u, !.cRef = @ + 1]
               /\ [k EXCEPT !.Status = u, !.state = "gone"] = [j EXCEPT !.Status = u, !.state = "gone"]
    OBVIOUS
  <2> HIDE DEF k, s
  <2> QED BY <1>2, <2>1, <2>3, <2>4, <2>5 DEF Deletes
<1> QED BY <1>1, <1>3, <1>4

\* ... and where it is only deleted when nobody refers to it.
LEMMA DeleteJobCheckDeletes ==
  ASSUME NEW t, NEW d, NEW j \in JobRecords, NEW then, DeleteJobCheck(t, d, j, then)
  PROVE  Deletes(t, d, j, then)
BY DeleteJobDeletes, ResumeDeletes DEF DeleteJobCheck

\* The references of thread t after a step in which it leaves DeleteJob and
\* WriteShadowJob.
LEMMA HeldAway ==
  ASSUME NEW t \in Threads, NEW d, thread[t].pc \notin CallPcs \cup WritePcs
  PROVE  Held(t, d) = One(t \in Clients /\ Spools(handle[t], d)) /\ AtDoc(t, d)
BY DEF Held, One, Calls, Keeps, AtDoc

\* The handle of thread t is as it was, or no longer spools document d.
HandleGivesUp(t, d) ==
  /\ handle' \in [Clients -> HandleRecords]
  /\ \A c \in Clients : c # t => handle'[c] = handle[c]
  /\ t \in Clients =>
       /\ HandleOK(t)'
       /\ handle'[t] = handle[t] \/ (Spools(handle[t], d) /\ ~ handle'[t].STARTDOC)

\* A thread that leaves its handle alone gives nothing up with it.
LEMMA HandlesSame ==
  ASSUME StoreInv, UNCHANGED handle, NEW t \in Threads, NEW d
  PROVE  HandleGivesUp(t, d)
<1>1. handle \in [Clients -> HandleRecords] /\ \A c \in Clients : HandleOK(c)
  BY Known DEF CoreTypes
<1> QED BY <1>1 DEF HandleGivesUp, HandleOK

\* An outcome of DeleteJob: thread t has record r, document d is job k.
Outcome(t, d, j, then, r, k) ==
  /\ thread' = [thread EXCEPT ![t] = r] /\ job' = [job EXCEPT ![d] = k]
  /\ k.JobId = j.JobId /\ ("DESPOOLING" \in k.Status <=> "DESPOOLING" \in j.Status)
  /\ r.then \in {"idle", then}
  /\ \/ /\ k.state = "queued" /\ k.cRef = j.cRef
        /\ r.pc = then /\ (then = "sent" => r.doc = d)
     \/ /\ k.state = "queued" /\ k.cRef = j.cRef + 1
        /\ r.pc \in CallPcs /\ r.doc = d /\ r.then = then
     \/ /\ k.state = "gone" /\ k.cRef = j.cRef /\ j.cRef <= 0
        /\ r.pc \in RemovePcs /\ r.doc = d /\ r.id = j.JobId /\ r.then = then

\* DeleteJob called with a job j whose count j.cRef is exact for what is left of
\* thread t when it is resumed.
LEMMA DeletesOK ==
  ASSUME StoreInv, NEW t \in Threads, NEW d \in Docs, NEW j \in JobRecords,
         NEW then \in {"idle", "sent"}, Deletes(t, d, j, then),
         job[d].state = "queued", j.state = "queued", j.JobId = job[d].JobId,
         thread[t].pc \notin SubmitPcs \cup RemovePcs \cup ClientPcs, AtDoc(t, d),
         then = "sent" => t = Port /\ thread[t].doc = d /\ "DESPOOLING" \in j.Status /\ j.cRef > 0,
         t # Port /\ Despools(d) => "DESPOOLING" \in j.Status,
         HandleGivesUp(t, d), UNCHANGED mapVars,
         j.cRef = job[d].cRef - Held(t, d) + One(t \in Clients /\ Spools(handle[t], d)')
                    + One("DESPOOLING" \in j.Status) - One(Despools(d))
  PROVE  StepOK(t, d)
<1>0. /\ CoreTypes /\ RefsQueued /\ IdsOK /\ ThreadOK(t) /\ thread[t] \in ThreadRecords
      /\ job[d].cRef \in Int /\ j.cRef \in Int /\ j.JobId \in Ids
      /\ d \in Queued /\ job \in [Docs -> JobRecords]
  BY Known DEF JobRecords, Queued, CoreTypes
<1>0a. thread[t] \in ThreadRecords BY <1>0
<1>1. PICK s \in SUBSET Flags :
        /\ "DESPOOLING" \in s <=> "DESPOOLING" \in j.Status
        /\ \/ SetJob(d, [j EXCEPT !.Status = s]) /\ Resume(t, then)
           \/ \E pc \in {"cancel", "deleteShadow"} :
                /\ SetJob(d, [j EXCEPT !.Status = s, !.cRef = @ + 1])
                /\ thread' = [thread EXCEPT ![t] = [pc |-> pc, doc |-> d, id |-> j.JobId, then |-> then]]
           \/ \E pc \in {"removeShadow", "removeSpool"} :
                /\ j.cRef <= 0
                /\ SetJob(d, [j EXCEPT !.Status = s, !.state = "gone"])
                /\ thread' = [thread EXCEPT ![t] = [pc |-> pc, doc |-> d, id |-> j.JobId, then |-> then]]
  BY DEF Deletes
\* The outcome, whichever it is.
<1>2. \E r \in ThreadRecords, k \in JobRecords : Outcome(t, d, j, then, r, k)
  <2>1. CASE SetJob(d, [j EXCEPT !.Status = s]) /\ Resume(t, then)
    <3> DEFINE k == [j EXCEPT !.Status = s]
               r == Resumed(t, then)
    <3>1. /\ k \in JobRecords /\ k.JobId = j.JobId /\ k.Status = s /\ k.state = "queued"
          /\ k.cRef = j.cRef
      BY DEF JobRecords
    <3>2. r \in ThreadRecords /\ r.then = "idle" /\ r.pc = then /\ (then = "sent" => r.doc = d)
      <4>1. CASE then = "idle"
        <5>1. 0 \in Ids BY ConstantsAssumption DEF Ids
        <5> QED BY <4>1, <5>1 DEF Resumed, ThreadRecords, Pcs, Idle
      <4>2. CASE then = "sent" BY <1>0a, <4>2 DEF Resumed, ThreadRecords, Pcs
      <4> QED BY <4>1, <4>2
    <3>3. thread' = [thread EXCEPT ![t] = r] /\ job' = [job EXCEPT ![d] = k]
      BY <2>1 DEF SetJob, Resume
    <3> HIDE DEF k, r
    <3> QED BY <1>1, <3>1, <3>2, <3>3 DEF Outcome
  <2>2. ASSUME NEW pc \in {"cancel", "deleteShadow"}, SetJob(d, [j EXCEPT !.Status = s, !.cRef = @ + 1]),
               thread' = [thread EXCEPT ![t] = [pc |-> pc, doc |-> d, id |-> j.JobId, then |-> then]]
        PROVE  \E r \in ThreadRecords, k \in JobRecords : Outcome(t, d, j, then, r, k)
    <3> DEFINE k == [j EXCEPT !.Status = s, !.cRef = @ + 1]
               r == [pc |-> pc, doc |-> d, id |-> j.JobId, then |-> then]
    <3>1. /\ k \in JobRecords /\ k.JobId = j.JobId /\ k.Status = s /\ k.state = "queued"
          /\ k.cRef = j.cRef + 1
      <4> DEFINE n == j.cRef + 1
      <4>1. n \in Int BY <1>0
      <4>2. k = [j EXCEPT !.Status = s, !.cRef = n] OBVIOUS
      <4> HIDE DEF r, k, n
      <4>3. /\ k \in JobRecords /\ k.JobId = j.JobId /\ k.Status = s /\ k.state = j.state
            /\ k.cRef = n
        BY <4>1, <4>2 DEF JobRecords
      <4> QED BY <4>3 DEF n
    <3>2. r \in ThreadRecords /\ r.then = then /\ r.pc \in CallPcs /\ r.doc = d
      BY <1>0 DEF ThreadRecords, Pcs, CallPcs
    <3>3. thread' = [thread EXCEPT ![t] = r] /\ job' = [job EXCEPT ![d] = k]
      BY <2>2 DEF SetJob
    <3> HIDE DEF k, r
    <3> QED BY <1>1, <3>1, <3>2, <3>3 DEF Outcome
  <2>3. ASSUME NEW pc \in {"removeShadow", "removeSpool"}, j.cRef <= 0,
               SetJob(d, [j EXCEPT !.Status = s, !.state = "gone"]),
               thread' = [thread EXCEPT ![t] = [pc |-> pc, doc |-> d, id |-> j.JobId, then |-> then]]
        PROVE  \E r \in ThreadRecords, k \in JobRecords : Outcome(t, d, j, then, r, k)
    <3> DEFINE k == [j EXCEPT !.Status = s, !.state = "gone"]
               r == [pc |-> pc, doc |-> d, id |-> j.JobId, then |-> then]
    <3>1. /\ k \in JobRecords /\ k.JobId = j.JobId /\ k.Status = s /\ k.state = "gone"
          /\ k.cRef = j.cRef
      BY <1>0 DEF JobRecords
    <3>2. /\ r \in ThreadRecords /\ r.then = then /\ r.pc \in RemovePcs /\ r.doc = d
          /\ r.id = j.JobId
      BY <1>0 DEF ThreadRecords, Pcs, RemovePcs
    <3>3. thread' = [thread EXCEPT ![t] = r] /\ job' = [job EXCEPT ![d] = k]
      BY <2>3 DEF SetJob
    <3> HIDE DEF k, r
    <3> QED BY <1>1, <2>3, <3>1, <3>2, <3>3 DEF Outcome
  <2> QED BY <1>1, <2>1, <2>2, <2>3
<1>3. PICK r \in ThreadRecords, k \in JobRecords : Outcome(t, d, j, then, r, k)
  BY <1>2
<1>4. thread'[t] = r /\ job'[d] = k BY <1>0, <1>3 DEF CoreTypes, Outcome
<1>5. Moves(t, d)
  <2>1. CoreTypes' BY <1>0, <1>3 DEF CoreTypes, mapVars, HandleGivesUp, Outcome
  <2> QED BY <1>0, <1>3, <2>1 DEF Moves, CoreTypes, HandleGivesUp, Outcome
<1>6. /\ r.pc \in CallPcs => r.pc \notin WritePcs \cup RemovePcs \cup SubmitPcs \cup PortPcs \cup ClientPcs
      /\ r.pc \in RemovePcs => r.pc \notin WritePcs \cup CallPcs \cup SubmitPcs \cup PortPcs \cup ClientPcs
      /\ r.pc = then => r.pc \notin CallPcs \cup WritePcs \cup RemovePcs \cup SubmitPcs \cup ClientPcs
      /\ r.pc \notin WritePcs \cup SubmitPcs \cup ClientPcs
  BY <1>3 DEF CallPcs, WritePcs, RemovePcs, SubmitPcs, PortPcs, ClientPcs, Outcome
<1>7. job'[d].cRef = job[d].cRef + Held(t, d)' - Held(t, d) + One(Despools(d))' - One(Despools(d))
  <2>1. ~ Keeps(thread[t], d)' BY <1>4, <1>6 DEF Keeps
  <2>2. Calls(thread[t], d)' <=> k.cRef = j.cRef + 1
    BY <1>0, <1>3, <1>4, <1>6 DEF Calls, Outcome
  <2>3. Held(t, d)' = One(t \in Clients /\ Spools(handle[t], d)') + (k.cRef - j.cRef)
    BY <1>0, <1>3, <2>1, <2>2 DEF Held, One, Outcome
  <2>4. One(Despools(d)') = One("DESPOOLING" \in j.Status) BY <1>3, <1>4 DEF Despools, One, Outcome
  <2>5. Held(t, d) \in Int /\ \A b : One(b) \in Int BY DEF Held, One
  <2>6. k.cRef \in Int BY DEF JobRecords
  <2> QED BY <1>0, <1>4, <2>3, <2>4, <2>5, <2>6
<1>8. RefsMove(t, d)
  <2>1. AtDoc(t, d)' BY <1>3, <1>4, <1>6 DEF AtDoc, Outcome
  <2>2. t \in Clients => \/ handle'[t] = handle[t]
                         \/ \A e \in Docs \ {d} : ~ Spools(handle[t], e) /\ ~ Spools(handle[t], e)'
    BY DEF HandleGivesUp, Spools
  <2> QED BY <1>7, <2>1, <2>2 DEF RefsMove
<1>9. Stays(t, d)
  <2>1. k.state # "queued" => k.cRef <= 0 BY <1>3 DEF Outcome
  <2> QED BY <1>3, <1>4, <2>1 DEF Stays, Despools, Outcome
<1>10. Submits(t) BY <1>4, <1>6 DEF Submits
<1>11. ThreadOK(t)'
  <2>1. r.pc \in PortPcs => then = "sent" /\ r.pc = then BY <1>3, <1>6 DEF PortPcs, Outcome
  <2>2. t = Port /\ PortBusy(r) => r.doc = d /\ "DESPOOLING" \in k.Status
    BY <1>3, <1>6, <2>1 DEF PortBusy, Outcome
  <2>3. t = Port /\ PortBusy(r) => Despools(thread[t].doc)' BY <1>4, <2>2 DEF Despools
  <2>4. r.pc \in {"idle"} \cup CallPcs \cup RemovePcs \cup PortPcs BY <1>3 DEF PortPcs, Outcome
  <2>5. r.pc \notin {"idle", "close"} => r.doc \in Docs BY <1>3 DEF Outcome
  <2>6. r.pc \in RemovePcs => r.then = "idle" BY <1>0, <1>3, <1>6 DEF Outcome
  <2>7. r.pc \in CallPcs => r.then = "idle" \/ (r.then = "sent" /\ t = Port) BY <1>3, <1>6 DEF Outcome
  <2>8. r.pc # "close" BY <1>6 DEF ClientPcs
  <2> QED BY <1>4, <1>6, <2>1, <2>3, <2>4, <2>5, <2>6, <2>7, <2>8 DEF ThreadOK
<1>12. IdStep(t, d)
  <2>1. /\ dwMaxJobId' = dwMaxJobId /\ idMap' = idMap /\ dwMaxJobId \in Int
        /\ dwCurrentJobId' < dwMaxJobId'
    BY <1>0 DEF mapVars, CoreTypes, IdsOK
  <2>2. job[d].JobId \in idMap BY <1>0 DEF IdsOK
  <2>3. \A i : IsId(d, i) <=> i = job[d].JobId BY DEF IsId
  <2>4. \A i : IsId(d, i)' <=> k.state = "queued" /\ i = job[d].JobId BY <1>3, <1>4 DEF IsId, Outcome
  <2>5. \A i : HoldsId(t, i)' => k.state = "gone" /\ i = job[d].JobId
    <3>1. r.pc = then => r.pc \notin {"create", "queue", "addJob", "removeShadow", "removeSpool", "freeId"}
      OBVIOUS
    <3>2. r.pc \in CallPcs => r.pc \notin {"create", "queue", "addJob", "removeShadow", "removeSpool", "freeId"}
      BY DEF CallPcs
    <3> QED BY <1>3, <1>4, <3>1, <3>2 DEF HoldsId, Outcome
  <2> QED BY <2>1, <2>2, <2>3, <2>4, <2>5 DEF IdStep
<1> QED BY <1>5, <1>8, <1>9, <1>10, <1>11, <1>12 DEF StepOK, HandleGivesUp

\* A document someone refers to is in the queue.
LEMMA ReferredQueued ==
  ASSUME StoreInv, NEW t \in Threads, NEW d \in Docs,
         \/ Calls(thread[t], d) \/ (t \in Clients /\ Spools(handle[t], d)) \/ Despools(d)
  PROVE  d \in Queued /\ job[d].state = "queued" /\ job[d].cRef > 0
<1>1. job[d].cRef \in Nat /\ job[d].cRef >= Held(t, d) + One(Despools(d)) BY Known, RefsAtLeast
<1>2. Held(t, d) + One(Despools(d)) >= 1 BY DEF Held, One
<1>3. Held(t, d) \in Int /\ One(Despools(d)) \in Int BY DEF Held, One
<1>4. job[d].cRef > 0 BY <1>1, <1>2, <1>3
<1>5. job[d].state = "queued" BY <1>4, Known DEF RefsQueued
<1> QED BY <1>4, <1>5 DEF Queued

\* The ids where the thread does not hold one and the job keeps its own.
LEMMA SameIds ==
  ASSUME StoreInv, NEW t \in Threads, NEW d, UNCHANGED mapVars,
         d \in Docs /\ job'[d].state = "queued" => job[d].state = "queued" /\ job'[d].JobId = job[d].JobId,
         \A i : HoldsId(t, i)' => HoldsId(t, i)
  PROVE  IdStep(t, d)
<1>1. /\ IdsOK /\ dwMaxJobId' = dwMaxJobId /\ idMap' = idMap /\ dwMaxJobId \in Int
      /\ dwCurrentJobId' < dwMaxJobId'
  BY Known DEF CoreTypes, mapVars, IdsOK
<1>2. \A i : IsId(d, i)' => IsId(d, i) BY DEF IsId
<1>3. \A i \in Ids : ~ (IsId(d, i) /\ HoldsId(t, i)) BY <1>1 DEF IdsOK, IsId, FindJob, Queued
<1>4. \A i \in Ids : IsId(d, i) \/ HoldsId(t, i) => i \in idMap BY <1>1 DEF IdsOK, IsId, Queued
<1> QED BY <1>1, <1>2, <1>3, <1>4 DEF IdStep

\* EndDocPrinter gives up the reference of its handle.
LEMMA EndDocRestOK ==
  ASSUME StoreInv, NEW t \in Clients, NEW d \in Docs, Spools(handle[t], d),
         NEW j \in JobRecords, j.state = "queued", j.JobId = job[d].JobId, j.cRef = job[d].cRef,
         "DESPOOLING" \in j.Status <=> Despools(d),
         thread[t].pc \in {"idle"} \cup WritePcs, AtDoc(t, d),
         EndDocPrinterRest(t, d, j), UNCHANGED mapVars
  PROVE  StepOK(t, d)
<1>0. /\ t \in Threads /\ t # Port /\ job[d].state = "queued" /\ job[d].cRef \in Int
      /\ handle \in [Clients -> HandleRecords] /\ handle[t] \in HandleRecords /\ HandleOK(t)
  BY ConstantsAssumption, ReferredQueued, Known DEF Threads, CoreTypes
<1> DEFINE k == [j EXCEPT !.cRef = @ - 1]
<1>1. /\ k \in JobRecords /\ k.state = "queued" /\ k.JobId = job[d].JobId
      /\ k.cRef = job[d].cRef - 1 /\ k.Status = j.Status
  BY <1>0 DEF JobRecords
<1>2. Deletes(t, d, k, "idle")
  <2>1. DeleteJob(t, d, k, "idle") \/ (SetJob(d, k) /\ Resume(t, "idle")) BY DEF EndDocPrinterRest
  <2> HIDE DEF k
  <2> QED BY <1>1, <2>1, DeleteJobDeletes, ResumeDeletes
<1>3. HandleGivesUp(t, d) /\ ~ Spools(handle[t], d)'
  <2>1. PICK x \in Docs \cup {NoDoc} :
          handle' = [handle EXCEPT ![t] = [handle[t] EXCEPT !.STARTDOC = FALSE, !.pIniJob = x]]
    <3>1. handle[t].pIniJob \in Docs \cup {NoDoc} BY <1>0 DEF HandleRecords
    <3>2. CASE "PENDING_DELETION" \in j.Status BY <3>2 DEF EndDocPrinterRest
    <3>3. CASE "PENDING_DELETION" \notin j.Status BY <3>1, <3>3 DEF EndDocPrinterRest
    <3> QED BY <3>2, <3>3
  <2> DEFINE h == [handle[t] EXCEPT !.STARTDOC = FALSE, !.pIniJob = x]
  <2>2. /\ h \in HandleRecords /\ h.STARTDOC = FALSE /\ h.mapped = handle[t].mapped
        /\ h.ADDJOB = handle[t].ADDJOB
    BY <1>0 DEF HandleRecords
  <2>3. handle' = [handle EXCEPT ![t] = h] BY <2>1
  <2> HIDE DEF h
  <2>4. handle'[t] = h /\ handle' \in [Clients -> HandleRecords]
        /\ \A c \in Clients : c # t => handle'[c] = handle[c]
    BY <1>0, <2>2, <2>3
  <2> QED BY <1>0, <2>2, <2>4 DEF HandleGivesUp, HandleOK, Spools
<1>4. Held(t, d) = 1
  <2>1. ~ Calls(thread[t], d) BY DEF Calls, CallPcs, WritePcs
  <2> QED BY <1>0, <2>1 DEF Held, One
<1>5. /\ One(t \in Clients /\ Spools(handle[t], d)') = 0
      /\ One("DESPOOLING" \in k.Status) = One(Despools(d)) /\ One(Despools(d)) \in Int
  BY <1>1, <1>3 DEF One
<1>6. k.cRef = job[d].cRef - Held(t, d) + One(t \in Clients /\ Spools(handle[t], d)')
                 + One("DESPOOLING" \in k.Status) - One(Despools(d))
  BY <1>0, <1>1, <1>4, <1>5
<1>7. thread[t].pc \notin SubmitPcs \cup RemovePcs \cup ClientPcs
  BY DEF WritePcs, SubmitPcs, RemovePcs, ClientPcs
<1> HIDE DEF k
<1> QED BY <1>0, <1>1, <1>2, <1>3, <1>6, <1>7, DeletesOK

\* RemoveIniPortFromIniJob gives up that of the port.
LEMMA RemovePortOK ==
  ASSUME StoreInv, NEW d \in Docs, thread[Port].doc = d, Despools(d),
         thread[Port].pc \in PortPcs \cup WritePcs,
         NEW j \in JobRecords, j.state = "queued", j.JobId = job[d].JobId,
         j.cRef = job[d].cRef - One(Keeps(thread[Port], d)), "DESPOOLING" \in j.Status,
         RemoveIniPortFromIniJob(Port, d, j), UNCHANGED mapVars
  PROVE  StepOK(Port, d)
<1>0. Port \in Threads /\ Port \notin Clients /\ job[d].state = "queued" /\ job[d].cRef \in Int
  BY ConstantsAssumption, ReferredQueued, Known DEF Threads
<1> DEFINE gone == {"DESPOOLING"} \cup IF "RESTART" \in j.Status THEN {"PRINTED", "BLOCKED_DEVQ"} ELSE {}
           n == j.cRef - 1
           k == [j EXCEPT !.cRef = n, !.Status = @ \ gone]
<1>1. /\ k \in JobRecords /\ k.state = "queued" /\ k.JobId = job[d].JobId
      /\ k.cRef = j.cRef - 1 /\ "DESPOOLING" \notin k.Status
  <2>1. n \in Int BY DEF JobRecords
  <2>2. j.Status \ gone \in SUBSET Flags /\ "DESPOOLING" \notin j.Status \ gone BY DEF JobRecords
  <2> HIDE DEF gone, n
  <2>3. /\ k \in JobRecords /\ k.state = "queued" /\ k.JobId = job[d].JobId
        /\ k.cRef = n /\ "DESPOOLING" \notin k.Status
    BY <2>1, <2>2 DEF JobRecords
  <2> QED BY <2>3 DEF n
<1>2. Deletes(Port, d, k, "idle")
  <2>1. DeleteJobCheck(Port, d, k, "idle") BY DEF RemoveIniPortFromIniJob
  <2> HIDE DEF k
  <2> QED BY <1>1, <2>1, DeleteJobCheckDeletes
<1>3. HandleGivesUp(Port, d) BY <1>0, HandlesSame DEF RemoveIniPortFromIniJob
<1>4. Held(Port, d) = One(Keeps(thread[Port], d))
  <2>1. ~ Calls(thread[Port], d) BY DEF Calls, CallPcs, WritePcs, PortPcs
  <2> QED BY <1>0, <2>1 DEF Held, One
<1>5. /\ One(Port \in Clients /\ Spools(handle[Port], d)') = 0
      /\ One("DESPOOLING" \in k.Status) = 0 /\ One(Despools(d)) = 1
      /\ One(Keeps(thread[Port], d)) \in Int
  BY <1>0, <1>1 DEF One
<1> HIDE DEF k, n, gone
<1>6. k.cRef = job[d].cRef - Held(Port, d) + One(Port \in Clients /\ Spools(handle[Port], d)')
                 + One("DESPOOLING" \in k.Status) - One(Despools(d))
  <2>1. k.cRef = job[d].cRef - Held(Port, d) - 1 BY <1>0, <1>1, <1>4, <1>5
  <2>2. Held(Port, d) \in Int /\ job[d].cRef \in Int BY <1>0, <1>4, <1>5
  <2> QED BY <1>0, <1>1, <2>1, <2>2 DEF One
<1>7. thread[Port].pc \notin SubmitPcs \cup RemovePcs \cup ClientPcs /\ AtDoc(Port, d)
  BY DEF WritePcs, SubmitPcs, RemovePcs, ClientPcs, PortPcs, AtDoc
<1> QED BY <1>0, <1>1, <1>2, <1>3, <1>6, <1>7, DeletesOK

\* The port thread goes on with the job it has, or gets one.
PortGoes(d, r, k) ==
  /\ thread[Port].pc = "idle" \/ (thread[Port].pc \in PortPcs \cup WritePcs /\ thread[Port].doc = d)
  /\ thread' = [thread EXCEPT ![Port] = r] /\ r.doc = d
  /\ r.pc \in PortPcs \/ (r.pc \in WritePcs /\ r.then \in {"query", "kept"})
  /\ job' = [job EXCEPT ![d] = k] /\ "DESPOOLING" \in k.Status
  /\ job[d].state = "queued" /\ k.state = "queued" /\ k.JobId = job[d].JobId
  /\ k.cRef = job[d].cRef + One(Keeps(r, d)) - One(Keeps(thread[Port], d)) + 1 - One(Despools(d))
  /\ UNCHANGED <<mapVars, handle>>

\* Such a step keeps the count exact.
LEMMA PortMoves ==
  ASSUME StoreInv, NEW d \in Docs, NEW r \in ThreadRecords, NEW k \in JobRecords, PortGoes(d, r, k)
  PROVE  StepOK(Port, d)
<1> USE DEF PortGoes
<1>0. /\ Port \in Threads /\ Port \notin Clients /\ CoreTypes /\ job[d].cRef \in Int
      /\ k.cRef \in Int
  BY ConstantsAssumption, Known DEF Threads, JobRecords
<1>1. thread'[Port] = r /\ job'[d] = k BY <1>0 DEF CoreTypes
<1>2. Moves(Port, d)
  <2>1. CoreTypes' BY <1>0 DEF CoreTypes, mapVars
  <2> QED BY <1>0, <2>1 DEF Moves, CoreTypes
<1>3. /\ r.pc \notin CallPcs \cup RemovePcs \cup SubmitPcs \cup ClientPcs \cup {"idle"}
      /\ r.pc \in PortPcs => r.pc \notin WritePcs
      /\ thread[Port].pc \notin CallPcs
  BY DEF CallPcs, WritePcs, RemovePcs, SubmitPcs, PortPcs, ClientPcs
<1>4. RefsMove(Port, d)
  <2>1. ~ Calls(thread[Port], d) /\ ~ Calls(thread[Port], d)' BY <1>1, <1>3 DEF Calls
  <2>2. Keeps(thread[Port], d)' <=> Keeps(r, d) BY <1>1 DEF Keeps
  <2>3. Held(Port, d) = One(Keeps(thread[Port], d)) /\ Held(Port, d)' = One(Keeps(r, d))
    BY <1>0, <2>1, <2>2 DEF Held, One
  <2>4. One(Despools(d)') = 1 BY <1>1 DEF Despools, One
  <2>5. \A b : One(b) \in Int BY DEF One
  <2>6. job'[d].cRef = job[d].cRef + Held(Port, d)' - Held(Port, d) + One(Despools(d))' - One(Despools(d))
    BY <1>0, <1>1, <2>3, <2>4, <2>5
  <2>7. AtDoc(Port, d) /\ AtDoc(Port, d)' BY <1>1 DEF AtDoc, CallPcs, WritePcs
  <2> QED BY <1>0, <2>6, <2>7 DEF RefsMove
<1>5. Stays(Port, d) /\ Submits(Port) BY <1>0, <1>1, <1>3 DEF Stays, Submits
<1>6. ThreadOK(Port)'
  <2>1. Despools(thread[Port].doc)' BY <1>1 DEF Despools
  <2> QED BY <1>0, <1>1, <1>3, <2>1 DEF ThreadOK, ClientPcs
<1>7. IdStep(Port, d)
  <2>1. \A i : ~ HoldsId(Port, i)' BY <1>1 DEF HoldsId, PortPcs, WritePcs
  <2> QED BY <1>0, <1>1, <2>1, SameIds
<1> QED BY <1>0, <1>2, <1>4, <1>5, <1>6, <1>7 DEF StepOK

\* WriteShadowJob, and what follows it.
WriteCase(t, d, j, then) ==
  /\ then \in {"endDoc", "query", "kept"}
  /\ job[d].state = "queued" /\ j.state = "queued" /\ j.JobId = job[d].JobId
  /\ "DESPOOLING" \in j.Status <=> Despools(d)
  /\ AtDoc(t, d) /\ thread[t].pc \in {"idle"} \cup PortPcs \cup WritePcs
  /\ then = "endDoc" => t \in Clients /\ Spools(handle[t], d) /\ j.cRef = job[d].cRef
                        /\ thread[t].pc \in {"idle"} \cup WritePcs
  /\ then # "endDoc" =>
       /\ t = Port /\ thread[t].doc = d /\ Despools(d) /\ thread[t].pc \in PortPcs \cup WritePcs
       /\ j.cRef = job[d].cRef + One(then = "kept") - One(Keeps(thread[t], d))

\* What follows a shadow file that is written,
LEMMA ShadowWrittenOK ==
  ASSUME StoreInv, NEW t \in Threads, NEW d \in Docs, NEW j \in JobRecords, NEW then,
         WriteCase(t, d, j, then), ShadowWritten(t, d, j, then), UNCHANGED mapVars
  PROVE  StepOK(t, d)
<1>1. CASE then = "endDoc"
  <2>1. EndDocPrinterRest(t, d, j) BY <1>1 DEF ShadowWritten
  <2> QED BY <1>1, <2>1, EndDocRestOK DEF WriteCase
<1>2. CASE then = "query"
  <2> DEFINE r == [Idle EXCEPT !.pc = "query", !.doc = d]
  <2>1. r \in ThreadRecords /\ r.doc = d /\ r.pc \in PortPcs /\ ~ Keeps(r, d)
    <3>1. 0 \in Ids BY ConstantsAssumption DEF Ids
    <3> QED BY <3>1 DEF ThreadRecords, Idle, Pcs, PortPcs, Keeps, WritePcs
  <2>2. job' = [job EXCEPT ![d] = j] /\ UNCHANGED handle /\ thread' = [thread EXCEPT ![t] = r]
    BY <1>2 DEF ShadowWritten, SetJob
  <2> HIDE DEF r
  <2>3. One(Keeps(r, d)) = 0 /\ One(then = "kept") = 0 /\ One(Despools(d)) = 1
        /\ One(Keeps(thread[t], d)) \in Int
    BY <1>2, <2>1 DEF One, WriteCase
  <2>4. j.cRef = job[d].cRef + One(Keeps(r, d)) - One(Keeps(thread[t], d)) + 1 - One(Despools(d))
    BY <1>2, <2>3, Known DEF WriteCase
  <2>5. t = Port /\ PortGoes(d, r, j) BY <1>2, <2>1, <2>2, <2>4 DEF WriteCase, PortGoes
  <2> QED BY <2>1, <2>5, PortMoves
<1>3. CASE then = "kept"
  <2> DEFINE k == [j EXCEPT !.cRef = @ - 1]
  <2>1. RemoveIniPortFromIniJob(t, d, k) BY <1>3 DEF ShadowWritten
  <2>2. /\ k \in JobRecords /\ k.state = j.state /\ k.JobId = j.JobId /\ k.Status = j.Status
        /\ k.cRef = j.cRef - 1
    BY DEF JobRecords
  <2> HIDE DEF k
  <2>3. One(then = "kept") = 1 /\ One(Keeps(thread[t], d)) \in Int /\ job[d].cRef \in Int
    BY <1>3, Known DEF One
  <2>4. k.cRef = job[d].cRef - One(Keeps(thread[t], d)) BY <1>3, <2>2, <2>3 DEF WriteCase
  <2> QED BY <1>3, <2>1, <2>2, <2>4, RemovePortOK DEF WriteCase
<1> QED BY <1>1, <1>2, <1>3 DEF WriteCase

\* ... and the call that writes it.
LEMMA WriteShadowJobOK ==
  ASSUME StoreInv, NEW t \in Threads, NEW d \in Docs, NEW j \in JobRecords, NEW then,
         WriteCase(t, d, j, then), thread[t].pc \notin WritePcs,
         WriteShadowJob(t, d, j, then), UNCHANGED mapVars
  PROVE  StepOK(t, d)
<1>1. CASE "SHADOW_DELETED" \in j.Status BY <1>1, ShadowWrittenOK DEF WriteShadowJob
<1>2. CASE "SHADOW_DELETED" \notin j.Status
  <2> DEFINE r == [pc |-> "createFile", doc |-> d, id |-> j.JobId, then |-> then]
  <2>1. r \in ThreadRecords /\ r.pc = "createFile" /\ r.doc = d /\ r.then = then
    BY DEF ThreadRecords, Pcs, JobRecords, WriteCase
  <2>2. job' = [job EXCEPT ![d] = j] /\ UNCHANGED handle /\ thread' = [thread EXCEPT ![t] = r]
    BY <1>2 DEF WriteShadowJob, SetJob
  <2> HIDE DEF r
  <2>3. r.pc \in WritePcs /\ (Keeps(r, d) <=> then = "kept") BY <2>1 DEF WritePcs, Keeps
  <2>4. CASE then # "endDoc"
    <3>1. One(Keeps(r, d)) = One(then = "kept") /\ One(Despools(d)) = 1
          /\ One(Keeps(thread[t], d)) \in Int /\ One(then = "kept") \in Int
      BY <2>3, <2>4 DEF One, WriteCase
    <3>2. j.cRef = job[d].cRef + One(Keeps(r, d)) - One(Keeps(thread[t], d)) + 1 - One(Despools(d))
      BY <2>4, <3>1, Known DEF WriteCase
    <3>3. t = Port /\ PortGoes(d, r, j)
      BY <2>1, <2>2, <2>3, <2>4, <3>2 DEF WriteCase, PortGoes
    <3> QED BY <2>1, <3>3, PortMoves
  <2>5. CASE then = "endDoc"
    <3>0. /\ CoreTypes /\ t # Port /\ t \in Clients /\ HandleOK(t) /\ job[d].cRef \in Int
          /\ thread[t].pc = "idle" /\ Spools(handle[t], d) /\ j.cRef = job[d].cRef
          /\ j.state = "queued" /\ j.JobId = job[d].JobId /\ job[d].state = "queued"
      BY <2>5, ConstantsAssumption, Known DEF WriteCase
    <3>1. thread'[t] = r /\ job'[d] = j /\ handle'[t] = handle[t] BY <2>2, <3>0 DEF CoreTypes
    <3>2. Moves(t, d)
      <4>1. CoreTypes' BY <2>1, <2>2, <3>0 DEF CoreTypes, mapVars
      <4> QED BY <2>2, <3>0, <4>1 DEF Moves, CoreTypes
    <3>3. Despools(d)' <=> Despools(d) BY <3>1 DEF Despools, WriteCase
    <3>4. RefsMove(t, d)
      <4>1. /\ ~ Calls(thread[t], d) /\ ~ Calls(thread[t], d)'
            /\ (Spools(handle[t], d)' <=> Spools(handle[t], d))
        BY <2>1, <3>0, <3>1 DEF Calls, CallPcs, Spools
      <4>2. Held(t, d)' = Held(t, d) /\ One(Despools(d)') = One(Despools(d))
        BY <3>0, <3>3, <4>1 DEF Held, One
      <4>3. Held(t, d) \in Int /\ One(Despools(d)) \in Int BY DEF Held, One
      <4>4. AtDoc(t, d)' BY <2>1, <3>1 DEF AtDoc
      <4> QED BY <3>0, <3>1, <4>2, <4>3, <4>4 DEF RefsMove, WriteCase
    <3>5. Stays(t, d) BY <3>0, <3>1, <3>3 DEF Stays
    <3>6. Submits(t) BY <2>1, <3>1 DEF Submits, SubmitPcs
    <3>7. ThreadOK(t)'
      <4>1. Spools(handle[t], d)' BY <3>0, <3>1 DEF Spools
      <4>2. r.pc \notin CallPcs \cup RemovePcs \cup SubmitPcs \cup PortPcs \cup ClientPcs
        BY <2>1 DEF CallPcs, RemovePcs, SubmitPcs, PortPcs, ClientPcs
      <4> QED BY <2>1, <2>3, <2>5, <3>0, <3>1, <4>1, <4>2 DEF ThreadOK, Spools
    <3>8. HandleOK(t)' BY <2>2, <3>0 DEF HandleOK
    <3>9. IdStep(t, d)
      <4>1. \A i : ~ HoldsId(t, i)' BY <2>1, <3>1 DEF HoldsId
      <4> QED BY <3>0, <3>1, <4>1, SameIds
    <3> QED BY <3>2, <3>4, <3>5, <3>6, <3>7, <3>8, <3>9 DEF StepOK
  <2> QED BY <2>4, <2>5
<1> QED BY <1>1, <1>2

\* Steps outside DeleteJob and WriteShadowJob.
LEMMA PlainRefs ==
  ASSUME StoreInv, NEW t \in Threads, NEW d,
         thread[t].pc \notin CallPcs \cup WritePcs, thread'[t].pc \notin CallPcs \cup WritePcs,
         t \in Clients => \/ handle'[t] = handle[t]
                          \/ \A e \in Docs \ {d} : ~ Spools(handle[t], e) /\ ~ Spools(handle[t], e)',
         d \in Docs => /\ Despools(d)' <=> Despools(d)
                       /\ job'[d].cRef = job[d].cRef + One(t \in Clients /\ Spools(handle[t], d)')
                                           - One(t \in Clients /\ Spools(handle[t], d))
  PROVE  RefsMove(t, d)
<1>1. AtDoc(t, d) /\ AtDoc(t, d)' BY DEF AtDoc
<1>2. ASSUME d \in Docs
      PROVE  job'[d].cRef = job[d].cRef + Held(t, d)' - Held(t, d) + One(Despools(d))' - One(Despools(d))
  <2>1. Held(t, d) = One(t \in Clients /\ Spools(handle[t], d))
    BY DEF Held, One, Calls, Keeps
  <2>2. Held(t, d)' = One(t \in Clients /\ Spools(handle[t], d)')
    BY DEF Held, One, Calls, Keeps
  <2>3. One(Despools(d)') = One(Despools(d)) /\ One(Despools(d)) \in Int BY <1>2 DEF One
  <2>4. job[d].cRef \in Int BY <1>2, Known
  <2>5. Held(t, d) \in Int /\ Held(t, d)' \in Int BY <2>1, <2>2 DEF One
  <2>6. job'[d].cRef = job[d].cRef + Held(t, d)' - Held(t, d) BY <1>2, <2>1, <2>2
  <2> QED BY <2>3, <2>4, <2>5, <2>6
<1> QED BY <1>1, <1>2 DEF RefsMove

\* A thread without a call begins one that refers to no job, or ends one.
LEMMA IdleStep ==
  ASSUME StoreInv, NEW t \in Threads, thread[t].pc \notin CallPcs \cup WritePcs,
         NEW pc \in {"idle", "close"}, thread' = [thread EXCEPT ![t] = [Idle EXCEPT !.pc = pc]],
         UNCHANGED <<job, dwCurrentJobId, dwMaxJobId>>,
         idMap' \subseteq idMap, \A i \in idMap : i \in idMap' \/ HoldsId(t, i),
         handle' \in [Clients -> HandleRecords], \A c \in Clients : c # t => handle'[c] = handle[c],
         t \in Clients => /\ HandleOK(t)'
                          /\ handle'[t] = handle[t] \/ (~ handle[t].STARTDOC /\ ~ handle'[t].STARTDOC),
         pc = "close" => t \in Clients /\ ~ handle'[t].STARTDOC
  PROVE  StepOK(t, NoDoc)
<1>0. CoreTypes /\ IdsOK /\ NoDoc \notin Docs BY Known, ConstantsAssumption
<1> DEFINE r == [Idle EXCEPT !.pc = pc]
<1>1. r \in ThreadRecords /\ r.pc = pc
  <2>1. 0 \in Ids BY ConstantsAssumption DEF Ids
  <2> QED BY <2>1 DEF ThreadRecords, Idle, Pcs
<1>2. thread' = [thread EXCEPT ![t] = r] OBVIOUS
<1> HIDE DEF r
<1>3. thread'[t] = r /\ thread'[t].pc = pc BY <1>0, <1>1, <1>2 DEF CoreTypes
<1>4. Moves(t, NoDoc)
  <2>1. CoreTypes' BY <1>0, <1>1, <1>2 DEF CoreTypes
  <2> QED BY <1>0, <1>2, <2>1 DEF Moves, CoreTypes
<1>5. pc \notin CallPcs \cup WritePcs \cup RemovePcs \cup SubmitPcs \cup PortPcs
  BY DEF CallPcs, WritePcs, RemovePcs, SubmitPcs, PortPcs
<1>6. RefsMove(t, NoDoc) BY <1>0, <1>3, <1>5, PlainRefs DEF Spools
<1>7. Stays(t, NoDoc) /\ Submits(t) BY <1>0, <1>3, <1>5 DEF Stays, Submits
<1>8. ThreadOK(t)' BY <1>3, <1>5 DEF ThreadOK, ClientPcs, PortBusy
<1>9. IdStep(t, NoDoc)
  <2>1. \A i : ~ HoldsId(t, i)' /\ ~ IsId(NoDoc, i)' BY <1>0, <1>3 DEF HoldsId, IsId
  <2>2. dwMaxJobId' >= dwMaxJobId /\ dwCurrentJobId' < dwMaxJobId' BY <1>0 DEF CoreTypes, IdsOK
  <2> QED BY <2>1, <2>2 DEF IdStep
<1> QED BY <1>4, <1>6, <1>7, <1>8, <1>9 DEF StepOK

\* GetNextId gives an id whose bit was off.
LEMMA NextIdIsFree ==
  ASSUME StartDocOnly, StoreInv, NEW id \in Ids, GetNextId(id)
  PROVE  /\ id \notin idMap /\ idMap' = idMap \cup {id} /\ id < dwMaxJobId'
         /\ dwCurrentJobId' \in Ids /\ dwCurrentJobId' < dwMaxJobId' /\ dwMaxJobId' \in 1 .. MaxIds + 1 /\ dwMaxJobId' >= dwMaxJobId
<1>0. /\ CoreTypes /\ IdsOK /\ MaxIds \in Nat /\ dwMaxJobId \in 1 .. MaxIds + 1
      /\ dwCurrentJobId \in Nat /\ id \in Nat /\ id <= MaxIds
  BY Known, ConstantsAssumption DEF CoreTypes, Ids
<1>1. /\ id \notin idMap /\ id # 0 /\ id < dwMaxJobId'
      /\ dwMaxJobId' \in 1 .. MaxIds + 1 /\ dwMaxJobId' >= dwMaxJobId
  <2>1. NextId(id) /\ "ReallocJobIdMap" \notin Failures BY DEF GetNextId, StartDocOnly
  <2>2. CASE id \in FreeIds(dwCurrentJobId + 1, dwMaxJobId - 1) /\ UNCHANGED dwMaxJobId
    BY <1>0, <2>2 DEF FreeIds, IdsOK
  <2>3. CASE id \in FreeIds(1, dwCurrentJobId - 1) /\ UNCHANGED dwMaxJobId
    BY <1>0, <2>3 DEF FreeIds, IdsOK
  <2>4. CASE dwMaxJobId < MaxIds /\ id = dwMaxJobId /\ dwMaxJobId' = dwMaxJobId + 1
    BY <1>0, <2>4 DEF IdsOK
  <2> QED BY <2>1, <2>2, <2>3, <2>4 DEF NextId, Lowest
<1>2. idMap' = idMap \cup {id} BY <1>1 DEF GetNextId
<1>3. dwCurrentJobId' \in Ids /\ dwCurrentJobId' < dwMaxJobId' BY <1>1 DEF GetNextId
<1> QED BY <1>1, <1>2, <1>3

----------------------------------------------------------------------------
(* DeleteJob and WriteShadowJob outside SplSem.                             *)

\* A call of DeleteJob that gives its own reference back.
LEMMA CallOK ==
  ASSUME StoreInv, NEW t \in Threads, NEW d, d = thread[t].doc, thread[t].pc \in CallPcs,
         NEW j \in JobRecords, j.state = job[d].state, j.JobId = job[d].JobId,
         j.cRef = job[d].cRef - 1, "DESPOOLING" \in j.Status <=> Despools(d),
         Deletes(t, d, j, thread[t].then), UNCHANGED <<mapVars, handle>>
  PROVE  StepOK(t, d)
<1>0. /\ ThreadOK(t) /\ thread[t].then \in {"idle", "sent"}
      /\ d \in Docs /\ job[d] \in JobRecords /\ job[d].cRef \in Int
      /\ thread[t].pc \notin SubmitPcs \cup RemovePcs \cup ClientPcs
  <2>1. ThreadOK(t) BY Known
  <2>2. d \in Docs /\ thread[t].then \in {"idle", "sent"} BY <2>1 DEF ThreadOK, CallPcs
  <2>3. thread[t].pc \notin SubmitPcs \cup RemovePcs \cup ClientPcs
    BY DEF CallPcs, SubmitPcs, RemovePcs, ClientPcs
  <2> QED BY <2>1, <2>2, <2>3, Known
<1>1. Calls(thread[t], d) BY DEF Calls
<1>2. job[d].state = "queued" BY <1>0, <1>1, ReferredQueued
<1>3. j.state = "queued" /\ UNCHANGED mapVars BY <1>2
<1>4. thread[t].pc \notin WritePcs BY DEF CallPcs, WritePcs
<1>5. Held(t, d) = 1 + One(t \in Clients /\ Spools(handle[t], d))
  <2>1. ~ Keeps(thread[t], d) BY <1>4 DEF Keeps
  <2> QED BY <1>1, <2>1 DEF Held, One
<1>6. thread[t].then = "sent" => t = Port /\ "DESPOOLING" \in j.Status /\ j.cRef > 0
  <2> SUFFICES ASSUME thread[t].then = "sent" PROVE t = Port /\ Despools(d) /\ j.cRef > 0
    BY <1>3
  <2>1. t = Port /\ Despools(d) BY <1>0 DEF ThreadOK, PortBusy
  <2>2. One(Despools(d)) = 1 /\ One(t \in Clients /\ Spools(handle[t], d)) \in Nat
    BY <2>1 DEF One
  <2>3. job[d].cRef >= Held(t, d) + One(Despools(d)) BY <1>0, Known, RefsAtLeast
  <2>4. Held(t, d) >= 1 /\ Held(t, d) \in Int BY <1>5, <2>2
  <2>5. job[d].cRef >= 2 BY <1>0, <2>2, <2>3, <2>4
  <2>6. j.cRef > 0 BY <1>0, <1>3, <2>5
  <2> QED BY <2>1, <2>6
<1>7. HandleGivesUp(t, d) /\ AtDoc(t, d) BY HandlesSame DEF AtDoc
<1>8. j.cRef = job[d].cRef - Held(t, d) + One(t \in Clients /\ Spools(handle[t], d)')
                 + One("DESPOOLING" \in j.Status) - One(Despools(d))
  <2>1. One("DESPOOLING" \in j.Status) = One(Despools(d)) BY <1>3 DEF One
  <2>2. One(t \in Clients /\ Spools(handle[t], d)') = One(t \in Clients /\ Spools(handle[t], d))
    BY DEF One, Spools
  <2>3. One(Despools(d)) \in Int /\ One(t \in Clients /\ Spools(handle[t], d)) \in Int BY DEF One
  <2>4. j.cRef = job[d].cRef - Held(t, d) + One(t \in Clients /\ Spools(handle[t], d))
    BY <1>0, <1>3, <1>5, <2>3
  <2>5. Held(t, d) \in Int BY <1>5, <2>3
  <2>6. job[d].cRef \in Int BY <1>0
  <2>7. (Spools(handle[t], d)' <=> Spools(handle[t], d)) /\ ("DESPOOLING" \in j.Status <=> Despools(d))
    BY <1>3 DEF Spools
  <2> QED BY <2>4, <2>5, <2>6, <2>7 DEF One
<1>9. t # Port /\ Despools(d) => "DESPOOLING" \in j.Status BY <1>3
<1> QED BY <1>0, <1>2, <1>3, <1>6, <1>7, <1>8, <1>9, DeletesOK

\* The steps of DeleteJob with a reference.
LEMMA CallSteps ==
  ASSUME StoreInv, NEW t \in Threads, Cancelled(t) \/ ShadowDeleted(t)
  PROVE  StepOK(t, thread[t].doc)
<1> DEFINE d == thread[t].doc
           n == job[d].cRef - 1
<1>0. /\ thread[t].pc \in CallPcs /\ UNCHANGED <<mapVars, handle>> /\ d \in Docs
      /\ job[d] \in JobRecords /\ n \in Int
  <2>1. thread[t].pc \in CallPcs /\ UNCHANGED <<mapVars, handle>>
    BY DEF Cancelled, ShadowDeleted, At, CallPcs
  <2>2. d \in Docs BY <2>1, Known DEF ThreadOK, CallPcs
  <2> QED BY <2>1, <2>2, Known
<1>1. \E s \in SUBSET Flags :
        /\ "DESPOOLING" \in s <=> Despools(d)
        /\ Deletes(t, d, [job[d] EXCEPT !.cRef = n, !.Status = s], thread[t].then)
  <2>1. CASE Cancelled(t)
    <3> DEFINE s == job[d].Status
               j == [job[d] EXCEPT !.cRef = n, !.Status = s]
    <3>1. [job[d] EXCEPT !.cRef = n] = j /\ s \in SUBSET Flags BY <1>0 DEF JobRecords
    <3>2. DeleteUnlessPrinting(t, d, j, thread[t].then) BY <2>1, <3>1 DEF Cancelled
    <3>3. j \in JobRecords
      <4> HIDE DEF n
      <4> QED BY <1>0 DEF JobRecords
    <3>4. Deletes(t, d, j, thread[t].then)
      <4> HIDE DEF j
      <4> QED BY <3>2, <3>3, DeleteUnlessPrintingDeletes
    <3> QED BY <3>1, <3>4 DEF Despools
  <2>2. CASE ShadowDeleted(t)
    <3> DEFINE s == IF At(t, "shadowKept") THEN job[d].Status \ {"SHADOW_DELETED"} ELSE job[d].Status
               j == [job[d] EXCEPT !.cRef = n, !.Status = s]
    <3>1. s \in SUBSET Flags /\ ("DESPOOLING" \in s <=> Despools(d))
      BY <1>0 DEF JobRecords, Despools
    <3>2. SetJob(d, j) /\ Resume(t, thread[t].then) BY <2>2 DEF ShadowDeleted
    <3>3. j \in JobRecords
      <4> HIDE DEF n, s
      <4> QED BY <1>0, <3>1 DEF JobRecords
    <3>4. Deletes(t, d, j, thread[t].then)
      <4> HIDE DEF j
      <4> QED BY <3>2, <3>3, ResumeDeletes
    <3> QED BY <3>1, <3>4
  <2> QED BY <2>1, <2>2
<1>2. PICK s \in SUBSET Flags :
        /\ "DESPOOLING" \in s <=> Despools(d)
        /\ Deletes(t, d, [job[d] EXCEPT !.cRef = n, !.Status = s], thread[t].then)
  BY <1>1
<1> DEFINE j == [job[d] EXCEPT !.cRef = n, !.Status = s]
<1>3. /\ j \in JobRecords /\ j.state = job[d].state /\ j.JobId = job[d].JobId
      /\ j.cRef = n /\ j.Status = s
  <2> HIDE DEF n
  <2> QED BY <1>0 DEF JobRecords
<1>4. "DESPOOLING" \in j.Status <=> Despools(d) BY <1>2, <1>3
<1>5. Deletes(t, d, j, thread[t].then) BY <1>2
<1> HIDE DEF j
<1> QED BY <1>0, <1>3, <1>4, <1>5, CallOK

\* Every step at a file is such a step of its thread.
LEMMA FileSteps ==
  ASSUME StoreInv, NEW t \in Threads, FileStep(t)
  PROVE  \E d : StepOK(t, d)
<1> DEFINE d == thread[t].doc
<1>0. /\ ThreadOK(t) /\ CoreTypes /\ thread[t] \in ThreadRecords
      /\ \A c \in Clients : HandleOK(c) /\ handle[c] \in HandleRecords
  BY Known
<1>1. CASE Cancelled(t) \/ ShadowDeleted(t) BY <1>1, CallSteps
<1>2. ASSUME NEW K \in {CallPcs, WritePcs, RemovePcs}, NEW pc \in K, thread[t].pc \in K, GoTo(t, pc),
             UNCHANGED <<mapVars, handle, job>>
      PROVE  \E x : StepOK(t, x)
  <2>1. d \in Docs BY <1>0, <1>2 DEF ThreadOK, CallPcs, WritePcs, RemovePcs
  <2>2. SameJob(d) BY <1>2, JobsSame
  <2>3. StepOK(t, d) BY <1>2, <2>1, <2>2, SameKind
  <2> QED BY <2>3
<1>3. CASE DeleteShadow(t)
  BY <1>2, <1>3 DEF DeleteShadow, At, CallPcs
<1>4. CASE RemoveShadow(t)
  BY <1>2, <1>4 DEF RemoveShadow, At, RemovePcs
<1>5. CASE CreateShadowFile(t) \/ WriteShadowFile(t) \/ CloseShadowFile(t)
  <2>1. thread[t].pc \in WritePcs /\ UNCHANGED <<mapVars, handle, job>>
    BY <1>5 DEF CreateShadowFile, WriteShadowFile, CloseShadowFile, At, WritePcs
  <2>2. \E pc \in WritePcs : GoTo(t, pc)
    BY <1>5 DEF CreateShadowFile, WriteShadowFile, CloseShadowFile, WritePcs
  <2> QED BY <1>2, <2>1, <2>2
<1>6. ASSUME thread[t].pc \in RemovePcs, Resume(t, thread[t].then),
             UNCHANGED <<job, handle, dwCurrentJobId, dwMaxJobId>>,
             idMap' \subseteq idMap, \A i \in idMap : i \in idMap' \/ HoldsId(t, i)
      PROVE  StepOK(t, NoDoc)
  <2>1. thread[t].then = "idle" /\ thread[t].pc \notin CallPcs \cup WritePcs
    BY <1>0, <1>6 DEF ThreadOK, RemovePcs, CallPcs, WritePcs
  <2>2. thread' = [thread EXCEPT ![t] = [Idle EXCEPT !.pc = "idle"]] BY <1>6, <2>1 DEF Resume, Resumed
  <2>3. t \in Clients => HandleOK(t)' BY <1>0, <1>6 DEF HandleOK
  <2> QED BY <1>0, <1>6, <2>1, <2>2, <2>3, IdleStep DEF CoreTypes
<1>7. CASE RemoveSpool(t)
  <2>1. thread[t].pc \in RemovePcs /\ UNCHANGED <<mapVars, job, handle>>
    BY <1>7 DEF RemoveSpool, At, RemovePcs
  <2>2. CASE GoTo(t, "freeId") BY <1>2, <2>1, <2>2 DEF RemovePcs
  <2>3. CASE Resume(t, thread[t].then) BY <1>6, <2>1, <2>3 DEF mapVars
  <2> QED BY <1>7, <2>2, <2>3 DEF RemoveSpool
<1>8. CASE FreeId(t)
  <2>1. thread[t].pc \in RemovePcs /\ Resume(t, thread[t].then) /\ UNCHANGED job
    BY <1>8 DEF FreeId, At, RemovePcs
  <2>2. UNCHANGED handle
    <3>1. thread[t].id \in Ids BY <1>0 DEF ThreadRecords
    <3>2. \A c \in Clients : handle[c].mapped[thread[t].id] = "none" BY <1>0, <3>1 DEF HandleOK
    <3>3. handle' = [c \in Clients |-> handle[c]] BY <1>8, <3>2 DEF FreeId
    <3> QED BY <1>0, <3>3 DEF CoreTypes
  <2>3. UNCHANGED <<dwCurrentJobId, dwMaxJobId>> /\ idMap' = idMap \ {thread[t].id}
    BY <1>8 DEF FreeId, vMarkOff
  <2>4. HoldsId(t, thread[t].id) BY <1>8 DEF HoldsId, FreeId, At
  <2> QED BY <1>6, <2>1, <2>2, <2>3, <2>4
<1>9. CASE Reenter(t)
  <2> DEFINE s == IF At(t, "written") THEN job[d].Status \ {"SHADOW_DELETED"} ELSE job[d].Status
             j == [job[d] EXCEPT !.Status = s]
  <2>1. thread[t].pc \in WritePcs /\ UNCHANGED mapVars /\ ShadowWritten(t, d, j, thread[t].then)
    BY <1>9 DEF Reenter, WritePcs
  <2>2. d \in Docs /\ job[d] \in JobRecords /\ job[d].cRef \in Int
    BY <1>0, <2>1, Known DEF ThreadOK, WritePcs
  <2>3. s \in SUBSET Flags /\ ("DESPOOLING" \in s <=> Despools(d))
    BY <2>2 DEF JobRecords, Despools
  <2> HIDE DEF s
  <2>4. /\ j \in JobRecords /\ j.state = job[d].state /\ j.JobId = job[d].JobId
        /\ j.cRef = job[d].cRef /\ j.Status = s
    BY <2>2, <2>3 DEF JobRecords
  <2> HIDE DEF j
  <2>5. job[d].state = "queued"
    <3>1. CASE t = Port BY <1>0, <2>1, <2>2, <3>1, ReferredQueued DEF ThreadOK, PortBusy
    <3>2. CASE t # Port
      BY <1>0, <2>1, <2>2, <3>2, ReferredQueued DEF ThreadOK, Threads
    <3> QED BY <3>1, <3>2
  <2>6. AtDoc(t, d) /\ thread[t].pc \in {"idle"} \cup PortPcs \cup WritePcs BY <2>1 DEF AtDoc
  <2>7. WriteCase(t, d, j, thread[t].then)
    <3>1. CASE t = Port
      <4>1. thread[t].then \in {"query", "kept"} /\ Despools(d)
        BY <1>0, <2>1, <3>1 DEF ThreadOK, PortBusy
      <4>2. One(thread[t].then = "kept") = One(Keeps(thread[t], d))
        BY <2>1 DEF One, Keeps
      <4>3. One(Keeps(thread[t], d)) \in Int BY DEF One
      <4>4. j.cRef = job[d].cRef + One(thread[t].then = "kept") - One(Keeps(thread[t], d))
        BY <2>2, <2>4, <4>2, <4>3
      <4> QED BY <2>1, <2>3, <2>4, <2>5, <2>6, <3>1, <4>1, <4>4 DEF WriteCase
    <3>2. CASE t # Port
      <4>1. thread[t].then = "endDoc" /\ Spools(handle[t], d) /\ t \in Clients
        BY <1>0, <2>1, <3>2 DEF ThreadOK, Threads
      <4> QED BY <2>1, <2>3, <2>4, <2>5, <2>6, <4>1 DEF WriteCase
    <3> QED BY <3>1, <3>2
  <2>8. StepOK(t, d) BY <2>1, <2>2, <2>4, <2>7, ShadowWrittenOK
  <2> QED BY <2>8
<1> QED BY <1>1, <1>3, <1>4, <1>5, <1>7, <1>6, <1>8, <1>9 DEF FileStep

----------------------------------------------------------------------------
(* The steps of a client.                                                   *)

\* StartDocPrinter takes an id that nobody uses.
LEMMA StartDocOK ==
  ASSUME StartDocOnly, StoreInv, NEW c \in Clients, NEW d \in Docs, StartDocPrinter(c, d)
  PROVE  StepOK(c, d)
<1>0. /\ c \in Threads /\ c # Port /\ CoreTypes /\ IdsOK /\ HandleOK(c) /\ job[d] \in JobRecords
      /\ job[d].cRef = 0 /\ thread[c].pc = "idle" /\ job[d].state = "new" /\ ~ handle[c].STARTDOC
      /\ UNCHANGED handle
  BY ConstantsAssumption, Known DEF Threads, RefsQueued, StartDocPrinter, At
<1> DEFINE k == [job[d] EXCEPT !.state = "submitted"]
<1>1. /\ k \in JobRecords /\ k.state = "submitted" /\ k.cRef = 0 /\ k.Status = job[d].Status
  BY <1>0 DEF JobRecords
<1>2. job' = [job EXCEPT ![d] = k] BY DEF StartDocPrinter, SetJob
<1> HIDE DEF k
<1>3. PICK id \in Ids :
        /\ GetNextId(id)
        /\ thread' = [thread EXCEPT ![c] = [pc |-> "create", doc |-> d, id |-> id, then |-> "idle"]]
  BY DEF StartDocPrinter
<1>4. /\ id \notin idMap /\ idMap' = idMap \cup {id} /\ id < dwMaxJobId'
      /\ dwCurrentJobId' \in Ids /\ dwCurrentJobId' < dwMaxJobId'
      /\ dwMaxJobId' \in 1 .. MaxIds + 1 /\ dwMaxJobId' >= dwMaxJobId
  BY <1>3, NextIdIsFree
<1> DEFINE r == [pc |-> "create", doc |-> d, id |-> id, then |-> "idle"]
<1>5. /\ r \in ThreadRecords /\ r.pc = "create" /\ r.doc = d /\ r.id = id /\ r.then = "idle"
  BY DEF ThreadRecords, Pcs
<1>6. thread' = [thread EXCEPT ![c] = r] BY <1>3
<1> HIDE DEF r
<1>7. thread'[c] = r /\ job'[d] = k BY <1>0, <1>2, <1>6 DEF CoreTypes
<1>8. Moves(c, d)
  <2>1. CoreTypes' BY <1>0, <1>1, <1>2, <1>4, <1>5, <1>6 DEF CoreTypes
  <2> QED BY <1>0, <1>2, <1>6, <2>1 DEF Moves, CoreTypes
<1>9. RefsMove(c, d)
  <2>1. Despools(d)' <=> Despools(d) BY <1>1, <1>7 DEF Despools
  <2>2. ~ Spools(handle[c], d) /\ ~ Spools(handle[c], d)' BY <1>0 DEF Spools
  <2>3. job'[d].cRef = job[d].cRef + One(c \in Clients /\ Spools(handle[c], d)')
                                    - One(c \in Clients /\ Spools(handle[c], d))
    BY <1>0, <1>1, <1>7, <2>2 DEF One
  <2>4. thread[c].pc \notin CallPcs \cup WritePcs /\ thread'[c].pc \notin CallPcs \cup WritePcs
    BY <1>0, <1>5, <1>7 DEF CallPcs, WritePcs
  <2> QED BY <1>0, <2>1, <2>3, <2>4, PlainRefs
<1>10. Stays(c, d) BY <1>0, <1>1, <1>7 DEF Stays, Despools
<1>11. Submits(c) BY <1>0, <1>5, <1>7 DEF Submits
<1>12. ThreadOK(c)'
  <2>1. job'[thread'[c].doc].state = "submitted" BY <1>1, <1>5, <1>7
  <2>2. /\ r.pc \in SubmitPcs
        /\ r.pc \notin {"idle"} \cup CallPcs \cup WritePcs \cup RemovePcs \cup PortPcs \cup ClientPcs
    BY <1>5 DEF CallPcs, WritePcs, RemovePcs, SubmitPcs, PortPcs, ClientPcs
  <2> QED BY <1>0, <1>5, <1>7, <2>1, <2>2 DEF ThreadOK, ClientPcs
<1>13. HandleOK(c)' BY <1>0 DEF HandleOK
<1>14. IdStep(c, d)
  <2>1. \A i : ~ IsId(d, i)' BY <1>1, <1>7 DEF IsId
  <2>2. \A i : HoldsId(c, i)' => i = id BY <1>5, <1>7 DEF HoldsId
  <2> QED BY <1>4, <2>1, <2>2 DEF IdStep
<1> QED BY <1>8, <1>9, <1>10, <1>11, <1>12, <1>13, <1>14 DEF StepOK

\* SpoolThisJob ends, without its job.
LEMMA SubmitFails ==
  ASSUME StoreInv, NEW c \in Clients, NEW d \in Docs, d = thread[c].doc, thread[c].pc \in SubmitPcs,
         SetJob(d, [job[d] EXCEPT !.state = "gone"]), UNCHANGED <<mapVars, handle>>,
         NEW pc \in {"idle", "deleteFile"}, NEW r \in ThreadRecords, r.pc = pc,
         pc = "deleteFile" => r.doc = d, thread' = [thread EXCEPT ![c] = r]
  PROVE  StepOK(c, d)
<1>0. /\ c \in Threads /\ c # Port /\ CoreTypes /\ HandleOK(c) /\ job[d] \in JobRecords
      /\ job[d].state = "submitted" /\ job[d].cRef = 0 /\ ~ handle[c].STARTDOC
  BY ConstantsAssumption, Known DEF Threads, RefsQueued, ThreadOK
<1> DEFINE k == [job[d] EXCEPT !.state = "gone"]
<1>1. k \in JobRecords /\ k.state = "gone" /\ k.cRef = 0 /\ k.Status = job[d].Status
  BY <1>0 DEF JobRecords
<1>2. job' = [job EXCEPT ![d] = k] BY DEF SetJob
<1> HIDE DEF k
<1>3. thread'[c] = r /\ job'[d] = k BY <1>0, <1>2 DEF CoreTypes
<1>4. Moves(c, d)
  <2>1. CoreTypes' BY <1>0, <1>1, <1>2 DEF CoreTypes, mapVars
  <2> QED BY <1>0, <1>2, <2>1 DEF Moves, CoreTypes
<1>5. r.pc \notin CallPcs \cup WritePcs \cup RemovePcs \cup SubmitPcs \cup PortPcs \cup {"close"}
  BY DEF CallPcs, WritePcs, RemovePcs, SubmitPcs, PortPcs
<1>6. RefsMove(c, d)
  <2>1. Despools(d)' <=> Despools(d) BY <1>1, <1>3 DEF Despools
  <2>2. ~ Spools(handle[c], d) /\ ~ Spools(handle[c], d)' BY <1>0 DEF Spools
  <2>3. job'[d].cRef = job[d].cRef + One(c \in Clients /\ Spools(handle[c], d)')
                                    - One(c \in Clients /\ Spools(handle[c], d))
    BY <1>0, <1>1, <1>3, <2>2 DEF One
  <2>4. thread[c].pc \notin CallPcs \cup WritePcs BY DEF CallPcs, WritePcs, SubmitPcs
  <2> QED BY <1>0, <1>3, <1>5, <2>1, <2>3, <2>4, PlainRefs
<1>7. Stays(c, d) BY <1>0, <1>1, <1>3, <1>5 DEF Stays, Despools
<1>8. Submits(c) BY <1>3, <1>5 DEF Submits
<1>9. ThreadOK(c)' BY <1>0, <1>3, <1>5 DEF ThreadOK, ClientPcs
<1>10. HandleOK(c)' BY <1>0 DEF HandleOK
<1>11. IdStep(c, d)
  <2>1. \A i : ~ HoldsId(c, i)' BY <1>3 DEF HoldsId
  <2> QED BY <1>0, <1>1, <1>3, <2>1, SameIds
<1> QED BY <1>4, <1>6, <1>7, <1>8, <1>9, <1>10, <1>11 DEF StepOK

\* SpoolThisJob ends with a job that has the id the thread had.
LEMMA SubmitSucceeds ==
  ASSUME StoreInv, NEW c \in Clients, NEW d \in Docs, d = thread[c].doc, thread[c].pc = "queue",
         SetJob(d, NewJob(d, thread[c].id, {"SPOOLING"})), UNCHANGED mapVars,
         handle' = [handle EXCEPT ![c].STARTDOC = TRUE, ![c].pIniJob = d], Resume(c, "idle")
  PROVE  StepOK(c, d)
<1>0. /\ c \in Threads /\ c # Port /\ CoreTypes /\ HandleOK(c) /\ handle[c] \in HandleRecords
      /\ thread[c] \in ThreadRecords /\ IdsOK /\ ~ handle[c].STARTDOC
      /\ job[d] \in JobRecords /\ job[d].state = "submitted" /\ job[d].cRef = 0
  BY ConstantsAssumption, Known DEF Threads, RefsQueued, ThreadOK, SubmitPcs
<1> DEFINE k == NewJob(d, thread[c].id, {"SPOOLING"})
           h == [handle[c] EXCEPT !.STARTDOC = TRUE, !.pIniJob = d]
           r == [Idle EXCEPT !.pc = "idle"]
<1>1. /\ k \in JobRecords /\ k.state = "queued" /\ k.cRef = 1 /\ k.JobId = thread[c].id
      /\ "DESPOOLING" \notin k.Status
  BY <1>0 DEF JobRecords, NewJob, ThreadRecords, Flags
<1>2. /\ h \in HandleRecords /\ h.STARTDOC /\ h.pIniJob = d /\ h.mapped = handle[c].mapped
      /\ h.ADDJOB = handle[c].ADDJOB
  BY <1>0 DEF HandleRecords
<1>3. r \in ThreadRecords /\ r.pc = "idle"
  <2>1. 0 \in Ids BY ConstantsAssumption DEF Ids
  <2> QED BY <2>1 DEF ThreadRecords, Idle, Pcs
<1>4. /\ job' = [job EXCEPT ![d] = k] /\ handle' = [handle EXCEPT ![c] = h]
      /\ thread' = [thread EXCEPT ![c] = r]
  BY DEF SetJob, Resume, Resumed
<1> HIDE DEF k, h, r
<1>5. thread'[c] = r /\ job'[d] = k /\ handle'[c] = h BY <1>0, <1>4 DEF CoreTypes
<1>6. Moves(c, d)
  <2>1. CoreTypes' BY <1>0, <1>1, <1>2, <1>3, <1>4 DEF CoreTypes, mapVars
  <2> QED BY <1>0, <1>4, <2>1 DEF Moves, CoreTypes
<1>7. ~ Despools(d)
  <2>1. job[d].state # "queued" BY <1>0
  <2> QED BY <1>0, <2>1, ReferredQueued
<1>8. RefsMove(c, d)
  <2>1. ~ Despools(d)' BY <1>1, <1>5 DEF Despools
  <2>2. ~ Spools(handle[c], d) /\ Spools(handle[c], d)' BY <1>0, <1>2, <1>5 DEF Spools
  <2>3. job'[d].cRef = job[d].cRef + One(c \in Clients /\ Spools(handle[c], d)')
                                    - One(c \in Clients /\ Spools(handle[c], d))
    BY <1>0, <1>1, <1>5, <2>2 DEF One
  <2>4. \A e \in Docs \ {d} : ~ Spools(handle[c], e) /\ ~ Spools(handle[c], e)'
    BY <1>0, <1>2, <1>5 DEF Spools
  <2>5. thread[c].pc \notin CallPcs \cup WritePcs /\ thread'[c].pc \notin CallPcs \cup WritePcs
    BY <1>3, <1>5 DEF CallPcs, WritePcs
  <2> QED BY <1>0, <1>7, <2>1, <2>3, <2>4, <2>5, PlainRefs
<1>9. Stays(c, d) BY <1>1, <1>3, <1>5, <1>7 DEF Stays, SubmitPcs
<1>10. Submits(c) BY <1>3, <1>5 DEF Submits, SubmitPcs
<1>11. ThreadOK(c)'
  BY <1>0, <1>3, <1>5 DEF ThreadOK, CallPcs, WritePcs, RemovePcs, SubmitPcs, PortPcs, ClientPcs
<1>12. HandleOK(c)' BY <1>0, <1>2, <1>5 DEF HandleOK
<1>13. IdStep(c, d)
  <2>1. \A i : ~ HoldsId(c, i)' BY <1>3, <1>5 DEF HoldsId
  <2>2. \A i : IsId(d, i)' => i = thread[c].id BY <1>1, <1>5 DEF IsId
  <2>3. HoldsId(c, thread[c].id) /\ thread[c].id \in Ids BY <1>0 DEF HoldsId, ThreadRecords
  <2>4. thread[c].id \in idMap BY <1>0, <2>3 DEF IdsOK
  <2>5. /\ idMap' = idMap /\ dwMaxJobId' >= dwMaxJobId /\ dwCurrentJobId' < dwMaxJobId'
    BY <1>0 DEF mapVars, CoreTypes, IdsOK
  <2> QED BY <2>1, <2>2, <2>3, <2>4, <2>5 DEF IdStep
<1> QED BY <1>6, <1>8, <1>9, <1>10, <1>11, <1>12, <1>13 DEF StepOK

\* The spool file is made, or the call fails.
LEMMA CreateSpoolFileOK ==
  ASSUME StoreInv, NEW c \in Clients, CreateSpoolFile(c)
  PROVE  StepOK(c, thread[c].doc)
<1> DEFINE d == thread[c].doc
<1>0. /\ c \in Threads /\ thread[c].pc = "create" /\ thread[c].pc \in SubmitPcs /\ d \in Docs
      /\ UNCHANGED <<mapVars, handle>>
  BY Known DEF Threads, CreateSpoolFile, At, ThreadOK, SubmitPcs
<1>1. CASE GoTo(c, "queue") /\ UNCHANGED job
  <2>1. SameJob(d) BY <1>1, JobsSame
  <2>2. "queue" \in SubmitPcs BY DEF SubmitPcs
  <2> QED BY <1>0, <1>1, <2>1, <2>2, SameKind
<1>2. CASE SetJob(d, [job[d] EXCEPT !.state = "gone"]) /\ Resume(c, "idle")
  <2> DEFINE r == [Idle EXCEPT !.pc = "idle"]
  <2>1. r \in ThreadRecords /\ r.pc = "idle"
    <3>1. 0 \in Ids BY ConstantsAssumption DEF Ids
    <3> QED BY <3>1 DEF ThreadRecords, Idle, Pcs
  <2>2. thread' = [thread EXCEPT ![c] = r] BY <1>2 DEF Resume, Resumed
  <2> HIDE DEF r
  <2> QED BY <1>0, <1>2, <2>1, <2>2, SubmitFails
<1> QED BY <1>1, <1>2 DEF CreateSpoolFile

\* The job enters the queue with the reference of its handle, or the call fails.
LEMMA SpoolThisJobOK ==
  ASSUME StoreInv, NEW c \in Clients, SpoolThisJob(c)
  PROVE  StepOK(c, thread[c].doc)
<1> DEFINE d == thread[c].doc
<1>0. /\ c \in Threads /\ thread[c].pc = "queue" /\ thread[c].pc \in SubmitPcs /\ d \in Docs
      /\ UNCHANGED mapVars /\ thread[c] \in ThreadRecords /\ CoreTypes
  BY Known DEF Threads, SpoolThisJob, At, ThreadOK, SubmitPcs
<1>1. CASE /\ SetJob(d, NewJob(d, thread[c].id, {"SPOOLING"})) /\ Resume(c, "idle")
           /\ handle' = [handle EXCEPT ![c].STARTDOC = TRUE, ![c].pIniJob = d]
  BY <1>0, <1>1, SubmitSucceeds
<1>2. CASE /\ SetJob(d, [job[d] EXCEPT !.state = "gone"])
           /\ GoTo(c, "deleteFile") /\ UNCHANGED handle
  <2> DEFINE r == [thread[c] EXCEPT !.pc = "deleteFile"]
  <2>1. r \in ThreadRecords /\ r.pc = "deleteFile" /\ r.doc = d
    BY <1>0 DEF ThreadRecords, Pcs
  <2>2. thread' = [thread EXCEPT ![c] = r] BY <1>2 DEF GoTo
  <2> HIDE DEF r
  <2> QED BY <1>0, <1>2, <2>1, <2>2, SubmitFails
<1> QED BY <1>1, <1>2 DEF SpoolThisJob

\* ClosePrinter, and the end of a StartDocPrinter that failed.
LEMMA HandleStepsOK ==
  ASSUME StoreInv, NEW c \in Clients, SpoolThisJobFails(c) \/ ClosePrinter(c) \/ Closed(c)
  PROVE  StepOK(c, NoDoc)
<1>0. /\ c \in Threads /\ HandleOK(c) /\ handle[c] \in HandleRecords /\ CoreTypes /\ ThreadOK(c)
  BY Known DEF Threads
<1>1. /\ thread[c].pc \in {"idle"} \cup ClientPcs /\ UNCHANGED <<mapVars, job>>
      /\ thread[c].pc \notin CallPcs \cup WritePcs
  BY DEF SpoolThisJobFails, ClosePrinter, Closed, At, ClientPcs, CallPcs, WritePcs
<1>2. UNCHANGED <<job, dwCurrentJobId, dwMaxJobId>> /\ idMap' \subseteq idMap
      /\ \A i \in idMap : i \in idMap'
  BY <1>1 DEF mapVars
<1>3. ASSUME NEW pc \in {"idle", "close"}, Resume(c, pc),
             NEW h \in HandleRecords, handle' = [handle EXCEPT ![c] = h],
             h.mapped = [i \in Ids |-> "none"], ~ h.ADDJOB,
             h = handle[c] \/ (~ handle[c].STARTDOC /\ ~ h.STARTDOC),
             pc = "close" => ~ h.STARTDOC
      PROVE  StepOK(c, NoDoc)
  <2>1. thread' = [thread EXCEPT ![c] = [Idle EXCEPT !.pc = pc]] BY <1>3 DEF Resume, Resumed
  <2>2. handle'[c] = h /\ handle' \in [Clients -> HandleRecords]
        /\ \A b \in Clients : b # c => handle'[b] = handle[b]
    BY <1>0, <1>3 DEF CoreTypes
  <2>3. HandleOK(c)' BY <1>0, <1>3, <2>2 DEF HandleOK
  <2> QED BY <1>0, <1>1, <1>2, <1>3, <2>1, <2>2, <2>3, IdleStep
<1>4. CASE SpoolThisJobFails(c)
  <2>1. Resume(c, "idle") /\ handle' = [handle EXCEPT ![c] = handle[c]]
    BY <1>0, <1>4 DEF SpoolThisJobFails, CoreTypes
  <2> QED BY <1>0, <1>3, <2>1 DEF HandleOK
<1>5. CASE ClosePrinter(c)
  <2> DEFINE h == [handle[c] EXCEPT !.closing = TRUE]
  <2>1. /\ h \in HandleRecords /\ h.mapped = handle[c].mapped /\ h.ADDJOB = handle[c].ADDJOB
        /\ h.STARTDOC = handle[c].STARTDOC
    BY <1>0 DEF HandleRecords
  <2>2. Resume(c, "close") /\ handle' = [handle EXCEPT ![c] = h] BY <1>5 DEF ClosePrinter
  <2>3. ~ handle[c].STARTDOC BY <1>0, <1>5 DEF ClosePrinter, HandleOK
  <2> HIDE DEF h
  <2> QED BY <1>0, <1>3, <2>1, <2>2, <2>3 DEF HandleOK
<1>6. CASE Closed(c)
  <2>1. /\ NewHandle \in HandleRecords /\ NewHandle.mapped = [i \in Ids |-> "none"]
        /\ ~ NewHandle.ADDJOB /\ ~ NewHandle.STARTDOC
    BY DEF NewHandle, HandleRecords
  <2>2. Resume(c, "idle") /\ handle' = [handle EXCEPT ![c] = NewHandle] BY <1>6 DEF Closed
  <2>3. ~ handle[c].STARTDOC BY <1>0, <1>6 DEF Closed, At, ThreadOK
  <2> QED BY <1>3, <2>1, <2>2, <2>3
<1> QED BY <1>4, <1>5, <1>6

\* EndDocPrinter as a whole.
LEMMA EndDocOK ==
  ASSUME StoreInv, NEW c \in Clients, EndDocPrinter(c)
  PROVE  \E d : StepOK(c, d)
<1> DEFINE d == handle[c].pIniJob
           s == job[d].Status \ {"SPOOLING"}
           j == [job[d] EXCEPT !.Status = s]
<1>0. /\ c \in Threads /\ thread[c].pc = "idle" /\ UNCHANGED mapVars
      /\ d \in Docs /\ Spools(handle[c], d) /\ job[d] \in JobRecords /\ job[d].cRef \in Int
  BY Known DEF Threads, EndDocPrinter, At, HandleOK, Spools
<1>1. job[d].state = "queued" BY <1>0, ReferredQueued
<1>2. s \in SUBSET Flags /\ ("DESPOOLING" \in s <=> Despools(d)) BY <1>0 DEF JobRecords, Despools
<1>3. WriteShadowJob(c, d, j, "endDoc") BY DEF EndDocPrinter
<1> HIDE DEF s
<1>4. /\ j \in JobRecords /\ j.state = job[d].state /\ j.JobId = job[d].JobId
      /\ j.cRef = job[d].cRef /\ j.Status = s
  BY <1>0, <1>2 DEF JobRecords
<1> HIDE DEF j, d
<1>5. thread[c].pc \notin WritePcs \cup CallPcs BY <1>0 DEF WritePcs, CallPcs
<1>6. WriteCase(c, d, j, "endDoc") BY <1>0, <1>1, <1>2, <1>4, <1>5 DEF WriteCase, AtDoc
<1>7. StepOK(c, d) BY <1>0, <1>3, <1>4, <1>5, <1>6, WriteShadowJobOK
<1> QED BY <1>7

\* A user deletes a job.
LEMMA DeleteByUserOK ==
  ASSUME StoreInv, NEW c \in Clients, NEW d \in Docs, DeleteByUser(c, d)
  PROVE  StepOK(c, d)
<1> DEFINE s == job[d].Status \ {"RESTART"}
           j == [job[d] EXCEPT !.Status = s]
<1>0. /\ c \in Threads /\ thread[c].pc = "idle" /\ UNCHANGED <<mapVars, handle>>
      /\ job[d].state = "queued" /\ job[d] \in JobRecords /\ job[d].cRef \in Int
  BY Known DEF Threads, DeleteByUser, At, Queued
<1>1. s \in SUBSET Flags /\ ("DESPOOLING" \in s <=> Despools(d)) BY <1>0 DEF JobRecords, Despools
<1>2. DeleteJob(c, d, j, "idle") BY DEF DeleteByUser
<1> HIDE DEF s
<1>3. /\ j \in JobRecords /\ j.state = job[d].state /\ j.JobId = job[d].JobId
      /\ j.cRef = job[d].cRef /\ j.Status = s
  BY <1>0, <1>1 DEF JobRecords
<1> HIDE DEF j
<1>4. Deletes(c, d, j, "idle") BY <1>2, <1>3, DeleteJobDeletes
<1>5. thread[c].pc \notin CallPcs \cup WritePcs \cup SubmitPcs \cup RemovePcs \cup ClientPcs
  BY <1>0 DEF CallPcs, WritePcs, SubmitPcs, RemovePcs, ClientPcs
<1>6. Held(c, d) = One(c \in Clients /\ Spools(handle[c], d)) /\ AtDoc(c, d)
  BY <1>0, <1>5, HeldAway
<1>7. HandleGivesUp(c, d) /\ (Spools(handle[c], d)' <=> Spools(handle[c], d))
  BY <1>0, HandlesSame DEF Spools
<1>8. ("DESPOOLING" \in j.Status <=> Despools(d)) /\ j.cRef = job[d].cRef BY <1>1, <1>3
<1>9. j.cRef = job[d].cRef - Held(c, d) + One(c \in Clients /\ Spools(handle[c], d)')
                 + One("DESPOOLING" \in j.Status) - One(Despools(d))
  BY <1>0, <1>6, <1>7, <1>8 DEF One
<1> QED BY <1>0, <1>3, <1>4, <1>5, <1>6, <1>7, <1>8, <1>9, DeletesOK

\* The other operations are those of AddJob, and need its documents or entries.
LEMMA ClientCases ==
  ASSUME StartDocOnly, StoreInv, NEW c \in Clients, ClientStep(c)
  PROVE  \/ CreateSpoolFile(c) \/ SpoolThisJob(c) \/ SpoolThisJobFails(c)
         \/ EndDocPrinter(c) \/ ClosePrinter(c) \/ Closed(c) \/ UnblockJobs(c)
         \/ \E d \in Docs : StartDocPrinter(c, d) \/ DeleteByUser(c, d) \/ RestartJob(c, d)
<1>0. /\ HandleOK(c) /\ ThreadOK(c) /\ AddJobs = {} /\ Mapped = {} BY Known DEF Threads, StartDocOnly
<1>1. thread[c].pc \notin {"addJob", "schedule", "pop", "forget", "forgotten"}
  BY <1>0 DEF ThreadOK, CallPcs, WritePcs, RemovePcs, SubmitPcs, PortPcs, ClientPcs
<1>2. /\ ~ GetSpoolFileHandle(c) /\ ~ LocalAddJob(c) /\ ~ CloseSchedules(c) /\ ~ ClosePops(c)
      /\ ~ CloseDeletesFile(c) /\ ~ CloseFreesId(c)
  BY <1>0, <1>1 DEF GetSpoolFileHandle, LocalAddJob, CloseSchedules, ClosePops, CloseDeletesFile,
                    CloseFreesId, At
<1>3. ~ CloseNext(c)
  <2>1. MappedIds(c) = {} BY <1>0 DEF MappedIds, HandleOK
  <2> QED BY <2>1 DEF CloseNext
<1>4. \A d \in Docs : ~ AddJob(c, d) /\ ~ WriteSpoolFile(c, d) /\ ~ ScheduleJob(c, d)
  BY <1>0 DEF AddJob, WriteSpoolFile, ScheduleJob, MaySchedule
<1> QED BY <1>2, <1>3, <1>4 DEF ClientStep

\* Every step of a client is one of its own thread, or changes only Status.
LEMMA ClientSteps ==
  ASSUME StartDocOnly, StoreInv, NEW c \in Clients, ClientStep(c)
  PROVE  \/ \E d : StepOK(c, d)
         \/ UnblockJobs(c) \/ \E d \in Docs : RestartJob(c, d)
BY ClientCases, CreateSpoolFileOK, SpoolThisJobOK, HandleStepsOK, EndDocOK, StartDocOK, DeleteByUserOK

----------------------------------------------------------------------------
(* The steps of the port thread.                                            *)

\* The scheduler takes the reference of the port.
LEMMA AssignJobOK ==
  ASSUME StoreInv, NEW d \in Docs, AssignJob(d)
  PROVE  StepOK(Port, d)
<1> DEFINE s == job[d].Status \cup {"DESPOOLING"}
           n == job[d].cRef + 1
           k == [job[d] EXCEPT !.Status = s, !.cRef = n]
           r == [Idle EXCEPT !.pc = "assigned", !.doc = d]
<1>0. /\ thread[Port].pc = "idle" /\ UNCHANGED <<mapVars, handle>> /\ job[d].state = "queued"
      /\ job[d] \in JobRecords /\ job[d].cRef \in Int /\ ~ Despools(d)
  <2>1. "DESPOOLING" \in Flags \ {"SCHEDULE_JOB", "RESTART", "SHADOW_DELETED"} BY DEF Flags
  <2>2. ~ Despools(d) BY <2>1 DEF AssignJob, Despools
  <2> QED BY <2>2, Known DEF AssignJob, At, Queued
<1>1. s \in SUBSET Flags /\ "DESPOOLING" \in s /\ n \in Int BY <1>0 DEF JobRecords, Flags
<1>2. job' = [job EXCEPT ![d] = k] /\ thread' = [thread EXCEPT ![Port] = r]
  BY DEF AssignJob, SetJob
<1>3. r \in ThreadRecords /\ r.doc = d /\ r.pc = "assigned"
  <2>1. 0 \in Ids BY ConstantsAssumption DEF Ids
  <2> QED BY <2>1 DEF ThreadRecords, Idle, Pcs
<1> HIDE DEF s, r
<1>4. /\ k \in JobRecords /\ k.state = job[d].state /\ k.JobId = job[d].JobId
      /\ k.cRef = n /\ k.Status = s
  <2> HIDE DEF n
  <2> QED BY <1>0, <1>1 DEF JobRecords
<1> HIDE DEF k
<1>5. r.pc \in PortPcs /\ ~ Keeps(r, d) /\ ~ Keeps(thread[Port], d)
  BY <1>0, <1>3 DEF PortPcs, Keeps, WritePcs
<1>6. k.cRef = job[d].cRef + One(Keeps(r, d)) - One(Keeps(thread[Port], d)) + 1 - One(Despools(d))
  BY <1>0, <1>4, <1>5 DEF One
<1>7. PortGoes(d, r, k) BY <1>0, <1>1, <1>2, <1>3, <1>4, <1>5, <1>6 DEF PortGoes
<1> QED BY <1>3, <1>4, <1>7, PortMoves

\* The job of a busy port thread is in the queue and referred to.
LEMMA PortBusyKnown ==
  ASSUME StoreInv, thread[Port].pc \in PortPcs, NEW d, d = thread[Port].doc
  PROVE  /\ Port \in Threads /\ d \in Docs /\ Despools(d) /\ job[d].state = "queued" /\ job[d].cRef > 0
         /\ job[d] \in JobRecords /\ job[d].cRef \in Int /\ AtDoc(Port, d)
         /\ thread[Port].pc \notin CallPcs \cup WritePcs \cup SubmitPcs \cup RemovePcs \cup ClientPcs
         /\ ~ Keeps(thread[Port], d)
<1>1. Port \in Threads /\ ThreadOK(Port) BY Known DEF Threads
<1>2. /\ thread[Port].pc \notin CallPcs \cup WritePcs \cup SubmitPcs \cup RemovePcs \cup ClientPcs
      /\ thread[Port].pc \notin {"idle", "close"}
  BY DEF PortPcs, CallPcs, WritePcs, SubmitPcs, RemovePcs, ClientPcs
<1>3. d \in Docs /\ Despools(d) BY <1>1, <1>2 DEF ThreadOK, PortBusy
<1>4. job[d].state = "queued" /\ job[d].cRef > 0 BY <1>1, <1>3, ReferredQueued
<1> QED BY <1>1, <1>2, <1>3, <1>4, Known DEF AtDoc, Keeps

\* PrintDocument begins.
LEMMA PortBeginsOK ==
  ASSUME StoreInv, PortBegins
  PROVE  StepOK(Port, thread[Port].doc)
<1> DEFINE d == thread[Port].doc
           j == Attempt(d, job[d])
<1>0. thread[Port].pc = "assigned" /\ thread[Port].pc \in PortPcs /\ UNCHANGED mapVars
  BY DEF PortBegins, At, PortPcs
<1>1. /\ j \in JobRecords /\ j.state = job[d].state /\ j.JobId = job[d].JobId
      /\ j.cRef = job[d].cRef /\ j.Status = job[d].Status \ {"RESTART"}
  <2>0. job[d] \in JobRecords BY <1>0, PortBusyKnown
  <2> DEFINE s == job[d].Status \ {"RESTART"}
  <2>1. PICK n \in Int : j = [job[d] EXCEPT !.Status = s, !.dwReboots = n]
    <3>1. CASE d \in Emf
      <4> DEFINE n == IF "RESTART" \in job[d].Status /\ job[d].dwReboots > 0 THEN job[d].dwReboots
                      ELSE job[d].dwReboots + 1
      <4>1. n \in Int BY <2>0 DEF JobRecords
      <4>2. j = [job[d] EXCEPT !.Status = s, !.dwReboots = n] BY <3>1 DEF Attempt
      <4> QED BY <4>1, <4>2
    <3>2. CASE d \notin Emf
      <4>1. job[d].dwReboots \in Int BY <2>0 DEF JobRecords
      <4>2. j = [job[d] EXCEPT !.Status = s, !.dwReboots = job[d].dwReboots]
        BY <2>0, <3>2 DEF Attempt, JobRecords
      <4> QED BY <4>1, <4>2
    <3> QED BY <3>1, <3>2
  <2>2. s \in SUBSET Flags BY <2>0 DEF JobRecords
  <2> HIDE DEF s, j
  <2>3. /\ j \in JobRecords /\ j.state = job[d].state /\ j.JobId = job[d].JobId
        /\ j.cRef = job[d].cRef /\ j.Status = s
    BY <2>0, <2>1, <2>2 DEF JobRecords
  <2> QED BY <2>3 DEF s
<1>2. WriteShadowJob(Port, d, j, "query") \/ ShadowWritten(Port, d, j, "query")
  BY DEF PortBegins
<1> HIDE DEF j
<1>3. WriteCase(Port, d, j, "query")
  BY <1>0, <1>1, PortBusyKnown DEF WriteCase, Despools, One
<1> QED BY <1>0, <1>1, <1>2, <1>3, PortBusyKnown, WriteShadowJobOK, ShadowWrittenOK

\* The status of the job changes, the port thread goes on.
LEMMA PortGoesOn ==
  ASSUME StoreInv, thread[Port].pc \in PortPcs, NEW d, d = thread[Port].doc,
         NEW pc \in PortPcs, GoTo(Port, pc), UNCHANGED <<mapVars, handle>>,
         \/ UNCHANGED job
         \/ \E s \in SUBSET Flags : /\ "DESPOOLING" \in s <=> "DESPOOLING" \in job[d].Status
                                    /\ SetJob(d, [job[d] EXCEPT !.Status = s])
  PROVE  StepOK(Port, d)
<1>1. d \in Docs /\ Port \in Threads BY PortBusyKnown
<1>2. SameJob(d) BY <1>1, JobsSame, StatusChange DEF SetJob
<1> QED BY <1>1, <1>2, SameKind

\* The job is sent, and deleted where the printer keeps none.
LEMMA PortSendsOK ==
  ASSUME StoreInv, PortSends
  PROVE  StepOK(Port, thread[Port].doc)
<1> DEFINE d == thread[Port].doc
           s == job[d].Status \cup {"PRINTED"}
           j == [job[d] EXCEPT !.Status = s]
<1>0. thread[Port].pc \in PortPcs /\ UNCHANGED <<mapVars, handle>> BY DEF PortSends, At, PortPcs
<1>1. /\ Port \in Threads /\ Port \notin Clients /\ d \in Docs /\ Despools(d)
      /\ job[d].state = "queued" /\ job[d].cRef > 0 /\ job[d] \in JobRecords /\ job[d].cRef \in Int
  BY <1>0, PortBusyKnown, ConstantsAssumption
<1>2. s \in SUBSET Flags /\ "DESPOOLING" \in s /\ "DESPOOLING" \in job[d].Status
  BY <1>1 DEF JobRecords, Despools, Flags
<1>3. CASE DeleteJob(Port, d, j, "sent")
  <2> HIDE DEF s
  <2>1. /\ j \in JobRecords /\ j.state = job[d].state /\ j.JobId = job[d].JobId
        /\ j.cRef = job[d].cRef /\ j.Status = s
    BY <1>1, <1>2 DEF JobRecords
  <2> HIDE DEF j
  <2>2. Deletes(Port, d, j, "sent") BY <1>3, <2>1, DeleteJobDeletes
  <2>3. /\ thread[Port].pc \notin CallPcs \cup WritePcs \cup SubmitPcs \cup RemovePcs \cup ClientPcs
        /\ AtDoc(Port, d)
    BY <1>0, PortBusyKnown
  <2>4. Held(Port, d) = 0
    <3>1. Held(Port, d) = One(Port \in Clients /\ Spools(handle[Port], d))
      BY <1>1, <2>3, HeldAway
    <3> QED BY <1>1, <3>1 DEF One
  <2>5. HandleGivesUp(Port, d) BY <1>0, <1>1, HandlesSame
  <2>6. j.cRef = job[d].cRef - Held(Port, d) + One(Port \in Clients /\ Spools(handle[Port], d)')
                   + One("DESPOOLING" \in j.Status) - One(Despools(d))
    BY <1>1, <1>2, <2>1, <2>4 DEF One
  <2>7. UNCHANGED mapVars BY <1>0
  <2>8. "DESPOOLING" \in j.Status /\ j.cRef > 0 /\ j.state = "queued" BY <1>1, <1>2, <2>1
  <2> QED BY <1>1, <2>1, <2>2, <2>3, <2>5, <2>6, <2>7, <2>8, DeletesOK
<1>4. CASE GoTo(Port, "sent") /\ (UNCHANGED job \/ SetJob(d, j))
  <2>1. "sent" \in PortPcs BY DEF PortPcs
  <2> QED BY <1>0, <1>2, <1>4, <2>1, PortGoesOn
<1> QED BY <1>3, <1>4 DEF PortSends

\* PrintDocument ends.
LEMMA PortEndsOK ==
  ASSUME StoreInv, PortEnds
  PROVE  StepOK(Port, thread[Port].doc)
<1> DEFINE d == thread[Port].doc
<1>0. thread[Port].pc \in PortPcs /\ UNCHANGED mapVars BY DEF PortEnds, At, PortPcs
<1>1. /\ Port \in Threads /\ d \in Docs /\ Despools(d) /\ job[d].state = "queued"
      /\ job[d] \in JobRecords /\ job[d].cRef \in Int
      /\ thread[Port].pc \notin WritePcs /\ AtDoc(Port, d) /\ One(Keeps(thread[Port], d)) = 0
  BY <1>0, PortBusyKnown DEF One
<1> DEFINE x == IF At(Port, "refused") THEN {"BLOCKED_DEVQ"}
                ELSE IF "RESTART" \in job[d].Status THEN {} ELSE {"PRINTED"}
           s == job[d].Status \cup x
           j == [job[d] EXCEPT !.Status = s]
<1>2. s \in SUBSET Flags /\ "DESPOOLING" \in s BY <1>1 DEF JobRecords, Despools, Flags
<1>3. CASE Keep
  <2>1. WriteShadowJob(Port, d, Kept(d, j), "kept") BY <1>3 DEF PortEnds
  <2> HIDE DEF s
  <2> DEFINE n == job[d].cRef + 1
             u == (s \ {"PENDING_DELETION"}) \cup {"PRINTED"}
             k == Kept(d, j)
  <2>2. n \in Int /\ u \in SUBSET Flags /\ "DESPOOLING" \in u BY <1>1, <1>2 DEF Flags
  <2>3. PICK m \in Int : k = [job[d] EXCEPT !.Status = u, !.cRef = n, !.dwReboots = m]
    <3>1. j.dwReboots = job[d].dwReboots /\ j.cRef = job[d].cRef /\ j.Status = s
          /\ job[d].dwReboots \in Int
      BY <1>1 DEF JobRecords
    <3> DEFINE m == IF d \in Emf THEN job[d].dwReboots - 1 ELSE job[d].dwReboots
    <3>2. m \in Int BY <3>1
    <3>3. k = [j EXCEPT !.Status = u, !.cRef = n, !.dwReboots = m] BY <3>1 DEF Kept
    <3>4. k = [job[d] EXCEPT !.Status = u, !.cRef = n, !.dwReboots = m]
      <4> HIDE DEF u, n, m, k
      <4> QED BY <1>1, <3>3 DEF JobRecords
    <3> QED BY <3>2, <3>4
  <2> HIDE DEF u, k, n
  <2>4. /\ k \in JobRecords /\ k.state = job[d].state /\ k.JobId = job[d].JobId
        /\ k.cRef = n /\ k.Status = u
    BY <1>1, <2>2, <2>3 DEF JobRecords
  <2>5. k.cRef = job[d].cRef + 1 BY <2>4 DEF n
  <2>6. WriteCase(Port, d, k, "kept")
    BY <1>0, <1>1, <2>2, <2>4, <2>5 DEF WriteCase, One
  <2>7. WriteShadowJob(Port, d, k, "kept") BY <2>1 DEF k
  <2> QED BY <1>0, <1>1, <2>4, <2>6, <2>7, WriteShadowJobOK
<1>4. CASE ~ Keep
  <2>1. RemoveIniPortFromIniJob(Port, d, j) BY <1>4 DEF PortEnds
  <2> HIDE DEF s
  <2>2. /\ j \in JobRecords /\ j.state = job[d].state /\ j.JobId = job[d].JobId
        /\ j.cRef = job[d].cRef /\ j.Status = s
    BY <1>1, <1>2 DEF JobRecords
  <2> HIDE DEF j
  <2>3. j.cRef = job[d].cRef - One(Keeps(thread[Port], d)) BY <1>1, <2>2
  <2> QED BY <1>0, <1>1, <1>2, <2>1, <2>2, <2>3, RemovePortOK
<1> QED BY <1>3, <1>4

\* Every step of the port thread is one of its own.
LEMMA PortSteps ==
  ASSUME StoreInv, PortStep
  PROVE  \E d : StepOK(Port, d)
<1> DEFINE d == thread[Port].doc
<1>1. CASE \E e \in Docs : AssignJob(e) BY <1>1, AssignJobOK
<1>2. CASE PortBegins BY <1>2, PortBeginsOK
<1>3. CASE PortQueries
  <2> DEFINE s == job[d].Status \cup {"PRINTING"}
  <2>1. thread[Port].pc \in PortPcs /\ UNCHANGED <<mapVars, handle>>
    BY <1>3 DEF PortQueries, At, PortPcs
  <2>2. job[d] \in JobRecords BY <2>1, PortBusyKnown
  <2>3. s \in SUBSET Flags /\ ("DESPOOLING" \in s <=> "DESPOOLING" \in job[d].Status)
    BY <2>2 DEF JobRecords, Flags
  <2>4. \E pc \in PortPcs : /\ GoTo(Port, pc)
                            /\ UNCHANGED job \/ SetJob(d, [job[d] EXCEPT !.Status = s])
    BY <1>3 DEF PortQueries, PortPcs
  <2> QED BY <2>1, <2>3, <2>4, PortGoesOn
<1>4. CASE PortSends BY <1>4, PortSendsOK
<1>5. CASE PortStops
  <2> DEFINE s == job[d].Status \ {"PRINTING"}
  <2>1. thread[Port].pc \in PortPcs /\ UNCHANGED <<mapVars, handle>>
    BY <1>5 DEF PortStops, At, PortPcs
  <2>2. job[d] \in JobRecords BY <2>1, PortBusyKnown
  <2>3. s \in SUBSET Flags /\ ("DESPOOLING" \in s <=> "DESPOOLING" \in job[d].Status)
    BY <2>2 DEF JobRecords, Flags
  <2>4. "end" \in PortPcs /\ GoTo(Port, "end") /\ SetJob(d, [job[d] EXCEPT !.Status = s])
    BY <1>5 DEF PortStops, PortPcs
  <2> QED BY <2>1, <2>3, <2>4, PortGoesOn
<1>6. CASE PortEnds BY <1>6, PortEndsOK
<1> QED BY <1>1, <1>2, <1>3, <1>4, <1>5, <1>6 DEF PortStep

----------------------------------------------------------------------------
(* Steps of users that change the status of jobs only.                      *)

\* A step that leaves the references and the ids alone preserves the invariant.
LEMMA SameRefs ==
  ASSUME StoreInv, Types', UNCHANGED <<mapVars, handle, thread>>,
         \A d \in Docs : /\ job'[d].state = job[d].state /\ job'[d].JobId = job[d].JobId
                         /\ job'[d].cRef = job[d].cRef /\ (Despools(d)' <=> Despools(d))
  PROVE  StoreInv'
<1>1. /\ handle' = handle /\ thread' = thread /\ idMap' = idMap
      /\ dwCurrentJobId' = dwCurrentJobId /\ dwMaxJobId' = dwMaxJobId
  BY DEF mapVars
<1>2. RefsExact'
  <2>1. \A d \in Docs : /\ Callers(d)' = Callers(d) /\ Spoolers(d)' = Spoolers(d)
                        /\ One(Keeps(thread[Port], d))' = One(Keeps(thread[Port], d))
    BY <1>1 DEF Callers, Calls, Spoolers, Spools, Keeps, One
  <2>2. \A d \in Docs : One(Despools(d))' = One(Despools(d)) BY DEF One
  <2> QED BY <2>1, <2>2 DEF StoreInv, RefsExact
<1>3. RefsQueued' BY DEF StoreInv, RefsQueued
<1>4. ThreadsOK'
  <2>1. ASSUME NEW t \in Threads PROVE ThreadOK(t)'
    <3>1. ThreadOK(t) BY Known
    <3>2. thread[t].pc \in SubmitPcs => job'[thread[t].doc].state = "submitted"
      BY <3>1 DEF ThreadOK, SubmitPcs
    <3>3. t = Port /\ PortBusy(thread[t]) => Despools(thread[t].doc)'
      <4>1. SUFFICES ASSUME t = Port, PortBusy(thread[t]) PROVE Despools(thread[t].doc)' OBVIOUS
      <4>2. thread[t].doc \in Docs /\ Despools(thread[t].doc)
        BY <3>1, <4>1 DEF ThreadOK, PortBusy, PortPcs, WritePcs, CallPcs
      <4> QED BY <1>1, <4>2 DEF Despools
    <3>4. Spools(handle[t], thread[t].doc)' <=> Spools(handle[t], thread[t].doc) BY <1>1 DEF Spools
    <3> QED BY <1>1, <3>1, <3>2, <3>3, <3>4 DEF ThreadOK
  <2>2. SubmitsAlone' BY <1>1 DEF StoreInv, ThreadsOK, SubmitsAlone
  <2> QED BY <2>1, <2>2 DEF ThreadsOK
<1>5. HandlesOK' BY <1>1 DEF StoreInv, HandlesOK, HandleOK
<1>6. IdsOK'
  <2>1. Queued' = Queued BY DEF Queued
  <2>2. \A i : FindJob(i)' = FindJob(i) BY <2>1 DEF FindJob, Queued
  <2>3. \A t, i : HoldsId(t, i)' <=> HoldsId(t, i) BY <1>1 DEF HoldsId
  <2> QED BY <1>1, <2>1, <2>2, <2>3 DEF StoreInv, IdsOK, Queued
<1> QED BY <1>2, <1>3, <1>4, <1>5, <1>6 DEF StoreInv

\* Restarting and unblocking are such steps.
LEMMA UserSteps ==
  ASSUME StoreInv, NEW c \in Clients, UnblockJobs(c) \/ \E d \in Docs : RestartJob(c, d)
  PROVE  /\ UNCHANGED <<mapVars, handle, thread>> /\ job' \in [Docs -> JobRecords]
         /\ \A d \in Docs : /\ job'[d].state = job[d].state /\ job'[d].JobId = job[d].JobId
                            /\ job'[d].cRef = job[d].cRef /\ (Despools(d)' <=> Despools(d))
<1>0. job \in [Docs -> JobRecords] BY Known DEF CoreTypes
<1>1. CASE UnblockJobs(c)
  <2> DEFINE k(d) == [job[d] EXCEPT !.Status = job[d].Status \ {"BLOCKED_DEVQ"}]
  <2>1. ASSUME NEW d \in Docs
        PROVE  /\ k(d) \in JobRecords /\ k(d).state = job[d].state /\ k(d).JobId = job[d].JobId
               /\ k(d).cRef = job[d].cRef /\ k(d).Status = job[d].Status \ {"BLOCKED_DEVQ"}
    BY <1>0 DEF JobRecords
  <2>2. job' = [d \in Docs |-> k(d)] BY <1>1 DEF UnblockJobs
  <2>3. \A d \in Docs : job'[d] = k(d) BY <2>2
  <2> HIDE DEF k
  <2>4. job' \in [Docs -> JobRecords] BY <2>1, <2>2
  <2>5. \A d \in Docs : Despools(d)' <=> Despools(d) BY <2>1, <2>3 DEF Despools
  <2> QED BY <1>1, <2>1, <2>3, <2>4, <2>5 DEF UnblockJobs
<1>2. ASSUME NEW d \in Docs, RestartJob(c, d)
      PROVE  /\ UNCHANGED <<mapVars, handle, thread>> /\ SameJob(d)
  <2> DEFINE s == (job[d].Status \cup {"RESTART"}) \
                    IF "DESPOOLING" \in job[d].Status THEN {} ELSE {"PRINTED", "BLOCKED_DEVQ"}
  <2>1. s \in SUBSET Flags /\ ("DESPOOLING" \in s <=> "DESPOOLING" \in job[d].Status)
    BY <1>0 DEF JobRecords, Flags
  <2>2. job' = [job EXCEPT ![d] = [job[d] EXCEPT !.Status = s]] BY <1>2 DEF RestartJob, SetJob
  <2>3. SameJob(d)
    <3> HIDE DEF s
    <3> QED BY <2>1, <2>2, StatusChange
  <2> QED BY <1>2, <2>3 DEF RestartJob
<1>3. CASE \E d \in Docs : RestartJob(c, d)
  <2>1. PICK d \in Docs : UNCHANGED <<mapVars, handle, thread>> /\ SameJob(d) BY <1>2, <1>3
  <2>2. \A e \in Docs : e # d => job'[e] = job[e] /\ (Despools(e)' <=> Despools(e))
    BY <2>1 DEF SameJob, Despools
  <2> QED BY <2>1, <2>2 DEF SameJob
<1> QED BY <1>1, <1>3

----------------------------------------------------------------------------
(* The types of the files and the histories.                                *)

DiskTypes ==
  /\ spool \in [Ids -> Docs \cup {NoDoc}]
  /\ shadow \in [Ids -> ShadowRecords]
HistoryTypes ==
  /\ crashes \in Nat /\ died \in [Docs -> Nat]
  /\ asked \in [Docs -> SUBSET {"DELETE", "RESTART"}]

\* The types are those of the memory, the files and the histories.
LEMMA TypesParts == Types <=> CoreTypes /\ DiskTypes /\ HistoryTypes
BY DEF Types, CoreTypes, DiskTypes, HistoryTypes

\* What is written to a shadow file has its type.
LEMMA ShadowTypes ==
  /\ NoShadow \in ShadowRecords /\ Torn \in ShadowRecords
  /\ \A d \in Docs : \A j \in JobRecords : Shadow(d, j) \in ShadowRecords
BY DEF NoShadow, Torn, Shadow, ShadowRecords, JobRecords, Flags

\* The files and histories keep their types at a step of a file,
LEMMA FileDisk ==
  ASSUME StoreInv, NEW t \in Threads, FileStep(t)
  PROVE  DiskTypes' /\ HistoryTypes'
<1>0. /\ DiskTypes /\ HistoryTypes /\ thread[t].id \in Ids /\ ThreadOK(t)
  BY Known, TypesParts DEF StoreInv, ThreadRecords
<1>1. UNCHANGED history /\ HistoryTypes'
  <2>1. UNCHANGED history
    BY DEF FileStep, Cancelled, DeleteShadow, ShadowDeleted, RemoveShadow, RemoveSpool, FreeId,
           CreateShadowFile, WriteShadowFile, CloseShadowFile, Reenter
  <2> QED BY <1>0, <2>1 DEF history, HistoryTypes
<1>2. CASE UNCHANGED disk BY <1>0, <1>1, <1>2 DEF disk, DiskTypes
<1>3. ASSUME NEW x \in ShadowRecords, shadow' = [shadow EXCEPT ![thread[t].id] = x], UNCHANGED spool
      PROVE  DiskTypes'
  BY <1>0, <1>3 DEF DiskTypes
<1>4. CASE DeleteShadow(t) \/ RemoveShadow(t) \/ CreateShadowFile(t)
  <2>1. /\ UNCHANGED spool
        /\ \/ UNCHANGED shadow
           \/ shadow' = [shadow EXCEPT ![thread[t].id] = NoShadow]
           \/ shadow' = [shadow EXCEPT ![thread[t].id] = Torn]
    BY <1>4 DEF DeleteShadow, RemoveShadow, CreateShadowFile
  <2> QED BY <1>1, <1>2, <1>3, <2>1, ShadowTypes DEF disk
<1>5. CASE WriteShadowFile(t)
  <2>1. thread[t].doc \in Docs BY <1>0, <1>5 DEF WriteShadowFile, At, ThreadOK
  <2>2. Shadow(thread[t].doc, job[thread[t].doc]) \in ShadowRecords BY <2>1, Known, ShadowTypes
  <2> QED BY <1>1, <1>3, <1>5, <2>2 DEF WriteShadowFile
<1>6. CASE RemoveSpool(t) BY <1>0, <1>1, <1>6 DEF RemoveSpool, DiskTypes
<1>7. CASE \/ Cancelled(t) \/ ShadowDeleted(t) \/ FreeId(t) \/ CloseShadowFile(t) \/ Reenter(t)
  BY <1>2, <1>7 DEF Cancelled, ShadowDeleted, FreeId, CloseShadowFile, Reenter
<1> QED BY <1>1, <1>4, <1>5, <1>6, <1>7 DEF FileStep

\* ... of a client,
LEMMA ClientDisk ==
  ASSUME StartDocOnly, StoreInv, NEW c \in Clients, ClientStep(c)
  PROVE  DiskTypes' /\ HistoryTypes'
<1>0. /\ DiskTypes /\ HistoryTypes /\ thread[c].id \in Ids /\ ThreadOK(c)
  BY Known, TypesParts DEF StoreInv, ThreadRecords, Threads
<1>1. ASSUME UNCHANGED disk PROVE DiskTypes' BY <1>0, <1>1 DEF disk, DiskTypes
<1>2. ASSUME UNCHANGED history PROVE HistoryTypes' BY <1>0, <1>2 DEF history, HistoryTypes
<1>3. CASE CreateSpoolFile(c)
  <2>1. thread[c].doc \in Docs BY <1>0, <1>3 DEF CreateSpoolFile, At, ThreadOK
  <2>2. spool' \in [Ids -> Docs \cup {NoDoc}]
    BY <1>0, <1>3, <2>1 DEF CreateSpoolFile, DiskTypes
  <2> QED BY <1>0, <1>2, <1>3, <2>2 DEF CreateSpoolFile, DiskTypes
<1>4. CASE SpoolThisJobFails(c) BY <1>0, <1>2, <1>4 DEF SpoolThisJobFails, DiskTypes
<1>5. CASE SpoolThisJob(c) \/ EndDocPrinter(c) \/ ClosePrinter(c) \/ Closed(c) \/ UnblockJobs(c)
  BY <1>1, <1>2, <1>5 DEF SpoolThisJob, EndDocPrinter, ClosePrinter, Closed, UnblockJobs
<1>6. ASSUME NEW d \in Docs, StartDocPrinter(c, d) PROVE DiskTypes' /\ HistoryTypes'
  BY <1>1, <1>2, <1>6 DEF StartDocPrinter
<1>7. ASSUME NEW d \in Docs, DeleteByUser(c, d) \/ RestartJob(c, d) PROVE DiskTypes' /\ HistoryTypes'
  <2>1. /\ UNCHANGED <<disk, crashes, died>>
        /\ \E x \in {"DELETE", "RESTART"} : asked' = [asked EXCEPT ![d] = @ \cup {x}] \/ UNCHANGED asked
    BY <1>7 DEF DeleteByUser, RestartJob
  <2> QED BY <1>0, <1>1, <2>1 DEF HistoryTypes
<1> QED BY <1>3, <1>4, <1>5, <1>6, <1>7, ClientCases

\* ... and of the port.
LEMMA PortDisk ==
  ASSUME StoreInv, PortStep
  PROVE  DiskTypes' /\ HistoryTypes'
<1>1. UNCHANGED <<disk, history>>
  BY DEF PortStep, AssignJob, PortBegins, PortQueries, PortSends, PortStops, PortEnds
<1> QED BY <1>1, TypesParts DEF StoreInv, DiskTypes, HistoryTypes, disk, history

----------------------------------------------------------------------------
(* At the start and after a crash nobody refers to a job.                   *)

NobodyAround ==
  /\ Types
  /\ \A t \in Threads : thread[t] = Idle
  /\ \A c \in Clients : handle[c] = NewHandle
  /\ \A d \in Docs : job[d].cRef = 0 /\ ~ Despools(d)
  /\ dwCurrentJobId < dwMaxJobId /\ \A i \in idMap : i < dwMaxJobId
  /\ \A d \in Queued : job[d].JobId \in idMap
  /\ \A d, e \in Queued : job[d].JobId = job[e].JobId => d = e

\* The counts are 0 then and the invariant holds.
LEMMA NobodyOK == NobodyAround => StoreInv
<1> SUFFICES ASSUME NobodyAround PROVE StoreInv OBVIOUS
<1> USE DEF NobodyAround
<1>1. /\ \A t \in Threads : thread[t].pc = "idle"
      /\ \A c \in Clients : HandleOK(c) /\ ~ handle[c].STARTDOC
  BY DEF Idle, NewHandle, HandleOK
<1>2. RefsExact
  <2>1. SUFFICES ASSUME NEW d \in Docs
                 PROVE  job[d].cRef = Cardinality(Callers(d)) + Cardinality(Spoolers(d))
                                        + One(Despools(d)) + One(Keeps(thread[Port], d))
    BY DEF RefsExact
  <2>2. Callers(d) = {} BY <1>1 DEF Callers, Calls, CallPcs
  <2>3. Spoolers(d) = {} BY <1>1 DEF Spoolers, Spools
  <2>4. ~ Keeps(thread[Port], d) BY <1>1 DEF Keeps, WritePcs, Threads
  <2> QED BY <2>1, <2>2, <2>3, <2>4, FS_EmptySet DEF One
<1>3. RefsQueued BY DEF RefsQueued
<1>4. ThreadsOK
  BY <1>1 DEF ThreadsOK, SubmitsAlone, ThreadOK, PortBusy, CallPcs, WritePcs, RemovePcs, SubmitPcs,
              PortPcs, ClientPcs
<1>5. HandlesOK BY <1>1 DEF HandlesOK
<1>6. IdsOK BY <1>1 DEF IdsOK, HoldsId
<1> QED BY <1>2, <1>3, <1>4, <1>5, <1>6 DEF StoreInv

\* The initial values have their types.
LEMMA NothingTypes ==
  NoJob \in JobRecords /\ NewHandle \in HandleRecords /\ Idle \in ThreadRecords
  /\ NoShadow \in ShadowRecords
<1>1. 0 \in Ids BY ConstantsAssumption DEF Ids
<1> QED BY <1>1 DEF NoJob, NewHandle, Idle, NoShadow, JobRecords, HandleRecords, ThreadRecords,
                    ShadowRecords, Pcs

\* So it is at the start.
LEMMA InitStore == Init => StoreInv
<1> SUFFICES ASSUME Init PROVE StoreInv OBVIOUS
<1>1. Types
  <2>1. CoreTypes
    <3>1. 1 \in Ids /\ MinIds \in 1 .. MaxIds + 1 BY ConstantsAssumption DEF Ids
    <3> QED BY <3>1, NothingTypes DEF Init, CoreTypes
  <2>2. DiskTypes /\ HistoryTypes BY NothingTypes DEF Init, DiskTypes, HistoryTypes
  <2> QED BY <2>1, <2>2, TypesParts
<1>2. \A d \in Docs : job[d].cRef = 0 /\ ~ Despools(d) /\ job[d].state = "new"
  BY DEF Init, NoJob, Despools
<1>3. Queued = {} BY <1>2 DEF Queued
<1>4. dwCurrentJobId < dwMaxJobId BY ConstantsAssumption DEF Init
<1> QED BY <1>1, <1>2, <1>3, <1>4, NobodyOK DEF Init, NobodyAround

\* Of the jobs that are read again each has the id of its file.
LEMMA CrashOK ==
  ASSUME StoreInv, Crash
  PROVE  StoreInv'
<1> DEFINE read == {i \in Ids : Readable(i)}
           id(d) == CHOOSE i \in read : shadow[i].doc = d
           Found(d) == \E i \in read : shadow[i].doc = d
<1>1. /\ CoreTypes /\ DiskTypes /\ HistoryTypes /\ read \subseteq Ids
  BY TypesParts DEF StoreInv
<1>2. Restart BY DEF Crash
<1>3. ASSUME NEW d \in Docs
      PROVE  \/ /\ Found(d) /\ id(d) \in read /\ shadow[id(d)].doc = d
                /\ job'[d] = ReadShadowJob(id(d))
             \/ job'[d] = NoJob \/ job'[d] = [NoJob EXCEPT !.state = "gone"]
  <2>1. job'[d] = IF Found(d) THEN ReadShadowJob(id(d))
                  ELSE IF job[d].state = "new" THEN NoJob ELSE [NoJob EXCEPT !.state = "gone"]
    BY <1>2, <1>3 DEF Restart
  <2>2. CASE Found(d)
    <3>1. id(d) \in read /\ shadow[id(d)].doc = d BY <2>2
    <3>2. job'[d] = ReadShadowJob(id(d)) BY <2>1, <2>2
    <3> QED BY <2>2, <3>1, <3>2
  <2>3. CASE ~ Found(d) BY <2>1, <2>3
  <2> QED BY <2>2, <2>3
<1>4. ASSUME NEW i \in Ids
      PROVE  /\ ReadShadowJob(i) \in JobRecords /\ ReadShadowJob(i).cRef = 0
             /\ ReadShadowJob(i).JobId = i /\ "DESPOOLING" \notin ReadShadowJob(i).Status
  <2>1. shadow[i].dwReboots \in Int /\ shadow[i].Status \cap {"PRINTED"} \in SUBSET Flags
    BY <1>1, <1>4 DEF DiskTypes, ShadowRecords
  <2>2. "DESPOOLING" \notin shadow[i].Status \cap {"PRINTED"} OBVIOUS
  <2> QED BY <1>4, <2>1, <2>2 DEF ReadShadowJob, JobRecords
<1>5. /\ [NoJob EXCEPT !.state = "gone"] \in JobRecords
      /\ [NoJob EXCEPT !.state = "gone"].cRef = 0 /\ [NoJob EXCEPT !.state = "gone"].Status = {}
      /\ [NoJob EXCEPT !.state = "gone"].state = "gone"
      /\ NoJob.cRef = 0 /\ NoJob.Status = {} /\ NoJob.state = "new"
  BY NothingTypes DEF NoJob, JobRecords
<1>6. /\ \A t \in Threads : thread'[t] = Idle
      /\ \A c \in Clients : handle'[c] = NewHandle
      /\ thread' \in [Threads -> ThreadRecords] /\ handle' \in [Clients -> HandleRecords]
  BY <1>2, NothingTypes DEF Restart
<1>7. /\ idMap' = read /\ dwCurrentJobId' = 1 /\ dwMaxJobId' \in 1 .. MaxIds + 1
      /\ dwCurrentJobId' < dwMaxJobId' /\ \A i \in read : i < dwMaxJobId'
  <2>1. /\ idMap' = read /\ dwCurrentJobId' = 1
        /\ dwMaxJobId' \in {i + 1 : i \in read} \cup {MinIds}
        /\ MinIds <= dwMaxJobId' /\ \A i \in read : i < dwMaxJobId'
    BY <1>2 DEF Restart
  <2>2. \A i \in read : i + 1 \in 1 .. MaxIds + 1 BY ConstantsAssumption DEF Ids
  <2>3. MinIds \in 1 .. MaxIds + 1 BY ConstantsAssumption
  <2>4. dwMaxJobId' \in 1 .. MaxIds + 1 BY <2>1, <2>2, <2>3
  <2>5. 1 < dwMaxJobId' BY <2>1, <2>4, ConstantsAssumption
  <2> QED BY <2>1, <2>4, <2>5
<1>8. /\ spool' = [i \in Ids |-> IF i \in read THEN spool[i] ELSE NoDoc]
      /\ shadow' = [i \in Ids |-> IF i \in read \/ spool[i] = NoDoc THEN shadow[i] ELSE NoShadow]
      /\ \E f : job' = [d \in Docs |-> f[d]]
  <2>1. \E f : job' = [d \in Docs |-> f[d]]
    <3> DEFINE f == [d \in Docs |->
                       IF Found(d) THEN ReadShadowJob(id(d))
                       ELSE IF job[d].state = "new" THEN NoJob ELSE [NoJob EXCEPT !.state = "gone"]]
    <3>1. job' = f BY <1>2 DEF Restart
    <3>2. job' = [d \in Docs |-> f[d]] BY <3>1
    <3> QED BY <3>2
  <2> QED BY <1>2, <2>1 DEF Restart
<1> HIDE DEF read, id, Found
<1>9. ASSUME NEW d \in Docs
      PROVE  /\ job'[d] \in JobRecords /\ job'[d].cRef = 0 /\ ~ Despools(d)'
             /\ job'[d].state = "queued" =>
                  job'[d].JobId \in read /\ shadow[job'[d].JobId].doc = d
  <2>1. CASE /\ id(d) \in read /\ shadow[id(d)].doc = d /\ job'[d] = ReadShadowJob(id(d))
    <3>1. id(d) \in Ids BY <1>1, <2>1
    <3> QED BY <1>4, <2>1, <3>1 DEF Despools
  <2>2. CASE job'[d] = NoJob \/ job'[d] = [NoJob EXCEPT !.state = "gone"]
    BY <1>5, <2>2, NothingTypes DEF Despools
  <2> QED BY <1>3, <2>1, <2>2
<1>10. DiskTypes' BY <1>1, <1>8, NothingTypes DEF DiskTypes
<1>11. HistoryTypes'
  <2>1. /\ crashes' = crashes + 1 /\ UNCHANGED asked
        /\ died' = [d \in Docs |-> IF thread[Port].doc = d /\ thread[Port].pc = "printing"
                                     THEN died[d] + 1 ELSE died[d]]
    BY DEF Crash
  <2> QED BY <1>1, <2>1 DEF HistoryTypes
<1>12. CoreTypes'
  <2>1. job' \in [Docs -> JobRecords] BY <1>8, <1>9
  <2>2. 1 \in Ids BY ConstantsAssumption DEF Ids
  <2> QED BY <1>1, <1>6, <1>7, <2>1, <2>2 DEF CoreTypes
<1>13. Types' BY <1>10, <1>11, <1>12 DEF Types, CoreTypes, DiskTypes, HistoryTypes
<1>14. \A d \in Queued' : job'[d].JobId \in idMap' BY <1>7, <1>9 DEF Queued
<1>15. \A d, e \in Queued' : job'[d].JobId = job'[e].JobId => d = e BY <1>9 DEF Queued
<1>16. NobodyAround' BY <1>6, <1>7, <1>9, <1>13, <1>14, <1>15 DEF NobodyAround, Threads
<1> QED BY <1>16, NobodyOK, PTL

----------------------------------------------------------------------------
(* Every step.                                                              *)

\* The invariant is inductive.
LEMMA StoreStep ==
  ASSUME StartDocOnly, StoreInv, [Next]_vars
  PROVE  StoreInv'
<1>1. ASSUME NEW t \in Threads, NEW d, StepOK(t, d), DiskTypes', HistoryTypes' PROVE StoreInv'
  <2>1. CoreTypes' BY <1>1 DEF StepOK, Moves
  <2>2. Types' BY <1>1, <2>1 DEF Types, CoreTypes, DiskTypes, HistoryTypes
  <2> QED BY <1>1, <2>2, StepPreserves
<1>2. ASSUME NEW t \in Threads, FileStep(t) PROVE StoreInv' BY <1>1, <1>2, FileSteps, FileDisk
<1>3. ASSUME NEW c \in Clients, ClientStep(c) PROVE StoreInv'
  <2>1. CASE \E d : StepOK(c, d) BY <1>1, <1>3, <2>1, ClientDisk DEF Threads
  <2>2. CASE UnblockJobs(c) \/ \E d \in Docs : RestartJob(c, d)
    <3>1. /\ UNCHANGED <<mapVars, handle, thread>> /\ job' \in [Docs -> JobRecords]
          /\ \A d \in Docs : /\ job'[d].state = job[d].state /\ job'[d].JobId = job[d].JobId
                             /\ job'[d].cRef = job[d].cRef /\ (Despools(d)' <=> Despools(d))
      BY <2>2, UserSteps
    <3>2. CoreTypes' BY <3>1, Known DEF CoreTypes, mapVars
    <3>3. Types' BY <1>3, <3>2, ClientDisk DEF Types, CoreTypes, DiskTypes, HistoryTypes
    <3> QED BY <3>1, <3>3, SameRefs
  <2> QED BY <1>3, <2>1, <2>2, ClientSteps
<1>4. CASE PortStep BY <1>1, <1>4, PortSteps, PortDisk DEF Threads
<1>5. CASE Crash BY <1>5, CrashOK
<1>6. CASE UNCHANGED vars
  <2>1. /\ UNCHANGED <<mapVars, handle, thread>> /\ job' = job
        /\ spool' = spool /\ shadow' = shadow
        /\ crashes' = crashes /\ died' = died /\ asked' = asked
    BY <1>6 DEF vars, disk, history
  <2>2. Types' BY <2>1 DEF StoreInv, Types, mapVars
  <2>3. \A d \in Docs : Despools(d)' <=> Despools(d) BY <2>1 DEF Despools
  <2> QED BY <2>1, <2>2, <2>3, SameRefs
<1> QED BY <1>2, <1>3, <1>4, <1>5, <1>6 DEF Next

\* It implies that ids are unique.
LEMMA IdsAreUnique == StoreInv => JobIdsUnique
<1> SUFFICES ASSUME IdsOK, NEW i \in Ids
             PROVE  /\ \A x, y \in Holders(i) : x = y
                    /\ Holders(i) # {} => i \in idMap
  BY DEF StoreInv, JobIdsUnique
<1>1. ASSUME NEW d \in FindJob(i) PROVE i \in idMap /\ \A e \in FindJob(i) : d = e
  BY DEF IdsOK, FindJob
<1>2. ASSUME NEW t \in Threads, HoldsId(t, i)
      PROVE  i \in idMap /\ FindJob(i) = {} /\ \A u \in Threads : HoldsId(u, i) => t = u
  BY <1>2 DEF IdsOK
<1>3. \A x \in Holders(i) : x \in FindJob(i) \/ (x \in Threads /\ HoldsId(x, i)) BY DEF Holders
<1> QED BY <1>1, <1>2, <1>3

\* A job id names one job at a time, and is marked as long as it is used: where
\* documents come by StartDocPrinter (spooler.c 741, without a handle of the spool
\* file) and the bitmap can grow, DeleteJob (job.c 1990) and SpoolThisJob give no id
\* away that someone still uses, whatever is done to the jobs and whenever the
\* spooler goes down.
THEOREM IdsUnique ==
  ASSUME StartDocOnly
  PROVE  Spec => []JobIdsUnique
BY InitStore, StoreStep, IdsAreUnique, PTL DEF Spec

----------------------------------------------------------------------------
(***************************************************************************)
(* The two counts of a job that are unsigned in the code, its references   *)
(* and the attempts at printing it, never go below zero.  The count of     *)
(* references is exact, as above.  That of the attempts goes down          *)
(* when the port keeps a job, after it went up, or was up already, when    *)
(* the port began.                                                         *)
(***************************************************************************)

\* The port thread has begun its attempt at a document and has not ended it.
Attempting(r) ==
  \/ r.pc \in PortPcs \ {"assigned"}
  \/ r.pc \in WritePcs /\ r.then = "query"
  \/ r.pc \in CallPcs /\ r.then = "sent"

Attempted(d) == d \in Docs /\ (d \in Emf => job[d].dwReboots >= 1)

RebootsOK ==
  /\ \A d \in Docs : job[d].dwReboots >= 0
  /\ \A i \in Ids : shadow[i].dwReboots >= 0
  /\ Attempting(thread[Port]) => Attempted(thread[Port].doc)

----------------------------------------------------------------------------
(* What the steps do to the attempts.                                       *)

\* The job of document d has n of them now, the others what they had.
Reboots(d, n) ==
  \A e \in Docs : job'[e].dwReboots = IF e = d THEN n ELSE job[e].dwReboots
RebootsSame == \A e \in Docs : job'[e].dwReboots = job[e].dwReboots

\* One job is written.
LEMMA SetJobReboots ==
  ASSUME StoreInv, NEW d \in Docs, NEW k, SetJob(d, k)
  PROVE  Reboots(d, k.dwReboots)
BY Known DEF CoreTypes, SetJob, Reboots

\* DeleteJob leaves the attempts alone, and what it leaves its thread to do.
LEMMA DeletesReboots ==
  ASSUME StoreInv, NEW t \in Threads, NEW d \in Docs, NEW j \in JobRecords, NEW then,
         Deletes(t, d, j, then)
  PROVE  /\ Reboots(d, j.dwReboots)
         /\ \/ thread'[t] = Resumed(t, then)
            \/ /\ thread'[t].doc = d /\ thread'[t].then = then
               /\ thread'[t].pc \in {"cancel", "deleteShadow", "removeShadow", "removeSpool"}
<1>1. /\ \A s : [j EXCEPT !.Status = s].dwReboots = j.dwReboots
      /\ \A s : [j EXCEPT !.Status = s, !.cRef = @ + 1].dwReboots = j.dwReboots
      /\ \A s : [j EXCEPT !.Status = s, !.state = "gone"].dwReboots = j.dwReboots
  BY DEF JobRecords
<1>2. \E k : SetJob(d, k) /\ k.dwReboots = j.dwReboots
  <2>1. PICK s \in SUBSET Flags :
          \/ SetJob(d, [j EXCEPT !.Status = s])
          \/ SetJob(d, [j EXCEPT !.Status = s, !.cRef = @ + 1])
          \/ SetJob(d, [j EXCEPT !.Status = s, !.state = "gone"])
    BY DEF Deletes
  <2>2. CASE SetJob(d, [j EXCEPT !.Status = s])
    <3> DEFINE k == [j EXCEPT !.Status = s]
    <3>1. SetJob(d, k) /\ k.dwReboots = j.dwReboots BY <1>1, <2>2
    <3> HIDE DEF k
    <3> QED BY <3>1
  <2>3. CASE SetJob(d, [j EXCEPT !.Status = s, !.cRef = @ + 1])
    <3> DEFINE k == [j EXCEPT !.Status = s, !.cRef = @ + 1]
    <3>1. SetJob(d, k) /\ k.dwReboots = j.dwReboots BY <1>1, <2>3
    <3> HIDE DEF k
    <3> QED BY <3>1
  <2>4. CASE SetJob(d, [j EXCEPT !.Status = s, !.state = "gone"])
    <3> DEFINE k == [j EXCEPT !.Status = s, !.state = "gone"]
    <3>1. SetJob(d, k) /\ k.dwReboots = j.dwReboots BY <1>1, <2>4
    <3> HIDE DEF k
    <3> QED BY <3>1
  <2> QED BY <2>1, <2>2, <2>3, <2>4
<1>3. Reboots(d, j.dwReboots) BY <1>2, SetJobReboots
<1>4. thread \in [Threads -> ThreadRecords] BY Known DEF CoreTypes
<1>5. \/ Resume(t, then)
      \/ \E pc \in {"cancel", "deleteShadow", "removeShadow", "removeSpool"} :
           thread' = [thread EXCEPT ![t] = [pc |-> pc, doc |-> d, id |-> j.JobId, then |-> then]]
  BY DEF Deletes
<1> QED BY <1>3, <1>4, <1>5 DEF Resume

\* A port thread that is done with a job attempts nothing.
LEMMA DeletesAttempts ==
  ASSUME StoreInv, NEW d \in Docs, NEW j \in JobRecords, Deletes(Port, d, j, "idle")
  PROVE  ~ Attempting(thread'[Port])
<1>1. \/ thread'[Port] = Resumed(Port, "idle")
      \/ /\ thread'[Port].then = "idle"
         /\ thread'[Port].pc \in {"cancel", "deleteShadow", "removeShadow", "removeSpool"}
  BY DeletesReboots DEF Threads
<1>2. Resumed(Port, "idle").pc = "idle" BY DEF Resumed, Idle
<1> QED BY <1>1, <1>2 DEF Attempting, PortPcs, WritePcs, CallPcs

\* EndDocPrinter leaves them alone.
LEMMA EndDocReboots ==
  ASSUME StoreInv, NEW t \in Threads, NEW d \in Docs, NEW j \in JobRecords, EndDocPrinterRest(t, d, j)
  PROVE  Reboots(d, j.dwReboots)
<1> DEFINE k == [j EXCEPT !.cRef = @ - 1]
<1>1. k \in JobRecords /\ k.dwReboots = j.dwReboots BY DEF JobRecords
<1>2. DeleteJob(t, d, k, "idle") \/ SetJob(d, k) BY DEF EndDocPrinterRest
<1> HIDE DEF k
<1> QED BY <1>1, <1>2, DeleteJobDeletes, DeletesReboots, SetJobReboots

\* So does RemoveIniPortFromIniJob, after which the port attempts nothing.
LEMMA RemovePortReboots ==
  ASSUME StoreInv, NEW t \in Threads, NEW d \in Docs, NEW j \in JobRecords,
         RemoveIniPortFromIniJob(t, d, j)
  PROVE  Reboots(d, j.dwReboots) /\ (t = Port => ~ Attempting(thread'[Port]))
<1> DEFINE s == j.Status \ ({"DESPOOLING"} \cup IF "RESTART" \in j.Status
                                                 THEN {"PRINTED", "BLOCKED_DEVQ"} ELSE {})
           n == j.cRef - 1
           k == [j EXCEPT !.cRef = n, !.Status = s]
<1>1. s \in SUBSET Flags
  <2>1. j.Status \in SUBSET Flags BY DEF JobRecords
  <2>2. \A x : j.Status \ x \in SUBSET Flags BY <2>1
  <2> QED BY <2>2
<1>2. n \in Int BY DEF JobRecords
<1>3. DeleteJobCheck(t, d, k, "idle") BY DEF RemoveIniPortFromIniJob
<1> HIDE DEF s, n
<1>4. k \in JobRecords /\ k.dwReboots = j.dwReboots BY <1>1, <1>2 DEF JobRecords
<1> HIDE DEF k
<1> QED BY <1>3, <1>4, DeleteJobCheckDeletes, DeletesReboots, DeletesAttempts

\* After its shadow file is written, or when it need not be, an attempt goes on
\* or the port is done.
LEMMA WritesReboots ==
  ASSUME StoreInv, NEW t \in Threads, NEW d \in Docs, NEW j \in JobRecords,
         NEW then \in {"endDoc", "query", "kept"}, then = "endDoc" => t # Port,
         ShadowWritten(t, d, j, then) \/ WriteShadowJob(t, d, j, then)
  PROVE  /\ Reboots(d, j.dwReboots)
         /\ t = Port /\ Attempting(thread'[Port]) => then = "query" /\ thread'[Port].doc = d
<1>0. thread \in [Threads -> ThreadRecords] BY Known DEF CoreTypes
<1>1. CASE ShadowWritten(t, d, j, then)
  <2>1. CASE then = "endDoc" BY <1>1, <2>1, EndDocReboots DEF ShadowWritten
  <2>2. CASE then = "query"
    <3>1. SetJob(d, j) /\ thread' = [thread EXCEPT ![t] = [Idle EXCEPT !.pc = "query", !.doc = d]]
      BY <1>1, <2>2 DEF ShadowWritten
    <3> QED BY <1>0, <2>2, <3>1, SetJobReboots DEF Idle
  <2>3. CASE then = "kept"
    <3> DEFINE k == [j EXCEPT !.cRef = @ - 1]
    <3>1. k \in JobRecords /\ k.dwReboots = j.dwReboots BY DEF JobRecords
    <3>2. RemoveIniPortFromIniJob(t, d, k) BY <1>1, <2>3 DEF ShadowWritten
    <3> HIDE DEF k
    <3> QED BY <3>1, <3>2, RemovePortReboots
  <2> QED BY <2>1, <2>2, <2>3
<1>2. CASE WriteShadowJob(t, d, j, then) /\ ~ ShadowWritten(t, d, j, then)
  <2>1. /\ SetJob(d, j)
        /\ thread' = [thread EXCEPT ![t] = [pc |-> "createFile", doc |-> d,
                                            id |-> j.JobId, then |-> then]]
    BY <1>2 DEF WriteShadowJob
  <2>2. thread'[t].pc = "createFile" /\ thread'[t].doc = d /\ thread'[t].then = then
    BY <1>0, <2>1
  <2>3. t = Port /\ Attempting(thread'[Port]) => then = "query"
    BY <2>2 DEF Attempting, PortPcs, CallPcs
  <2> QED BY <2>1, <2>2, <2>3, SetJobReboots
<1> QED BY <1>1, <1>2

----------------------------------------------------------------------------
(* The steps that touch files.                                              *)

\* The attempt of thread t, if it is in one, is one that it was in.
SameAttempt(t) ==
  Attempting(thread'[t]) => Attempting(thread[t]) /\ thread'[t].doc = thread[t].doc

\* A thread within DeleteJob or WriteShadowJob stays in its attempt.
LEMMA GoToAttempt ==
  ASSUME StoreInv, NEW t \in Threads, NEW K \in {CallPcs, WritePcs}, thread[t].pc \in K,
         NEW pc \in K, GoTo(t, pc)
  PROVE  SameAttempt(t)
<1>1. thread[t] \in ThreadRecords /\ thread'[t] = [thread[t] EXCEPT !.pc = pc]
  BY Known DEF CoreTypes, GoTo
<1>2. /\ thread'[t].pc = pc /\ thread'[t].then = thread[t].then /\ thread'[t].doc = thread[t].doc
  BY <1>1 DEF ThreadRecords
<1>3. CASE K = CallPcs BY <1>2, <1>3 DEF SameAttempt, Attempting, PortPcs, WritePcs, CallPcs
<1>4. CASE K = WritePcs BY <1>2, <1>4 DEF SameAttempt, Attempting, PortPcs, WritePcs, CallPcs
<1> QED BY <1>3, <1>4

\* DeleteJob returns to the attempt it was called from.
LEMMA ResumeAttempt ==
  ASSUME StoreInv, NEW t \in Threads, thread[t].pc \in CallPcs \cup RemovePcs
  PROVE  Attempting(Resumed(t, thread[t].then)) =>
           /\ Attempting(thread[t]) /\ thread[t].then = "sent"
           /\ Resumed(t, thread[t].then).doc = thread[t].doc
<1>1. /\ thread[t] \in ThreadRecords /\ thread[t].then \in {"idle", "sent"}
      /\ thread[t].pc \in RemovePcs => thread[t].then = "idle"
  <2>1. ThreadOK(t) /\ thread[t] \in ThreadRecords BY Known
  <2> QED BY <2>1 DEF ThreadOK
<1>2. CASE thread[t].then = "idle"
  <2>1. Resumed(t, "idle").pc = "idle" BY DEF Resumed, Idle
  <2> QED BY <1>2, <2>1 DEF Attempting, PortPcs, WritePcs, CallPcs
<1>3. CASE thread[t].then = "sent"
  <2>1. Resumed(t, "sent").doc = thread[t].doc BY <1>1 DEF Resumed, ThreadRecords
  <2>2. thread[t].pc \in CallPcs BY <1>1, <1>3
  <2> QED BY <1>3, <2>1, <2>2 DEF Attempting
<1> QED BY <1>1, <1>2, <1>3

\* The steps of DeleteJob with a reference: after Control,
LEMMA CancelledReboots ==
  ASSUME StoreInv, NEW t \in Threads, Cancelled(t)
  PROVE  RebootsSame /\ SameAttempt(t)
<1> DEFINE d == thread[t].doc
           n == job[d].cRef - 1
           j == [job[d] EXCEPT !.cRef = n]
<1>0. thread[t].pc = "cancel" /\ thread[t].pc \in CallPcs /\ ThreadOK(t)
  BY Known DEF Cancelled, At, CallPcs
<1>1. d \in Docs /\ job[d] \in JobRecords BY <1>0, Known DEF ThreadOK
<1>2. j \in JobRecords /\ j.dwReboots = job[d].dwReboots
  <2>1. n \in Int BY <1>1 DEF JobRecords
  <2> HIDE DEF n
  <2> QED BY <1>1, <2>1 DEF JobRecords
<1>3. DeleteUnlessPrinting(t, d, j, thread[t].then) BY DEF Cancelled
<1> HIDE DEF j
<1>4. /\ Reboots(d, j.dwReboots)
      /\ \/ thread'[t] = Resumed(t, thread[t].then)
         \/ /\ thread'[t].doc = d /\ thread'[t].then = thread[t].then
            /\ thread'[t].pc \in {"cancel", "deleteShadow", "removeShadow", "removeSpool"}
  BY <1>1, <1>2, <1>3, DeleteUnlessPrintingDeletes, DeletesReboots
<1>5. RebootsSame BY <1>2, <1>4 DEF Reboots, RebootsSame
<1>6. CASE thread'[t] = Resumed(t, thread[t].then)
  BY <1>0, <1>5, <1>6, ResumeAttempt DEF SameAttempt
<1>7. CASE /\ thread'[t].doc = d /\ thread'[t].then = thread[t].then
           /\ thread'[t].pc \in {"cancel", "deleteShadow", "removeShadow", "removeSpool"}
  BY <1>0, <1>5, <1>7 DEF SameAttempt, Attempting, PortPcs, WritePcs, CallPcs
<1> QED BY <1>4, <1>6, <1>7

\* ... and after the shadow file.
LEMMA ShadowDeletedReboots ==
  ASSUME StoreInv, NEW t \in Threads, ShadowDeleted(t)
  PROVE  RebootsSame /\ SameAttempt(t)
<1> DEFINE d == thread[t].doc
           n == job[d].cRef - 1
           s == IF At(t, "shadowKept") THEN job[d].Status \ {"SHADOW_DELETED"} ELSE job[d].Status
           j == [job[d] EXCEPT !.cRef = n, !.Status = s]
<1>0. thread[t].pc \in CallPcs /\ thread[t].pc \notin {"idle", "close"} /\ ThreadOK(t)
  BY Known DEF ShadowDeleted, At, CallPcs
<1>1. d \in Docs /\ job[d] \in JobRecords BY <1>0, Known DEF ThreadOK
<1>2. SetJob(d, j) /\ Resume(t, thread[t].then) BY DEF ShadowDeleted
<1> HIDE DEF n, s
<1>3. j.dwReboots = job[d].dwReboots BY <1>1 DEF JobRecords
<1> HIDE DEF j
<1>4. Reboots(d, job[d].dwReboots) BY <1>1, <1>2, <1>3, SetJobReboots
<1>5. thread'[t] = Resumed(t, thread[t].then) BY <1>2, Known DEF Resume, CoreTypes
<1> QED BY <1>0, <1>4, <1>5, ResumeAttempt DEF Reboots, RebootsSame, SameAttempt

\* WriteShadowJob returns to the attempt it was called from.
LEMMA ReenterReboots ==
  ASSUME StoreInv, NEW t \in Threads, Reenter(t)
  PROVE  RebootsSame /\ (t = Port => SameAttempt(t))
<1> DEFINE d == thread[t].doc
           s == IF At(t, "written") THEN job[d].Status \ {"SHADOW_DELETED"} ELSE job[d].Status
           j == [job[d] EXCEPT !.Status = s]
           then == thread[t].then
<1>0. thread[t].pc \in WritePcs /\ thread[t].pc \notin {"idle", "close"} /\ ThreadOK(t)
  BY Known DEF Reenter, WritePcs
<1>1. d \in Docs /\ job[d] \in JobRecords BY <1>0, Known DEF ThreadOK
<1>2. then \in {"endDoc", "query", "kept"} /\ (then = "endDoc" => t # Port) BY <1>0 DEF ThreadOK
<1>3. ShadowWritten(t, d, j, then) BY DEF Reenter
<1>4. s \in SUBSET Flags
  <2>1. job[d].Status \in SUBSET Flags BY <1>1 DEF JobRecords
  <2>2. job[d].Status \ {"SHADOW_DELETED"} \in SUBSET Flags BY <2>1
  <2> QED BY <2>1, <2>2
<1> HIDE DEF s
<1>5. j \in JobRecords /\ j.dwReboots = job[d].dwReboots BY <1>1, <1>4 DEF JobRecords
<1> HIDE DEF j
<1>6. /\ Reboots(d, j.dwReboots)
      /\ t = Port /\ Attempting(thread'[Port]) => then = "query" /\ thread'[Port].doc = d
  <2>1. then = "endDoc" => t # Port BY <1>2
  <2> HIDE DEF d, then
  <2> QED BY <1>1, <1>2, <1>3, <1>5, <2>1, WritesReboots
<1> QED BY <1>0, <1>5, <1>6 DEF Reboots, RebootsSame, SameAttempt, Attempting

\* No step at a file changes the attempts.
LEMMA FileReboots ==
  ASSUME StoreInv, NEW t \in Threads, FileStep(t)
  PROVE  RebootsSame /\ (t = Port => SameAttempt(t))
<1>1. CASE DeleteShadow(t)
  <2>1. thread[t].pc \in CallPcs /\ job' = job BY <1>1 DEF DeleteShadow, At, CallPcs
  <2>2. \E pc \in CallPcs : GoTo(t, pc) BY <1>1 DEF DeleteShadow, CallPcs
  <2> QED BY <2>1, <2>2, GoToAttempt DEF RebootsSame
<1>2. CASE CreateShadowFile(t) \/ WriteShadowFile(t) \/ CloseShadowFile(t)
  <2>1. thread[t].pc \in WritePcs /\ job' = job
    BY <1>2 DEF CreateShadowFile, WriteShadowFile, CloseShadowFile, At, WritePcs
  <2>2. \E pc \in WritePcs : GoTo(t, pc)
    BY <1>2 DEF CreateShadowFile, WriteShadowFile, CloseShadowFile, WritePcs
  <2> QED BY <2>1, <2>2, GoToAttempt DEF RebootsSame
<1>3. CASE RemoveShadow(t) \/ RemoveSpool(t) \/ FreeId(t)
  <2>1. thread[t].pc \in RemovePcs /\ job' = job
    BY <1>3 DEF RemoveShadow, RemoveSpool, FreeId, At, RemovePcs
  <2>2. GoTo(t, "removeSpool") \/ GoTo(t, "freeId") \/ Resume(t, thread[t].then)
    BY <1>3 DEF RemoveShadow, RemoveSpool, FreeId
  <2>3. thread'[t].pc \in {"removeSpool", "freeId"} \/ thread'[t] = Resumed(t, thread[t].then)
    BY <2>2, Known DEF GoTo, Resume, CoreTypes, ThreadRecords
  <2>4. CASE thread'[t].pc \in {"removeSpool", "freeId"}
    BY <2>1, <2>4 DEF RebootsSame, SameAttempt, Attempting, PortPcs, WritePcs, CallPcs
  <2>5. CASE thread'[t] = Resumed(t, thread[t].then)
    BY <2>1, <2>5, ResumeAttempt DEF RebootsSame, SameAttempt
  <2> QED BY <2>3, <2>4, <2>5
<1> QED BY <1>1, <1>2, <1>3, CancelledReboots, ShadowDeletedReboots, ReenterReboots DEF FileStep

----------------------------------------------------------------------------
(* The steps of clients and of the port thread.                             *)

\* A job keeps its attempts; one that is made has none.
ClientReboots ==
  \A e \in Docs : \/ job'[e].dwReboots = job[e].dwReboots
                  \/ job[e].state = "submitted" /\ job'[e].dwReboots = 0

\* Nor do EndDocPrinter,
LEMMA EndDocPrinterReboots ==
  ASSUME StoreInv, NEW c \in Clients, EndDocPrinter(c)
  PROVE  ClientReboots
<1> DEFINE d == handle[c].pIniJob
           s == job[d].Status \ {"SPOOLING"}
           j == [job[d] EXCEPT !.Status = s]
<1>0. c \in Threads /\ c # Port BY ConstantsAssumption DEF Threads
<1>1. d \in Docs /\ job[d] \in JobRecords BY Known DEF EndDocPrinter, HandleOK
<1>2. s \in SUBSET Flags BY <1>1 DEF JobRecords
<1>3. WriteShadowJob(c, d, j, "endDoc") BY DEF EndDocPrinter
<1> HIDE DEF s
<1>4. j \in JobRecords /\ j.dwReboots = job[d].dwReboots BY <1>1, <1>2 DEF JobRecords
<1> HIDE DEF j, d
<1>5. Reboots(d, j.dwReboots) BY <1>0, <1>1, <1>3, <1>4, WritesReboots
<1> QED BY <1>4, <1>5 DEF Reboots, ClientReboots

\* ... what a user does,
LEMMA UserReboots ==
  ASSUME StoreInv, NEW c \in Clients, NEW d \in Docs, DeleteByUser(c, d) \/ RestartJob(c, d)
  PROVE  ClientReboots
<1>0. c \in Threads /\ job[d] \in JobRecords BY Known DEF Threads
<1>1. \A s \in SUBSET Flags : /\ [job[d] EXCEPT !.Status = s] \in JobRecords
                              /\ [job[d] EXCEPT !.Status = s].dwReboots = job[d].dwReboots
  BY <1>0 DEF JobRecords
<1>2. CASE DeleteByUser(c, d)
  <2> DEFINE s == job[d].Status \ {"RESTART"}
             j == [job[d] EXCEPT !.Status = s]
  <2>1. s \in SUBSET Flags BY <1>0 DEF JobRecords
  <2>2. j \in JobRecords /\ j.dwReboots = job[d].dwReboots BY <1>1, <2>1
  <2>3. DeleteJob(c, d, j, "idle") BY <1>2 DEF DeleteByUser
  <2> HIDE DEF j
  <2>4. Reboots(d, j.dwReboots) BY <1>0, <2>2, <2>3, DeleteJobDeletes, DeletesReboots
  <2> QED BY <2>2, <2>4 DEF Reboots, ClientReboots
<1>3. CASE RestartJob(c, d)
  <2> DEFINE s == (job[d].Status \cup {"RESTART"}) \
                    IF "DESPOOLING" \in job[d].Status THEN {} ELSE {"PRINTED", "BLOCKED_DEVQ"}
             j == [job[d] EXCEPT !.Status = s]
  <2>1. SetJob(d, j) BY <1>3 DEF RestartJob
  <2> HIDE DEF s
  <2>2. j.dwReboots = job[d].dwReboots BY <1>0 DEF JobRecords
  <2> HIDE DEF j
  <2> QED BY <2>1, <2>2, SetJobReboots DEF Reboots, ClientReboots
<1> QED BY <1>2, <1>3

\* ... and StartDocPrinter, but for the job it makes.
LEMMA SubmitReboots ==
  ASSUME StoreInv, NEW c \in Clients,
         \/ CreateSpoolFile(c) \/ SpoolThisJob(c) \/ \E d \in Docs : StartDocPrinter(c, d)
  PROVE  ClientReboots
<1>1. ASSUME NEW d \in Docs, NEW x, SetJob(d, [job[d] EXCEPT !.state = x]) PROVE ClientReboots
  <2>1. [job[d] EXCEPT !.state = x].dwReboots = job[d].dwReboots BY Known DEF JobRecords
  <2> QED BY <1>1, <2>1, SetJobReboots DEF Reboots, ClientReboots
<1>2. CASE \E d \in Docs : StartDocPrinter(c, d) BY <1>1, <1>2 DEF StartDocPrinter
<1>3. CASE CreateSpoolFile(c) \/ SpoolThisJob(c)
  <2> DEFINE d == thread[c].doc
  <2>1. ThreadOK(c) /\ thread[c].pc \in SubmitPcs /\ thread[c].pc \notin {"idle", "close"}
    BY <1>3, Known DEF CreateSpoolFile, SpoolThisJob, At, SubmitPcs, Threads
  <2>2. d \in Docs /\ job[d].state = "submitted" BY <2>1 DEF ThreadOK
  <2>3. \/ UNCHANGED job \/ SetJob(d, [job[d] EXCEPT !.state = "gone"])
        \/ SetJob(d, NewJob(d, thread[c].id, {"SPOOLING"}))
    BY <1>3 DEF CreateSpoolFile, SpoolThisJob
  <2>4. CASE UNCHANGED job BY <2>4 DEF ClientReboots
  <2>5. CASE SetJob(d, [job[d] EXCEPT !.state = "gone"]) BY <1>1, <2>2, <2>5
  <2>6. CASE SetJob(d, NewJob(d, thread[c].id, {"SPOOLING"}))
    <3>1. NewJob(d, thread[c].id, {"SPOOLING"}).dwReboots = 0 BY DEF NewJob
    <3> QED BY <2>2, <2>6, <3>1, SetJobReboots DEF Reboots, ClientReboots
  <2> QED BY <2>3, <2>4, <2>5, <2>6
<1> QED BY <1>2, <1>3

\* So no step of a client touches a job that is attempted.
LEMMA ClientStepReboots ==
  ASSUME StartDocOnly, StoreInv, NEW c \in Clients, ClientStep(c)
  PROVE  ClientReboots /\ UNCHANGED shadow /\ thread'[Port] = thread[Port]
<1>1. ASSUME SpoolThisJobFails(c) \/ ClosePrinter(c) \/ Closed(c) PROVE ClientReboots
  BY <1>1 DEF SpoolThisJobFails, ClosePrinter, Closed, ClientReboots
<1>2. ASSUME UnblockJobs(c) PROVE ClientReboots
  <2>1. \A d \in Docs : /\ job'[d] = [job[d] EXCEPT !.Status = job[d].Status \ {"BLOCKED_DEVQ"}]
                        /\ job[d] \in JobRecords
    BY <1>2, Known DEF UnblockJobs
  <2>2. \A d \in Docs : job'[d].dwReboots = job[d].dwReboots BY <2>1 DEF JobRecords
  <2> QED BY <2>2 DEF ClientReboots
<1>3. ClientReboots
  BY <1>1, <1>2, ClientCases, SubmitReboots, EndDocPrinterReboots, UserReboots
<1>4. UNCHANGED shadow
  BY ClientCases DEF CreateSpoolFile, SpoolThisJob, SpoolThisJobFails, EndDocPrinter, ClosePrinter,
     Closed, UnblockJobs, StartDocPrinter, DeleteByUser, RestartJob, disk
<1>5. thread'[Port] = thread[Port]
  <2>1. Port \in Threads /\ c \in Threads /\ c # Port BY ConstantsAssumption DEF Threads
  <2>2. (\E d : StepOK(c, d)) \/ UNCHANGED thread BY ClientSteps, UserSteps
  <2> QED BY <2>1, <2>2 DEF StepOK, Moves
<1> QED BY <1>3, <1>4, <1>5

\* A kept job was attempted, so there is an attempt to take back.
LEMMA PortEndsReboots ==
  ASSUME StoreInv, RebootsOK, PortEnds
  PROVE  (\A d \in Docs : job'[d].dwReboots >= 0) /\ ~ Attempting(thread'[Port])
<1> DEFINE d == thread[Port].doc
           s == job[d].Status \cup IF At(Port, "refused") THEN {"BLOCKED_DEVQ"}
                                   ELSE IF "RESTART" \in job[d].Status THEN {} ELSE {"PRINTED"}
           j == [job[d] EXCEPT !.Status = s]
<1>0. thread[Port].pc \in PortPcs \ {"assigned"} /\ Port \in Threads
  BY DEF PortEnds, At, PortPcs, Threads
<1>1. d \in Docs /\ job[d] \in JobRecords BY <1>0, PortBusyKnown
<1>2. /\ \A e \in Docs : job[e].dwReboots >= 0 /\ job[e].dwReboots \in Int
      /\ d \in Emf => job[d].dwReboots >= 1
  BY <1>0, Known DEF RebootsOK, Attempting, Attempted, JobRecords
<1>3. s \in SUBSET Flags
  <2>1. job[d].Status \in SUBSET Flags BY <1>1 DEF JobRecords
  <2> QED BY <2>1 DEF Flags
<1>4. IF Keep THEN WriteShadowJob(Port, d, Kept(d, j), "kept") ELSE RemoveIniPortFromIniJob(Port, d, j)
  BY DEF PortEnds
<1> HIDE DEF s
<1>5. /\ j \in JobRecords /\ j.dwReboots = job[d].dwReboots
  BY <1>1, <1>3 DEF JobRecords
<1> HIDE DEF j
<1>6. CASE Keep
  <2> DEFINE u == (j.Status \ {"PENDING_DELETION"}) \cup {"PRINTED"}
             m == j.cRef + 1
             n == IF d \in Emf THEN j.dwReboots - 1 ELSE j.dwReboots
             k == [j EXCEPT !.Status = u, !.cRef = m, !.dwReboots = n]
  <2>1. k = Kept(d, j) BY DEF Kept
  <2>2. u \in SUBSET Flags
    <3>1. j.Status \in SUBSET Flags BY <1>5 DEF JobRecords
    <3> QED BY <3>1 DEF Flags
  <2>3. m \in Int BY <1>5 DEF JobRecords
  <2>4. n \in Int /\ n >= 0 BY <1>1, <1>2, <1>5 DEF JobRecords
  <2> HIDE DEF u, m, n
  <2>5. k \in JobRecords /\ k.dwReboots = n BY <1>5, <2>2, <2>3, <2>4 DEF JobRecords
  <2> HIDE DEF k
  <2>6. WriteShadowJob(Port, d, k, "kept") BY <1>4, <1>6, <2>1
  <2>7. Reboots(d, k.dwReboots) /\ ~ Attempting(thread'[Port])
    BY <1>0, <1>1, <2>5, <2>6, WritesReboots
  <2> QED BY <1>2, <2>4, <2>5, <2>7 DEF Reboots
<1>7. CASE ~ Keep
  <2>1. Reboots(d, j.dwReboots) /\ ~ Attempting(thread'[Port])
    BY <1>0, <1>1, <1>4, <1>5, <1>7, RemovePortReboots
  <2> QED BY <1>1, <1>2, <1>5, <2>1 DEF Reboots
<1> QED BY <1>6, <1>7

\* A job has an attempt when the port has begun.
LEMMA PortBeginsReboots ==
  ASSUME StoreInv, RebootsOK, PortBegins
  PROVE  /\ \A d \in Docs : job'[d].dwReboots >= 0
         /\ Attempting(thread'[Port]) => Attempted(thread[Port].doc)'
<1> DEFINE d == thread[Port].doc
           s == job[d].Status \ {"RESTART"}
           n == IF d \notin Emf \/ ("RESTART" \in job[d].Status /\ job[d].dwReboots > 0)
                THEN job[d].dwReboots ELSE job[d].dwReboots + 1
           j == [job[d] EXCEPT !.Status = s, !.dwReboots = n]
<1>0. thread[Port].pc \in PortPcs /\ Port \in Threads BY DEF PortBegins, At, PortPcs, Threads
<1>1. d \in Docs /\ job[d] \in JobRecords BY <1>0, PortBusyKnown
<1>2. \A e \in Docs : job[e].dwReboots >= 0 /\ job[e].dwReboots \in Int
  BY Known DEF RebootsOK, JobRecords
<1>3. s \in SUBSET Flags /\ n \in Int /\ n >= 0 /\ (d \in Emf => n >= 1)
  BY <1>1, <1>2 DEF JobRecords
<1>4. Attempt(d, job[d]) = j
  <2>1. job[d] = [job[d] EXCEPT !.dwReboots = job[d].dwReboots] BY <1>1 DEF JobRecords
  <2>2. CASE d \in Emf BY <2>2 DEF Attempt
  <2>3. CASE d \notin Emf BY <1>1, <2>3 DEF Attempt, JobRecords
  <2> QED BY <2>2, <2>3
<1>5. WriteShadowJob(Port, d, j, "query") \/ ShadowWritten(Port, d, j, "query")
  BY <1>4 DEF PortBegins
<1> HIDE DEF s, n
<1>6. j \in JobRecords /\ j.dwReboots = n BY <1>1, <1>3 DEF JobRecords
<1> HIDE DEF j
<1>7. Reboots(d, n) /\ (Attempting(thread'[Port]) => thread'[Port].doc = d)
  BY <1>0, <1>1, <1>5, <1>6, WritesReboots
<1>8. Attempting(thread'[Port]) => Attempted(d)' BY <1>1, <1>3, <1>7 DEF Reboots, Attempted
<1> QED BY <1>2, <1>3, <1>7, <1>8 DEF Reboots

AssignJobs == \E d \in Docs : AssignJob(d)

\* Between these the attempts stay.
LEMMA PortKeepsReboots ==
  ASSUME StoreInv, AssignJobs \/ PortQueries \/ PortSends \/ PortStops
  PROVE  RebootsSame /\ SameAttempt(Port)
<1>0. Port \in Threads /\ CoreTypes /\ thread[Port] \in ThreadRecords BY Known DEF Threads
<1> DEFINE d == thread[Port].doc
<1>1. ASSUME NEW e \in Docs, NEW s, SetJob(e, [job[e] EXCEPT !.Status = s]) PROVE RebootsSame
  <2>1. [job[e] EXCEPT !.Status = s].dwReboots = job[e].dwReboots BY Known DEF JobRecords
  <2> QED BY <1>1, <2>1, SetJobReboots DEF Reboots, RebootsSame
<1>2. ASSUME thread[Port].pc \in PortPcs \ {"assigned"}, NEW pc \in PortPcs \ {"assigned"}, GoTo(Port, pc)
      PROVE  SameAttempt(Port)
  <2>1. thread'[Port].doc = thread[Port].doc BY <1>0, <1>2 DEF GoTo, CoreTypes, ThreadRecords
  <2> QED BY <1>2, <2>1 DEF SameAttempt, Attempting
<1>3. CASE AssignJobs
  <2>1. PICK e \in Docs : AssignJob(e) BY <1>3 DEF AssignJobs
  <2> DEFINE s == job[e].Status \cup {"DESPOOLING"}
             n == job[e].cRef + 1
             k == [job[e] EXCEPT !.Status = s, !.cRef = n]
  <2>2. SetJob(e, k) BY <2>1 DEF AssignJob
  <2> HIDE DEF s, n
  <2>3. k.dwReboots = job[e].dwReboots BY Known DEF JobRecords
  <2> HIDE DEF k
  <2>4. RebootsSame BY <2>2, <2>3, SetJobReboots DEF Reboots, RebootsSame
  <2>5. thread'[Port] = [Idle EXCEPT !.pc = "assigned", !.doc = e] BY <1>0, <2>1 DEF AssignJob, CoreTypes
  <2>6. thread'[Port].pc = "assigned" BY <2>5 DEF Idle
  <2> QED BY <2>4, <2>6 DEF SameAttempt, Attempting, PortPcs, WritePcs, CallPcs
<1>4. CASE PortQueries \/ PortStops
  <2>1. thread[Port].pc \in PortPcs \ {"assigned"} BY <1>4 DEF PortQueries, PortStops, At, PortPcs
  <2>2. d \in Docs BY <2>1, PortBusyKnown
  <2>3. \E pc \in PortPcs \ {"assigned"} : GoTo(Port, pc) BY <1>4 DEF PortQueries, PortStops, PortPcs
  <2>4. \/ UNCHANGED job \/ SetJob(d, [job[d] EXCEPT !.Status = job[d].Status \cup {"PRINTING"}])
        \/ SetJob(d, [job[d] EXCEPT !.Status = job[d].Status \ {"PRINTING"}])
    BY <1>4 DEF PortQueries, PortStops
  <2>5. CASE UNCHANGED job BY <1>2, <2>1, <2>3, <2>5 DEF RebootsSame
  <2>6. CASE ~ UNCHANGED job BY <1>1, <1>2, <2>1, <2>2, <2>3, <2>4, <2>6
  <2> QED BY <2>5, <2>6
<1>5. CASE PortSends
  <2> DEFINE s == job[d].Status \cup {"PRINTED"}
             j == [job[d] EXCEPT !.Status = s]
  <2>1. thread[Port].pc \in PortPcs \ {"assigned"} BY <1>5 DEF PortSends, At, PortPcs
  <2>2. d \in Docs /\ job[d] \in JobRecords BY <2>1, PortBusyKnown
  <2>3. s \in SUBSET Flags
    <3>1. job[d].Status \in SUBSET Flags BY <2>2 DEF JobRecords
    <3> QED BY <3>1 DEF Flags
  <2>4. \/ DeleteJob(Port, d, j, "sent")
        \/ SetJob(d, j) /\ GoTo(Port, "sent")
        \/ UNCHANGED job /\ GoTo(Port, "sent")
    BY <1>5 DEF PortSends
  <2> HIDE DEF s
  <2>5. j \in JobRecords /\ j.dwReboots = job[d].dwReboots BY <2>2, <2>3 DEF JobRecords
  <2> HIDE DEF j
  <2>6. CASE SetJob(d, j) /\ GoTo(Port, "sent")
    <3>1. RebootsSame BY <2>2, <2>5, <2>6, SetJobReboots DEF Reboots, RebootsSame
    <3> QED BY <1>2, <2>1, <2>6, <3>1 DEF PortPcs
  <2>7. CASE UNCHANGED job /\ GoTo(Port, "sent") BY <1>2, <2>1, <2>7 DEF PortPcs, RebootsSame
  <2>8. CASE DeleteJob(Port, d, j, "sent")
    <3>1. /\ Reboots(d, j.dwReboots)
          /\ \/ thread'[Port] = Resumed(Port, "sent")
             \/ thread'[Port].doc = d
      BY <1>0, <2>2, <2>5, <2>8, DeleteJobDeletes, DeletesReboots
    <3>2. Resumed(Port, "sent").doc = d BY <1>0 DEF Resumed, ThreadRecords
    <3>3. Attempting(thread[Port]) BY <2>1 DEF Attempting
    <3> QED BY <2>2, <2>5, <3>1, <3>2, <3>3 DEF SameAttempt, Reboots, RebootsSame
  <2> QED BY <2>4, <2>6, <2>7, <2>8
<1> QED BY <1>3, <1>4, <1>5

----------------------------------------------------------------------------
(* Every step.                                                              *)

\* The files have the attempts that their jobs had.
LEMMA FileShadow ==
  ASSUME StoreInv, RebootsOK, NEW t \in Threads, FileStep(t)
  PROVE  \A i \in Ids : shadow'[i].dwReboots >= 0
<1>0. /\ DiskTypes /\ thread[t].id \in Ids /\ ThreadOK(t) BY Known, TypesParts DEF StoreInv, ThreadRecords
<1>1. \A i \in Ids : shadow[i].dwReboots >= 0 BY DEF RebootsOK
<1>2. CASE UNCHANGED shadow BY <1>1, <1>2
<1>3. ASSUME NEW x, shadow' = [shadow EXCEPT ![thread[t].id] = x], x.dwReboots >= 0
      PROVE  \A i \in Ids : shadow'[i].dwReboots >= 0
  BY <1>0, <1>1, <1>3 DEF DiskTypes
<1>4. CASE DeleteShadow(t) \/ RemoveShadow(t) \/ CreateShadowFile(t)
  <2>1. NoShadow.dwReboots = 0 /\ Torn.dwReboots = 0 BY DEF NoShadow, Torn
  <2>2. \/ UNCHANGED shadow
        \/ shadow' = [shadow EXCEPT ![thread[t].id] = NoShadow]
        \/ shadow' = [shadow EXCEPT ![thread[t].id] = Torn]
    BY <1>4 DEF DeleteShadow, RemoveShadow, CreateShadowFile
  <2> QED BY <1>2, <1>3, <2>1, <2>2
<1>5. CASE WriteShadowFile(t)
  <2>1. thread[t].doc \in Docs BY <1>0, <1>5 DEF WriteShadowFile, At, ThreadOK
  <2>2. Shadow(thread[t].doc, job[thread[t].doc]).dwReboots >= 0 BY <2>1 DEF Shadow, RebootsOK
  <2> QED BY <1>3, <1>5, <2>2 DEF WriteShadowFile
<1>6. CASE \/ Cancelled(t) \/ ShadowDeleted(t) \/ FreeId(t) \/ CloseShadowFile(t) \/ Reenter(t)
           \/ RemoveSpool(t)
  BY <1>2, <1>6 DEF Cancelled, ShadowDeleted, FreeId, CloseShadowFile, Reenter, RemoveSpool, disk
<1> QED BY <1>4, <1>5, <1>6 DEF FileStep

\* The attempts are read again from the files.
LEMMA CrashReboots ==
  ASSUME StoreInv, RebootsOK, Crash
  PROVE  RebootsOK'
<1> DEFINE read == {i \in Ids : Readable(i)}
           id(d) == CHOOSE i \in read : shadow[i].doc = d
           Found(d) == \E i \in read : shadow[i].doc = d
<1>1. Restart /\ \A i \in Ids : shadow[i].dwReboots >= 0 BY DEF Crash, RebootsOK
<1>2. NoJob.dwReboots = 0 /\ [NoJob EXCEPT !.state = "gone"].dwReboots = 0 /\ NoShadow.dwReboots = 0
  BY DEF NoJob, NoShadow
<1>3. ASSUME NEW d \in Docs PROVE job'[d].dwReboots >= 0
  <2>1. job'[d] = IF Found(d) THEN ReadShadowJob(id(d))
                  ELSE IF job[d].state = "new" THEN NoJob ELSE [NoJob EXCEPT !.state = "gone"]
    BY <1>1, <1>3 DEF Restart
  <2>2. CASE Found(d)
    <3>1. id(d) \in read BY <2>2
    <3>2. id(d) \in Ids BY <3>1
    <3>3. job'[d] = ReadShadowJob(id(d)) BY <2>1, <2>2
    <3> HIDE DEF id
    <3>4. job'[d].dwReboots = shadow[id(d)].dwReboots BY <3>3 DEF ReadShadowJob
    <3> QED BY <1>1, <3>2, <3>4
  <2>3. CASE ~ Found(d)
    <3> HIDE DEF Found, id
    <3>1. CASE job'[d] = NoJob BY <1>2, <3>1
    <3>2. CASE job'[d] = [NoJob EXCEPT !.state = "gone"] BY <1>2, <3>2
    <3> QED BY <2>1, <2>3, <3>1, <3>2
  <2> QED BY <2>2, <2>3
<1>4. \A i \in Ids : shadow'[i].dwReboots >= 0
  <2>1. shadow' = [i \in Ids |-> IF i \in read \/ spool[i] = NoDoc THEN shadow[i] ELSE NoShadow]
    BY <1>1 DEF Restart
  <2> HIDE DEF read
  <2> QED BY <1>1, <1>2, <2>1
<1>5. ~ Attempting(thread'[Port])
  <2>1. thread'[Port] = Idle BY <1>1 DEF Restart, Threads
  <2>2. Idle.pc = "idle" BY DEF Idle
  <2> QED BY <2>1, <2>2 DEF Attempting, PortPcs, WritePcs, CallPcs
<1> QED BY <1>3, <1>4, <1>5 DEF RebootsOK

\* The attempts are never negative, and positive within one.
LEMMA RebootsStep ==
  ASSUME StartDocOnly, StoreInv, RebootsOK, [Next]_vars
  PROVE  RebootsOK'
<1>1. ASSUME RebootsSame, SameAttempt(Port)
      PROVE  /\ \A d \in Docs : job'[d].dwReboots >= 0
             /\ Attempting(thread'[Port]) => Attempted(thread[Port].doc)'
  BY <1>1 DEF RebootsSame, SameAttempt, RebootsOK, Attempted
<1>2. ASSUME thread'[Port] = thread[Port] PROVE SameAttempt(Port) BY <1>2 DEF SameAttempt
<1>3. ASSUME NEW t \in Threads, FileStep(t) PROVE RebootsOK'
  <2>1. t # Port => thread'[Port] = thread[Port] BY <1>3, FileSteps DEF StepOK, Moves, Threads
  <2>2. RebootsSame /\ SameAttempt(Port) BY <1>2, <1>3, <2>1, FileReboots
  <2> QED BY <1>1, <1>3, <2>2, FileShadow DEF RebootsOK
<1>4. ASSUME NEW c \in Clients, ClientStep(c) PROVE RebootsOK'
  <2>1. ClientReboots /\ shadow' = shadow /\ thread'[Port] = thread[Port] BY <1>4, ClientStepReboots
  <2>2. \A d \in Docs : job'[d].dwReboots >= 0 BY <2>1 DEF ClientReboots, RebootsOK
  <2>3. ASSUME Attempting(thread[Port]) PROVE Attempted(thread[Port].doc)'
    <3>1. Attempted(thread[Port].doc) BY <2>3 DEF RebootsOK
    <3>2. Despools(thread[Port].doc)
      BY <2>3, Known DEF Attempting, ThreadOK, PortBusy, Threads
    <3>3. job[thread[Port].doc].state = "queued" BY <3>1, <3>2, ReferredQueued DEF Attempted, Threads
    <3>4. job'[thread[Port].doc].dwReboots = job[thread[Port].doc].dwReboots
      BY <2>1, <3>1, <3>3 DEF ClientReboots, Attempted
    <3> QED BY <2>1, <3>1, <3>4 DEF Attempted
  <2> QED BY <2>1, <2>2, <2>3 DEF RebootsOK
<1>5. CASE PortStep
  <2>1. shadow' = shadow
    BY <1>5 DEF PortStep, AssignJob, PortBegins, PortQueries, PortSends, PortStops, PortEnds, disk
  <2>2. CASE AssignJobs \/ PortQueries \/ PortSends \/ PortStops
    BY <1>1, <2>1, <2>2, PortKeepsReboots DEF RebootsOK
  <2>3. CASE PortBegins BY <2>1, <2>3, PortBeginsReboots DEF RebootsOK
  <2>4. CASE PortEnds BY <2>1, <2>4, PortEndsReboots DEF RebootsOK
  <2> QED BY <1>5, <2>2, <2>3, <2>4 DEF PortStep, AssignJobs
<1>6. CASE Crash BY <1>6, CrashReboots
<1>7. CASE UNCHANGED vars
  <2>1. job' = job /\ shadow' = shadow /\ thread' = thread BY <1>7 DEF vars, disk
  <2>2. RebootsSame /\ SameAttempt(Port) BY <2>1 DEF RebootsSame, SameAttempt
  <2> QED BY <1>1, <2>1, <2>2 DEF RebootsOK
<1> QED BY <1>3, <1>4, <1>5, <1>6, <1>7 DEF Next

\* They are 0 at first.
LEMMA InitReboots == Init => RebootsOK
BY DEF Init, RebootsOK, NoJob, NoShadow, Idle, Threads, Attempting, PortPcs, WritePcs, CallPcs

\* With the exact counts of JobStoreProofs this is the type invariant.
LEMMA TypesAreOK == StoreInv /\ RebootsOK => TypeOK
<1> SUFFICES ASSUME StoreInv, RebootsOK PROVE TypeOK OBVIOUS
<1>1. \A d \in Docs : job[d].cRef >= 0
  <2>1. Port \in Threads /\ RefsExact BY Known DEF Threads
  <2> QED BY <2>1, RefsAtLeast
<1> QED BY <1>1 DEF StoreInv, RebootsOK, TypeOK

\* The type invariant of the job store: INCJOBREF and DECJOBREF (spltypes.h 965) are paired
\* whatever the interleaving, and the port takes no attempt back (port.c 795) that it has not
\* counted before (570), so neither DWORD goes below zero; where documents come by StartDocPrinter
\* and the bitmap can grow.
THEOREM CountsNotNegative ==
  ASSUME StartDocOnly
  PROVE  Spec => []TypeOK
BY InitStore, StoreStep, InitReboots, RebootsStep, TypesAreOK, PTL DEF Spec

----------------------------------------------------------------------------
(***************************************************************************)
(* The documents of AddJob, where no other way of printing is used.  A     *)
(* handle lists those it has made, and its ClosePrinter schedules those    *)
(* that nobody has scheduled, one after the other.  The list goes by ids:  *)
(* to schedule one job marks the entry of its id, so that another job of   *)
(* the same id would be forgotten.  As long as no two jobs of the queue    *)
(* have one id, every job is run down.                                     *)
(***************************************************************************)

AddJobOnly == AddJobs = Docs

\* No two jobs of the queue have the same id.
QueueIdsUnique == \A d, e \in Queued : job[d].JobId = job[e].JobId => d = e

\* ClosePrinter, run by a thread with record r, has seen to id i and will take it
\* off the list.
TakesOff(r, i) == r.id = i /\ (r.pc = "pop" \/ r.then = "pop")

\* Where a thread is, if no document comes by StartDocPrinter.
AddThread(r) ==
  /\ r.pc \notin SubmitPcs \cup {"deleteFile"}
  /\ r.pc = "close" => r.then = "idle"
  /\ r.pc \in CallPcs \cup RemovePcs => r.then \in {"idle", "pop", "sent"}
  /\ r.pc \in WritePcs => r.then \in {"query", "kept"}
  /\ r.pc \in CallPcs \cup RemovePcs \cup WritePcs \cup PortPcs \cup {"addJob"} => r.doc \in Docs
AddThreads == \A t \in Threads : AddThread(thread[t])

\* Where a thread works on a job, its job was made; AddJob makes one once.
Made(j) == j.state \in {"queued", "gone"}
WorkPcs == CallPcs \cup RemovePcs \cup WritePcs \cup PortPcs
AddDocs ==
  /\ \A t \in Threads :
       /\ thread[t].pc \in WorkPcs => Made(job[thread[t].doc])
       /\ thread[t].pc \in CallPcs => job[thread[t].doc].JobId = thread[t].id
       /\ At(t, "addJob") => job[thread[t].doc].state = "submitted"
  /\ \A t, u \in Threads :
       At(t, "addJob") /\ At(u, "addJob") /\ thread[t].doc = thread[u].doc => t = u
AddHandles == \A c \in Clients : ~ handle[c].STARTDOC

\* A job that is not scheduled yet is on the list of a handle that will see to it.
Listed(c, i) == handle[c].mapped[i] = "addJob" /\ ~ TakesOff(thread[c], i)
SeenTo(d) ==
  Is(d, "SPOOLING") =>
    /\ ~ Is(d, "SCHEDULE_JOB")
    /\ \E c \in Clients : Listed(c, job[d].JobId)

RestTypes ==
  /\ idMap \subseteq Ids /\ dwCurrentJobId \in Ids /\ dwMaxJobId \in 1 .. MaxIds + 1
  /\ shadow \in [Ids -> ShadowRecords]
AddTypes ==
  /\ RestTypes
  /\ job \in [Docs -> JobRecords]
  /\ handle \in [Clients -> HandleRecords]
  /\ thread \in [Threads -> ThreadRecords]
AddInv == AddTypes /\ AddThreads /\ AddDocs /\ AddHandles /\ \A d \in Queued : SeenTo(d)

\* What is said of the list follows.
LEMMA SeenToRunDown == AddJobOnly /\ AddInv => AddJobsRunDown
BY DEF AddInv, AddJobOnly, AddJobsRunDown, SeenTo, Listed

----------------------------------------------------------------------------
(* Steps that leave the lists alone.                                        *)

\* A thread with record r works on document d alone, whose job is k.
Works(r, d, k) ==
  /\ r.pc \in WorkPcs => r.doc = d
  /\ r.pc \in CallPcs => r.id = k.JobId
  /\ r.pc # "addJob"

\* Document d has job k next, thread t record r.
Becomes(t, d, k, r) ==
  /\ job' = [job EXCEPT ![d] = k] /\ k \in JobRecords
  /\ thread' = [thread EXCEPT ![t] = r] /\ r \in ThreadRecords /\ AddThread(r) /\ Works(r, d, k)

\* Job k is what is left of job j: it was not made anew.
LeftOf(k, j) ==
  /\ k.JobId = j.JobId /\ (k.state = "queued" => j.state = "queued") /\ (Made(j) => Made(k))
  /\ "SPOOLING" \in k.Status =>
       "SPOOLING" \in j.Status /\ ("SCHEDULE_JOB" \in k.Status => "SCHEDULE_JOB" \in j.Status)

\* A thread may go on with then, its document being d.
MayReturn(t, d, then) ==
  /\ then \in {"idle", "pop", "sent"}
  /\ then = "sent" => thread[t].doc = d
  /\ then = "pop" => thread[t].id = job[d].JobId

\* DeleteJob takes a job no flag that matters here, and its thread comes back to
\* where it was called.
Disposes(t, d, j, then) ==
  \E k, r : /\ Becomes(t, d, k, r) /\ LeftOf(k, j)
            /\ \A i \in Ids : TakesOff(r, i) => then = "pop" /\ i = j.JobId

\* The record of a thread that goes on.
LEMMA CallGoesOn ==
  ASSUME AddTypes, NEW t \in Threads, NEW d \in Docs, NEW then, MayReturn(t, d, then)
  PROVE  /\ Resumed(t, then) \in ThreadRecords /\ AddThread(Resumed(t, then))
         /\ \A i : TakesOff(Resumed(t, then), i) => then = "pop" /\ i = job[d].JobId
         /\ \A k : Works(Resumed(t, then), d, k)
<1>1. thread[t] \in ThreadRecords /\ NoDoc \notin Docs /\ 0 \in Ids
  BY ConstantsAssumption DEF AddTypes, Ids
<1>2. CASE then = "idle"
  BY <1>1, <1>2 DEF Resumed, Idle, ThreadRecords, Pcs, AddThread, TakesOff, SubmitPcs, CallPcs, RemovePcs,
                    WritePcs, PortPcs, WorkPcs, Works
<1>3. CASE then \in {"pop", "sent"}
  <2>1. Resumed(t, then) = [thread[t] EXCEPT !.pc = then, !.then = "idle"] BY <1>3 DEF Resumed
  <2> QED BY <1>1, <1>3, <2>1 DEF MayReturn, ThreadRecords, Pcs, AddThread, TakesOff, SubmitPcs, CallPcs,
                                  RemovePcs, WritePcs, PortPcs, WorkPcs, Works
<1> QED BY <1>2, <1>3 DEF MayReturn

\* A call that is over leaves the job j.
LEMMA ReturnsDeleted ==
  ASSUME AddTypes, NEW t \in Threads, NEW d \in Docs, NEW then, MayReturn(t, d, then),
         NEW j \in JobRecords, j.JobId = job[d].JobId, NEW k \in JobRecords, LeftOf(k, j),
         SetJob(d, k), Resume(t, then)
  PROVE  Disposes(t, d, j, then)
<1>1. Becomes(t, d, k, Resumed(t, then)) BY CallGoesOn DEF Becomes, SetJob, Resume
<1> QED BY <1>1, CallGoesOn DEF Disposes

\* A call that goes on has the job in hand.
LEMMA CallsDeleted ==
  ASSUME AddTypes, NEW t \in Threads, NEW d \in Docs, NEW then, MayReturn(t, d, then),
         NEW j \in JobRecords, NEW k \in JobRecords, LeftOf(k, j), SetJob(d, k),
         NEW pc \in {"cancel", "deleteShadow", "removeShadow", "removeSpool"},
         thread' = [thread EXCEPT ![t] = [pc |-> pc, doc |-> d, id |-> j.JobId, then |-> then]]
  PROVE  Disposes(t, d, j, then)
<1> DEFINE r == [pc |-> pc, doc |-> d, id |-> j.JobId, then |-> then]
<1>1. r \in ThreadRecords
  BY DEF MayReturn, ThreadRecords, Pcs, JobRecords
<1>2. AddThread(r) /\ \A i : TakesOff(r, i) => then = "pop" /\ i = j.JobId
  BY DEF MayReturn, AddThread, TakesOff, SubmitPcs, CallPcs, RemovePcs, WritePcs, PortPcs
<1>3. Works(r, d, k) BY DEF Works, LeftOf, WorkPcs, CallPcs, RemovePcs, WritePcs, PortPcs
<1>4. Becomes(t, d, k, r) BY <1>1, <1>2, <1>3 DEF Becomes, SetJob
<1> QED BY <1>2, <1>4 DEF Disposes

\* So DeleteJob and what it calls:
LEMMA DeletesUnlessPrinting ==
  ASSUME AddTypes, NEW t \in Threads, NEW d \in Docs, NEW then, MayReturn(t, d, then),
         NEW j \in JobRecords, j.JobId = job[d].JobId, DeleteUnlessPrinting(t, d, j, then)
  PROVE  Disposes(t, d, j, then)
<1>0. j.Status \in SUBSET Flags /\ j.cRef \in Int BY DEF JobRecords
<1>1. CASE j.cRef > 0
  <2> DEFINE k == [j EXCEPT !.Status = @ \cup {"SHADOW_DELETED"}, !.cRef = @ + 1]
  <2>1. k \in JobRecords /\ LeftOf(k, j)
    <3>1. /\ k.Status \in SUBSET Flags /\ k.cRef \in Int /\ k.state = j.state /\ k.JobId = j.JobId
          /\ k.dwReboots = j.dwReboots
      BY <1>0 DEF JobRecords, Flags
    <3>2. k \in JobRecords BY <3>1 DEF JobRecords
    <3>3. \A f \in {"SPOOLING", "SCHEDULE_JOB"} : f \in k.Status => f \in j.Status
      BY DEF JobRecords
    <3> QED BY <3>1, <3>2, <3>3 DEF LeftOf, Made
  <2>2. /\ SetJob(d, k)
        /\ thread' = [thread EXCEPT ![t] = [pc |-> "deleteShadow", doc |-> d,
                                            id |-> j.JobId, then |-> then]]
    BY <1>1 DEF DeleteUnlessPrinting
  <2> HIDE DEF k
  <2> QED BY <2>1, <2>2, CallsDeleted
<1>2. CASE ~ (j.cRef > 0) /\ "SPOOLING" \in j.Status
  <2>1. SetJob(d, j) /\ Resume(t, then) /\ LeftOf(j, j)
    BY <1>2 DEF DeleteUnlessPrinting, LeftOf, Made
  <2> QED BY <2>1, ReturnsDeleted
<1>3. CASE ~ (j.cRef > 0) /\ "SPOOLING" \notin j.Status
  <2> DEFINE k == [j EXCEPT !.state = "gone"]
  <2>1. k \in JobRecords /\ LeftOf(k, j) BY DEF JobRecords, LeftOf, Made
  <2>2. /\ SetJob(d, k)
        /\ \E pc \in {"removeSpool", "removeShadow"} :
             thread' = [thread EXCEPT ![t] = [pc |-> pc, doc |-> d, id |-> j.JobId, then |-> then]]
    BY <1>3 DEF DeleteUnlessPrinting
  <2> HIDE DEF k
  <2> QED BY <2>1, <2>2, CallsDeleted
<1> QED BY <1>1, <1>2, <1>3

\* ... where it may be printing,
LEMMA DeletesPrinting ==
  ASSUME AddTypes, NEW t \in Threads, NEW d \in Docs, NEW then, MayReturn(t, d, then),
         NEW j \in JobRecords, j.JobId = job[d].JobId, DeleteJob(t, d, j, then)
  PROVE  Disposes(t, d, j, then)
<1>0. j.Status \in SUBSET Flags /\ j.cRef \in Int BY DEF JobRecords
<1>1. CASE "RESTART" \in j.Status
  <2>1. SetJob(d, j) /\ Resume(t, then) /\ LeftOf(j, j) BY <1>1 DEF DeleteJob, LeftOf, Made
  <2> QED BY <2>1, ReturnsDeleted
<1>2. CASE "RESTART" \notin j.Status /\ "PRINTING" \in j.Status /\ "PENDING_DELETION" \notin j.Status
  <2> DEFINE k == [j EXCEPT !.Status = @ \cup {"PENDING_DELETION"}, !.cRef = @ + 1]
  <2>1. k \in JobRecords /\ LeftOf(k, j)
    <3>1. /\ k.Status \in SUBSET Flags /\ k.cRef \in Int /\ k.state = j.state /\ k.JobId = j.JobId
          /\ k.dwReboots = j.dwReboots
      BY <1>0 DEF JobRecords, Flags
    <3>2. k \in JobRecords BY <3>1 DEF JobRecords
    <3>3. \A f \in {"SPOOLING", "SCHEDULE_JOB"} : f \in k.Status => f \in j.Status
      BY DEF JobRecords
    <3> QED BY <3>1, <3>2, <3>3 DEF LeftOf, Made
  <2>2. /\ SetJob(d, k)
        /\ thread' = [thread EXCEPT ![t] = [pc |-> "cancel", doc |-> d,
                                            id |-> j.JobId, then |-> then]]
    BY <1>2 DEF DeleteJob
  <2> HIDE DEF k
  <2> QED BY <2>1, <2>2, CallsDeleted
<1>3. CASE "RESTART" \notin j.Status /\ ~ ("PRINTING" \in j.Status /\ "PENDING_DELETION" \notin j.Status)
  <2> DEFINE k == [j EXCEPT !.Status = @ \cup {"PENDING_DELETION"}]
  <2>1. k \in JobRecords /\ LeftOf(k, j) /\ k.JobId = j.JobId
    BY <1>0 DEF JobRecords, Flags, LeftOf, Made
  <2>2. DeleteUnlessPrinting(t, d, k, then) BY <1>3 DEF DeleteJob
  <2>3. Disposes(t, d, k, then)
    <3> HIDE DEF k
    <3> QED BY <2>1, <2>2, DeletesUnlessPrinting
  <2> HIDE DEF k
  <2> QED BY <2>1, <2>3 DEF Disposes, LeftOf, Made
<1> QED BY <1>1, <1>2, <1>3

\* ... and where it is only deleted when nobody refers to it.
LEMMA DeletesChecked ==
  ASSUME AddTypes, NEW t \in Threads, NEW d \in Docs, NEW then, MayReturn(t, d, then),
         NEW j \in JobRecords, j.JobId = job[d].JobId, DeleteJobCheck(t, d, j, then)
  PROVE  Disposes(t, d, j, then)
<1>1. LeftOf(j, j) BY DEF LeftOf, Made
<1> QED BY <1>1, DeletesPrinting, ReturnsDeleted DEF DeleteJobCheck

----------------------------------------------------------------------------
(* A step of thread t that takes no job from the lists.                     *)

\* A job that is not scheduled yet has the id i.
Needed(i) == \E d \in FindJob(i) : Is(d, "SPOOLING")

KeepsLists ==
  /\ handle' \in [Clients -> HandleRecords]
  /\ \A c \in Clients :
       /\ ~ handle'[c].STARTDOC
       /\ \A i \in Ids : Listed(c, i) /\ Needed(i) /\ Needed(i)' => Listed(c, i)'

\* LocalAddJob makes the job of document e, and lists it.
MadeBy(t, e) == At(t, "addJob") /\ thread[t].doc = e /\ Made(job'[e]) /\ SeenTo(e)'

LeavesLists(t) ==
  /\ AddTypes' /\ AddThread(thread'[t])
  /\ \A u \in Threads : u # t => thread'[u] = thread[u]
  /\ \A e \in Docs :
       /\ LeftOf(job'[e], job[e]) \/ MadeBy(t, e)
       /\ job[e].state = "submitted" =>
            job'[e].state = "submitted" \/ (At(t, "addJob") /\ thread[t].doc = e)
  /\ thread'[t].pc \in WorkPcs => Made(job'[thread'[t].doc])
  /\ thread'[t].pc \in CallPcs => job'[thread'[t].doc].JobId = thread'[t].id
  /\ thread'[t].pc = "addJob" => /\ job[thread'[t].doc].state = "new"
                                 /\ job'[thread'[t].doc].state = "submitted"
  /\ KeepsLists

\* Such a step preserves the invariant.
LEMMA LeavesOK ==
  ASSUME AddInv, NEW t \in Threads, LeavesLists(t)
  PROVE  AddInv'
<1>1. AddTypes' BY DEF LeavesLists
<1>2. AddThreads' BY DEF LeavesLists, AddInv, AddThreads
<1>3. AddHandles' BY DEF LeavesLists, KeepsLists, AddHandles
<1>5. AddDocs'
  <2>1. ASSUME NEW u \in Threads, u # t
        PROVE  /\ thread[u].pc \in WorkPcs => Made(job'[thread[u].doc])
               /\ thread[u].pc \in CallPcs => job'[thread[u].doc].JobId = thread[u].id
               /\ thread[u].pc = "addJob" => job'[thread[u].doc].state = "submitted"
    <3>1. thread[u].pc \in WorkPcs \cup {"addJob"} => thread[u].doc \in Docs
      BY DEF AddInv, AddThreads, AddThread, WorkPcs
    <3>2. CallPcs \subseteq WorkPcs BY DEF WorkPcs
    <3>3. thread[u].pc \in WorkPcs => LeftOf(job'[thread[u].doc], job[thread[u].doc])
      <4>1. SUFFICES ASSUME thread[u].pc \in WorkPcs, MadeBy(t, thread[u].doc) PROVE FALSE
        BY <3>1 DEF LeavesLists
      <4>2. job[thread[u].doc].state = "submitted" BY <4>1 DEF MadeBy, AddInv, AddDocs
      <4> QED BY <4>1, <4>2 DEF AddInv, AddDocs, Made
    <3>4. thread[u].pc = "addJob" => job'[thread[u].doc].state = "submitted"
      BY <2>1, <3>1 DEF LeavesLists, AddInv, AddDocs, At
    <3> QED BY <3>1, <3>2, <3>3, <3>4 DEF AddInv, AddDocs, LeftOf, At
  <2>2. ASSUME NEW u \in Threads, u # t, thread[u].pc = "addJob", thread'[t].pc = "addJob",
               thread'[t].doc = thread[u].doc
        PROVE  FALSE
    BY <2>2 DEF LeavesLists, AddInv, AddDocs, At
  <2>3. \A u \in Threads : u # t => thread'[u] = thread[u] BY DEF LeavesLists
  <2>4. ASSUME NEW u \in Threads
        PROVE  /\ thread'[u].pc \in WorkPcs => Made(job'[thread'[u].doc])
               /\ thread'[u].pc \in CallPcs => job'[thread'[u].doc].JobId = thread'[u].id
               /\ thread'[u].pc = "addJob" => job'[thread'[u].doc].state = "submitted"
    <3>1. CASE u = t BY <3>1 DEF LeavesLists
    <3>2. CASE u # t BY <2>1, <2>3, <3>2
    <3> QED BY <3>1, <3>2
  <2>5. ASSUME NEW u \in Threads, NEW v \in Threads, thread'[u].pc = "addJob",
               thread'[v].pc = "addJob", thread'[u].doc = thread'[v].doc
        PROVE  u = v
    <3>1. CASE u # t /\ v # t BY <2>3, <2>5, <3>1 DEF AddInv, AddDocs, At
    <3>2. CASE u = t \/ v = t BY <2>2, <2>3, <2>5, <3>2
    <3> QED BY <3>1, <3>2
  <2> QED BY <2>4, <2>5 DEF AddDocs, At, Made
<1>4. ASSUME NEW d \in Docs, job'[d].state = "queued" PROVE SeenTo(d)'
  <2>0. CASE MadeBy(t, d) BY <2>0 DEF MadeBy
  <2>1. SUFFICES ASSUME "SPOOLING" \in job'[d].Status, ~ MadeBy(t, d)
                 PROVE  /\ "SCHEDULE_JOB" \notin job'[d].Status
                        /\ \E c \in Clients : Listed(c, job[d].JobId)'
    BY <2>0 DEF SeenTo, Is
  <2>2. /\ LeftOf(job'[d], job[d]) /\ d \in Queued /\ "SPOOLING" \in job[d].Status
        /\ job[d].JobId \in Ids
    BY <1>4, <2>1 DEF LeavesLists, LeftOf, Queued, AddInv, AddTypes, JobRecords
  <2>3. PICK c \in Clients : Listed(c, job[d].JobId) /\ "SCHEDULE_JOB" \notin job[d].Status
    BY <2>2 DEF AddInv, SeenTo, Is
  <2>4. job'[d].JobId = job[d].JobId /\ "SCHEDULE_JOB" \notin job'[d].Status
    BY <2>1, <2>2, <2>3 DEF LeftOf
  <2>5. Needed(job[d].JobId) BY <2>2 DEF Needed, FindJob, Is
  <2>6. \A i : i = job'[d].JobId => Needed(i)'
    BY <1>4, <2>1 DEF Needed, FindJob, Is, Queued
  <2>7. \A i \in Ids : i = job[d].JobId => Listed(c, i)'
    BY <2>3, <2>4, <2>5, <2>6 DEF LeavesLists, KeepsLists
  <2>8. Listed(c, job[d].JobId)' BY <2>2, <2>4, <2>7 DEF Listed
  <2> QED BY <2>4, <2>8
<1> QED BY <1>1, <1>2, <1>3, <1>4, <1>5 DEF AddInv, Queued

\* What does not change.
LEMMA SameLeft == \A j : LeftOf(j, j)
BY DEF LeftOf, Made

\* A thread that takes nothing off leaves the lists as they are.
LEMMA ListsStay ==
  ASSUME AddInv, NEW t \in Threads, NEW r, thread' = [thread EXCEPT ![t] = r], UNCHANGED handle,
         \A i \in Ids : t \in Clients /\ Listed(t, i) /\ Needed(i) => ~ TakesOff(r, i)
  PROVE  KeepsLists
<1>1. /\ handle \in [Clients -> HandleRecords] /\ \A c \in Clients : ~ handle[c].STARTDOC
      /\ thread \in [Threads -> ThreadRecords]
  BY DEF AddInv, AddTypes, AddHandles
<1>2. ASSUME NEW c \in Clients, NEW i \in Ids, Listed(c, i), Needed(i) PROVE Listed(c, i)'
  <2>1. CASE c = t
    <3>1. thread'[c] = r BY <1>1, <2>1
    <3> QED BY <1>2, <2>1, <3>1 DEF Listed
  <2>2. CASE c # t
    <3>1. thread'[c] = thread[c] BY <1>1, <2>2
    <3> QED BY <1>2, <3>1 DEF Listed
  <2> QED BY <2>1, <2>2
<1> QED BY <1>1, <1>2 DEF KeepsLists

\* One document and one thread change.
LEMMA BecomesLeaves ==
  ASSUME AddInv, NEW t \in Threads, NEW d \in Docs, NEW k, NEW r, Becomes(t, d, k, r),
         LeftOf(k, job[d]), Made(job[d]), RestTypes', KeepsLists
  PROVE  LeavesLists(t)
<1>1. /\ thread \in [Threads -> ThreadRecords] /\ job \in [Docs -> JobRecords]
  BY DEF AddInv, AddTypes
<1>2. thread'[t] = r /\ \A u \in Threads : u # t => thread'[u] = thread[u]
  BY <1>1 DEF Becomes
<1>3. \A e \in Docs : LeftOf(job'[e], job[e]) BY <1>1, SameLeft DEF Becomes
<1>4. AddTypes' BY <1>1 DEF AddTypes, Becomes, KeepsLists
<1>5. job'[d] = k /\ Made(k) /\ Works(r, d, k) BY <1>1 DEF Becomes, LeftOf
<1>6. CallPcs \subseteq WorkPcs BY DEF WorkPcs
<1>7. \A e \in Docs : job[e].state = "submitted" => job'[e].state = "submitted"
  BY <1>1 DEF Becomes, Made
<1>8. /\ thread'[t].pc \in WorkPcs => Made(job'[thread'[t].doc])
      /\ thread'[t].pc \in CallPcs => job'[thread'[t].doc].JobId = thread'[t].id
      /\ thread'[t].pc # "addJob"
  BY <1>2, <1>5, <1>6 DEF Works
<1> QED BY <1>2, <1>3, <1>4, <1>7, <1>8 DEF LeavesLists, Becomes

\* The same where the job stays as it is.
LEMMA GoesLeaves ==
  ASSUME AddInv, NEW t \in Threads, NEW r \in ThreadRecords, thread' = [thread EXCEPT ![t] = r],
         AddThread(r), Works(r, thread[t].doc, job[thread[t].doc]),
         r.pc \in WorkPcs => thread[t].pc \in WorkPcs, UNCHANGED job, RestTypes', KeepsLists
  PROVE  LeavesLists(t)
<1>1. /\ thread \in [Threads -> ThreadRecords] /\ job \in [Docs -> JobRecords]
  BY DEF AddInv, AddTypes
<1>2. thread'[t] = r /\ \A u \in Threads : u # t => thread'[u] = thread[u] BY <1>1
<1>3. \A e \in Docs : LeftOf(job'[e], job[e]) BY SameLeft
<1>4. AddTypes' BY <1>1 DEF AddTypes, KeepsLists
<1>5. CallPcs \subseteq WorkPcs BY DEF WorkPcs
<1>6. /\ thread'[t].pc \in WorkPcs => Made(job'[thread'[t].doc])
      /\ thread'[t].pc \in CallPcs => job'[thread'[t].doc].JobId = thread'[t].id
      /\ thread'[t].pc # "addJob"
  BY <1>2, <1>5 DEF Works, AddInv, AddDocs
<1> QED BY <1>2, <1>3, <1>4, <1>6 DEF LeavesLists

\* DeleteJob is one.
LEMMA DeletedLeaves ==
  ASSUME AddInv, NEW t \in Threads, NEW d \in Docs, NEW j, NEW then, Disposes(t, d, j, then),
         LeftOf(j, job[d]), Made(job[d]), then = "pop" => TakesOff(thread[t], j.JobId),
         UNCHANGED <<mapVars, handle, shadow>>
  PROVE  LeavesLists(t)
<1>1. PICK k, r : /\ Becomes(t, d, k, r) /\ LeftOf(k, j)
                  /\ \A i \in Ids : TakesOff(r, i) => then = "pop" /\ i = j.JobId
  BY DEF Disposes
<1>2. LeftOf(k, job[d]) BY <1>1 DEF LeftOf
<1>3. RestTypes' BY DEF AddInv, AddTypes, RestTypes, mapVars
<1>4. \A i \in Ids : t \in Clients /\ Listed(t, i) /\ Needed(i) => ~ TakesOff(r, i)
  BY <1>1 DEF Listed
<1>5. thread' = [thread EXCEPT ![t] = r] BY <1>1 DEF Becomes
<1>6. KeepsLists BY <1>4, <1>5, ListsStay
<1> QED BY <1>1, <1>2, <1>3, <1>6, BecomesLeaves

----------------------------------------------------------------------------
(* The steps around files.                                                  *)

\* What is known of a thread.
LEMMA AddKnown ==
  ASSUME AddInv, NEW t \in Threads
  PROVE  /\ AddTypes /\ RestTypes /\ thread[t] \in ThreadRecords /\ AddThread(thread[t])
         /\ \A d \in Docs : job[d] \in JobRecords
         /\ t \in Clients => handle[t] \in HandleRecords /\ ~ handle[t].STARTDOC
BY DEF AddInv, AddTypes, AddThreads, AddHandles

\* A thread that goes on to another place of the same kind.
LEMMA KindLeaves ==
  ASSUME AddInv, NEW t \in Threads, NEW pc, GoTo(t, pc), UNCHANGED <<job, handle>>, RestTypes',
         NEW K \in {CallPcs, WritePcs, RemovePcs, PortPcs}, thread[t].pc \in K, pc \in K
  PROVE  LeavesLists(t)
<1>1. thread[t] \in ThreadRecords /\ AddThread(thread[t]) BY AddKnown
<1> DEFINE r == [thread[t] EXCEPT !.pc = pc]
<1>2. /\ r.pc = pc /\ r.doc = thread[t].doc /\ r.id = thread[t].id /\ r.then = thread[t].then
      /\ thread' = [thread EXCEPT ![t] = r]
  BY <1>1 DEF GoTo, ThreadRecords
<1>3. pc # "pop" /\ pc # "close" /\ pc \in Pcs
  BY DEF CallPcs, WritePcs, RemovePcs, PortPcs, Pcs
<1>4. r \in ThreadRecords BY <1>1, <1>3 DEF ThreadRecords
<1>5. /\ AddThread(r) /\ pc # "addJob"
      /\ pc \in WorkPcs <=> thread[t].pc \in WorkPcs
      /\ pc \in CallPcs <=> thread[t].pc \in CallPcs
  BY <1>1, <1>2 DEF AddThread, CallPcs, WritePcs, RemovePcs, PortPcs, SubmitPcs, WorkPcs
<1>6. \A i : TakesOff(r, i) => TakesOff(thread[t], i) BY <1>2, <1>3 DEF TakesOff
<1>7. Works(r, thread[t].doc, job[thread[t].doc])
  BY <1>2, <1>5 DEF Works, AddInv, AddDocs
<1> HIDE DEF r
<1>8. KeepsLists BY <1>2, <1>6, ListsStay DEF Listed
<1> QED BY <1>2, <1>4, <1>5, <1>7, <1>8, GoesLeaves

\* DeleteJob goes on after it has cancelled the print job,
LEMMA CancelledLeaves ==
  ASSUME AddInv, NEW t \in Threads, Cancelled(t)
  PROVE  LeavesLists(t)
<1> DEFINE d == thread[t].doc
           then == thread[t].then
           j == [job[d] EXCEPT !.cRef = @ - 1]
<1>1. thread[t].pc = "cancel" /\ UNCHANGED <<mapVars, handle, disk>> /\ DeleteUnlessPrinting(t, d, j, then)
  BY DEF Cancelled, At
<1>2. AddTypes /\ d \in Docs /\ then \in {"idle", "pop", "sent"} /\ job[d] \in JobRecords
  BY <1>1, AddKnown DEF AddThread, CallPcs
<1>3. Made(job[d]) /\ job[d].JobId = thread[t].id
  BY <1>1 DEF AddInv, AddDocs, WorkPcs, CallPcs
<1>4. j \in JobRecords /\ j.JobId = job[d].JobId /\ LeftOf(j, job[d])
  BY <1>2 DEF JobRecords, LeftOf, Made
<1>5. MayReturn(t, d, then) BY <1>2, <1>3 DEF MayReturn
<1>6. then = "pop" => TakesOff(thread[t], j.JobId) BY <1>3, <1>4 DEF TakesOff
<1> HIDE DEF j, d, then
<1>7. Disposes(t, d, j, then) BY <1>1, <1>2, <1>4, <1>5, DeletesUnlessPrinting
<1> QED BY <1>1, <1>2, <1>3, <1>4, <1>6, <1>7, DeletedLeaves DEF disk

\* ... and after it has deleted the shadow file.
LEMMA ShadowDeletedLeaves ==
  ASSUME AddInv, NEW t \in Threads, ShadowDeleted(t)
  PROVE  LeavesLists(t)
<1> DEFINE d == thread[t].doc
           then == thread[t].then
           k == [job[d] EXCEPT !.cRef = @ - 1,
                   !.Status = IF At(t, "shadowKept") THEN @ \ {"SHADOW_DELETED"} ELSE @]
<1>1. thread[t].pc \in CallPcs /\ UNCHANGED <<mapVars, handle, disk>> /\ SetJob(d, k) /\ Resume(t, then)
  BY DEF ShadowDeleted, At, CallPcs
<1>2. AddTypes /\ d \in Docs /\ then \in {"idle", "pop", "sent"} /\ job[d] \in JobRecords
  BY <1>1, AddKnown DEF AddThread
<1>3. Made(job[d]) /\ job[d].JobId = thread[t].id
  BY <1>1 DEF AddInv, AddDocs, WorkPcs
<1>4. k \in JobRecords /\ LeftOf(k, job[d])
  <2>1. /\ k.Status \subseteq job[d].Status /\ k.cRef \in Int /\ k.state = job[d].state
        /\ k.JobId = job[d].JobId /\ k.dwReboots = job[d].dwReboots
    BY <1>2 DEF JobRecords
  <2>2. k \in JobRecords BY <1>2, <2>1 DEF JobRecords
  <2> HIDE DEF k, d
  <2> QED BY <2>1, <2>2 DEF LeftOf, Made
<1>5. MayReturn(t, d, then) BY <1>2, <1>3 DEF MayReturn
<1>6. then = "pop" => TakesOff(thread[t], job[d].JobId) BY <1>3 DEF TakesOff
<1> HIDE DEF k, d, then
<1>7. Disposes(t, d, job[d], then) BY <1>1, <1>2, <1>4, <1>5, ReturnsDeleted
<1> QED BY <1>1, <1>2, <1>3, <1>6, <1>7, SameLeft, DeletedLeaves DEF disk

\* The deletion of a job's files, and of its id, is over.
LEMMA RemovedLeaves ==
  ASSUME AddInv, NEW t \in Threads, thread[t].pc \in RemovePcs, Resume(t, thread[t].then),
         UNCHANGED job, RestTypes', handle' \in [Clients -> HandleRecords],
         \A c \in Clients : /\ ~ handle'[c].STARTDOC
                           /\ \A i \in Ids : handle[c].mapped[i] = "addJob" =>
                                              handle'[c].mapped[i] = "addJob"
  PROVE  LeavesLists(t)
<1> DEFINE then == thread[t].then
           r == Resumed(t, then)
<1>1. /\ AddTypes /\ thread[t] \in ThreadRecords /\ thread[t].doc \in Docs
      /\ then \in {"idle", "pop", "sent"} /\ NoDoc \notin Docs /\ 0 \in Ids
  BY AddKnown, ConstantsAssumption DEF AddThread, Ids
<1>2. thread' = [thread EXCEPT ![t] = r] BY DEF Resume
<1>3. /\ r \in ThreadRecords /\ AddThread(r) /\ (r.pc = "sent" => r.doc = thread[t].doc)
      /\ r.pc \in {"idle", "pop", "sent"} /\ \A i : TakesOff(r, i) => TakesOff(thread[t], i)
  <2>1. CASE then = "idle"
    BY <1>1, <2>1 DEF Resumed, Idle, ThreadRecords, Pcs, AddThread, TakesOff, SubmitPcs, CallPcs,
                      RemovePcs, WritePcs, PortPcs
  <2>2. CASE then \in {"pop", "sent"}
    <3>1. r = [thread[t] EXCEPT !.pc = then, !.then = "idle"] BY <2>2 DEF Resumed
    <3> QED BY <1>1, <2>2, <3>1 DEF ThreadRecords, Pcs, AddThread, TakesOff, SubmitPcs, CallPcs,
                                    RemovePcs, WritePcs, PortPcs
  <2> QED BY <1>1, <2>1, <2>2
<1>4. Works(r, thread[t].doc, job[thread[t].doc]) /\ thread[t].pc \in WorkPcs
  BY <1>3 DEF Works, WorkPcs, CallPcs, RemovePcs, WritePcs, PortPcs
<1> HIDE DEF r
<1>5. KeepsLists
  <2>1. thread \in [Threads -> ThreadRecords] BY <1>1 DEF AddTypes
  <2>2. ASSUME NEW c \in Clients, NEW i \in Ids, Listed(c, i) PROVE Listed(c, i)'
    <3>1. CASE c = t
      <4>1. thread'[c] = r BY <1>2, <2>1, <3>1
      <4> QED BY <1>3, <2>2, <3>1, <4>1 DEF Listed
    <3>2. CASE c # t
      <4>1. thread'[c] = thread[c] BY <1>2, <2>1, <3>2
      <4> QED BY <2>2, <4>1 DEF Listed
    <3> QED BY <3>1, <3>2
  <2> QED BY <2>2 DEF KeepsLists
<1> QED BY <1>2, <1>3, <1>4, <1>5, GoesLeaves

\* What happens to the bitmap and the shadow files.
LEMMA RestStays ==
  ASSUME AddInv,
         UNCHANGED mapVars \/ (\E i : vMarkOff(i)),
         UNCHANGED shadow \/ (\E i : \E x \in ShadowRecords : shadow' = [shadow EXCEPT ![i] = x])
  PROVE  RestTypes'
<1>1. RestTypes BY DEF AddInv, AddTypes
<1> QED BY <1>1 DEF RestTypes, mapVars, vMarkOff

\* The port has done with a job.
LEMMA PortGivesUpLeaves ==
  ASSUME AddInv, NEW t \in Threads, NEW d \in Docs, Made(job[d]), NEW j \in JobRecords,
         LeftOf(j, job[d]), RemoveIniPortFromIniJob(t, d, j), UNCHANGED <<mapVars, disk>>
  PROVE  LeavesLists(t)
<1> DEFINE s == j.Status \ ({"DESPOOLING"} \cup IF "RESTART" \in j.Status THEN {"PRINTED", "BLOCKED_DEVQ"}
                                               ELSE {})
           k == [j EXCEPT !.cRef = @ - 1, !.Status = s]
<1>1. DeleteJobCheck(t, d, k, "idle") /\ UNCHANGED handle BY DEF RemoveIniPortFromIniJob
<1>2. s \subseteq j.Status OBVIOUS
<1> HIDE DEF s
<1>3. k \in JobRecords /\ LeftOf(k, job[d]) /\ k.JobId = job[d].JobId
  <2>1. /\ k.Status \subseteq j.Status /\ k.cRef \in Int /\ k.state = j.state
        /\ k.JobId = j.JobId /\ k.dwReboots = j.dwReboots
    BY <1>2 DEF JobRecords
  <2>2. k \in JobRecords BY <1>2, <2>1 DEF JobRecords
  <2> HIDE DEF k
  <2> QED BY <2>1, <2>2 DEF LeftOf, Made
<1>4. AddTypes /\ MayReturn(t, d, "idle") BY DEF AddInv, MayReturn
<1> HIDE DEF k
<1>5. Disposes(t, d, k, "idle") BY <1>1, <1>3, <1>4, DeletesChecked
<1> QED BY <1>1, <1>3, <1>5, DeletedLeaves DEF disk

\* What follows the shadow file, for the port thread.
LEMMA WrittenLeaves ==
  ASSUME AddInv, NEW t \in Threads, NEW d \in Docs, Made(job[d]), NEW j \in JobRecords,
         LeftOf(j, job[d]), NEW then \in {"query", "kept"}, ShadowWritten(t, d, j, then),
         UNCHANGED <<mapVars, disk>>
  PROVE  LeavesLists(t)
<1>1. CASE then = "kept"
  <2> DEFINE k == [j EXCEPT !.cRef = @ - 1]
  <2>1. k \in JobRecords /\ LeftOf(k, job[d]) BY DEF JobRecords, LeftOf, Made
  <2>2. RemoveIniPortFromIniJob(t, d, k) BY <1>1 DEF ShadowWritten
  <2> HIDE DEF k
  <2> QED BY <2>1, <2>2, PortGivesUpLeaves
<1>2. CASE then = "query"
  <2> DEFINE r == [Idle EXCEPT !.pc = "query", !.doc = d]
  <2>1. SetJob(d, j) /\ UNCHANGED handle /\ thread' = [thread EXCEPT ![t] = r]
    BY <1>2 DEF ShadowWritten
  <2>2. r \in ThreadRecords /\ AddThread(r) /\ Works(r, d, j) /\ \A i : ~ TakesOff(r, i)
    <3>1. 0 \in Ids BY ConstantsAssumption DEF Ids
    <3> QED BY <3>1 DEF Idle, ThreadRecords, Pcs, AddThread, Works, TakesOff, SubmitPcs, CallPcs,
                        RemovePcs, WritePcs, PortPcs, WorkPcs
  <2> HIDE DEF r
  <2>3. Becomes(t, d, j, r) BY <2>1, <2>2 DEF Becomes, SetJob
  <2>4. KeepsLists BY <2>1, <2>2, ListsStay
  <2>5. RestTypes' BY RestStays DEF disk
  <2> QED BY <2>3, <2>4, <2>5, BecomesLeaves
<1> QED BY <1>1, <1>2

\* The port thread begins to write one.
LEMMA WritesLeaves ==
  ASSUME AddInv, NEW t \in Threads, NEW d \in Docs, Made(job[d]), NEW j \in JobRecords,
         LeftOf(j, job[d]), NEW then \in {"query", "kept"}, WriteShadowJob(t, d, j, then),
         UNCHANGED <<mapVars, disk>>
  PROVE  LeavesLists(t)
<1>1. CASE "SHADOW_DELETED" \in j.Status
  <2>1. ShadowWritten(t, d, j, then) BY <1>1 DEF WriteShadowJob
  <2> QED BY <2>1, WrittenLeaves
<1>2. CASE "SHADOW_DELETED" \notin j.Status
  <2> DEFINE r == [pc |-> "createFile", doc |-> d, id |-> j.JobId, then |-> then]
  <2>1. SetJob(d, j) /\ UNCHANGED handle /\ thread' = [thread EXCEPT ![t] = r]
    BY <1>2 DEF WriteShadowJob
  <2>2. r \in ThreadRecords /\ AddThread(r) /\ Works(r, d, j) /\ \A i : ~ TakesOff(r, i)
    BY DEF ThreadRecords, JobRecords, Pcs, AddThread, Works, TakesOff, SubmitPcs, CallPcs,
           RemovePcs, WritePcs, PortPcs, WorkPcs
  <2> HIDE DEF r
  <2>3. Becomes(t, d, j, r) BY <2>1, <2>2 DEF Becomes, SetJob
  <2>4. KeepsLists BY <2>1, <2>2, ListsStay
  <2>5. RestTypes' BY RestStays DEF disk
  <2> QED BY <2>3, <2>4, <2>5, BecomesLeaves
<1> QED BY <1>1, <1>2

\* A job's status may be made smaller.
LEMMA SmallerLeft ==
  ASSUME NEW j \in JobRecords, NEW s, s \subseteq j.Status
  PROVE  [j EXCEPT !.Status = s] \in JobRecords /\ LeftOf([j EXCEPT !.Status = s], j)
BY DEF JobRecords, LeftOf, Made

\* The port thread has SplSem again.
LEMMA ReenterLeaves ==
  ASSUME AddInv, NEW t \in Threads, Reenter(t)
  PROVE  LeavesLists(t)
<1> DEFINE d == thread[t].doc
           then == thread[t].then
           s == IF At(t, "written") THEN job[d].Status \ {"SHADOW_DELETED"} ELSE job[d].Status
           j == [job[d] EXCEPT !.Status = s]
<1>1. thread[t].pc \in WritePcs /\ UNCHANGED <<mapVars, disk>> /\ ShadowWritten(t, d, j, then)
  BY DEF Reenter, WritePcs
<1>2. AddTypes /\ d \in Docs /\ then \in {"query", "kept"} /\ job[d] \in JobRecords
  BY <1>1, AddKnown DEF AddThread
<1>3. Made(job[d]) BY <1>1 DEF AddInv, AddDocs, WorkPcs
<1>4. s \subseteq job[d].Status OBVIOUS
<1>5. j \in JobRecords /\ LeftOf(j, job[d]) BY <1>2, <1>4, SmallerLeft
<1> HIDE DEF j, d, then
<1> QED BY <1>1, <1>2, <1>3, <1>5, WrittenLeaves

\* All steps around files.
LEMMA FileLeavesLists ==
  ASSUME AddInv, NEW t \in Threads, FileStep(t)
  PROVE  LeavesLists(t)
<1>0. /\ AddTypes /\ RestTypes /\ thread[t] \in ThreadRecords /\ AddThread(thread[t])
      /\ handle \in [Clients -> HandleRecords] /\ \A c \in Clients : ~ handle[c].STARTDOC
  BY AddKnown DEF AddInv, AddTypes, AddHandles
<1>1. CASE DeleteShadow(t)
  <2>1. /\ UNCHANGED <<mapVars, job, handle>> /\ thread[t].pc \in CallPcs
        /\ \E pc \in CallPcs : GoTo(t, pc)
        /\ UNCHANGED shadow \/ (\E i : \E x \in ShadowRecords : shadow' = [shadow EXCEPT ![i] = x])
    BY <1>1, ShadowTypes DEF DeleteShadow, At, CallPcs
  <2>2. RestTypes' BY <2>1, RestStays
  <2> QED BY <2>1, <2>2, KindLeaves
<1>2. CASE RemoveShadow(t)
  <2>1. /\ UNCHANGED <<mapVars, job, handle>> /\ thread[t].pc \in RemovePcs
        /\ \E pc \in RemovePcs : GoTo(t, pc)
        /\ UNCHANGED shadow \/ (\E i : \E x \in ShadowRecords : shadow' = [shadow EXCEPT ![i] = x])
    BY <1>2, ShadowTypes DEF RemoveShadow, At, RemovePcs
  <2>2. RestTypes' BY <2>1, RestStays
  <2> QED BY <2>1, <2>2, KindLeaves
<1>3. CASE RemoveSpool(t)
  <2>1. /\ UNCHANGED <<mapVars, job, handle, shadow>> /\ thread[t].pc \in RemovePcs
        /\ (\E pc \in RemovePcs : GoTo(t, pc)) \/ Resume(t, thread[t].then)
    BY <1>3 DEF RemoveSpool, At, RemovePcs
  <2>2. RestTypes' BY <2>1, RestStays
  <2> QED BY <1>0, <2>1, <2>2, KindLeaves, RemovedLeaves
<1>4. CASE FreeId(t)
  <2>1. /\ UNCHANGED <<job, shadow>> /\ vMarkOff(thread[t].id) /\ thread[t].pc \in RemovePcs
        /\ Resume(t, thread[t].then)
    BY <1>4 DEF FreeId, At, RemovePcs, disk
  <2>2. RestTypes' BY <2>1, RestStays
  <2> DEFINE id == thread[t].id
  <2>3. handle' = [c \in Clients |->
             IF handle[c].closing \/ handle[c].mapped[id] # "plain" THEN handle[c]
             ELSE [handle[c] EXCEPT !.mapped[id] = "none"]]
    BY <1>4 DEF FreeId
  <2>4. ASSUME NEW c \in Clients
        PROVE  /\ handle'[c] \in HandleRecords /\ ~ handle'[c].STARTDOC
               /\ \A i \in Ids : handle[c].mapped[i] = "addJob" => handle'[c].mapped[i] = "addJob"
    <3>1. handle[c] \in HandleRecords /\ id \in Ids /\ ~ handle[c].STARTDOC
      BY <1>0 DEF ThreadRecords
    <3>2. CASE handle[c].closing \/ handle[c].mapped[id] # "plain"
      <4>1. handle'[c] = handle[c] BY <2>3, <3>2
      <4> QED BY <3>1, <4>1
    <3>3. CASE ~ (handle[c].closing \/ handle[c].mapped[id] # "plain")
      <4> DEFINE m == [handle[c].mapped EXCEPT ![id] = "none"]
      <4>1. handle'[c] = [handle[c] EXCEPT !.mapped = m] BY <2>3, <3>3
      <4>2. /\ m \in [Ids -> {"none", "plain", "addJob"}]
            /\ \A i \in Ids : handle[c].mapped[i] = "addJob" => m[i] = "addJob"
        BY <3>1, <3>3 DEF HandleRecords
      <4> HIDE DEF m
      <4>3. /\ handle'[c].mapped = m /\ handle'[c].STARTDOC = handle[c].STARTDOC
            /\ handle'[c] \in HandleRecords
        BY <3>1, <4>1, <4>2 DEF HandleRecords
      <4> QED BY <3>1, <4>2, <4>3
    <3> QED BY <3>2, <3>3
  <2>5. handle' \in [Clients -> HandleRecords] BY <2>3, <2>4
  <2> QED BY <2>1, <2>2, <2>4, <2>5, RemovedLeaves
<1>5. CASE CreateShadowFile(t)
  <2>1. /\ UNCHANGED <<mapVars, job, handle>> /\ thread[t].pc \in WritePcs
        /\ \E pc \in WritePcs : GoTo(t, pc)
        /\ UNCHANGED shadow \/ (\E i : \E x \in ShadowRecords : shadow' = [shadow EXCEPT ![i] = x])
    BY <1>5, ShadowTypes DEF CreateShadowFile, At, WritePcs
  <2>2. RestTypes' BY <2>1, RestStays
  <2> QED BY <2>1, <2>2, KindLeaves
<1>6. CASE WriteShadowFile(t)
  <2>1. /\ UNCHANGED <<mapVars, job, handle>> /\ thread[t].pc \in WritePcs /\ GoTo(t, "closeFile")
        /\ "closeFile" \in WritePcs
        /\ shadow' = [shadow EXCEPT ![thread[t].id] = Shadow(thread[t].doc, job[thread[t].doc])]
    BY <1>6 DEF WriteShadowFile, At, WritePcs
  <2>2. thread[t].doc \in Docs BY <1>0, <2>1 DEF AddThread
  <2>3. Shadow(thread[t].doc, job[thread[t].doc]) \in ShadowRecords
    BY <2>2, AddKnown, ShadowTypes
  <2>4. RestTypes' BY <2>1, <2>3, RestStays
  <2> QED BY <2>1, <2>4, KindLeaves
<1>7. CASE CloseShadowFile(t)
  <2>1. /\ UNCHANGED <<mapVars, job, handle, shadow>> /\ thread[t].pc \in WritePcs /\ GoTo(t, "written")
        /\ "written" \in WritePcs
    BY <1>7 DEF CloseShadowFile, At, WritePcs, disk
  <2>2. RestTypes' BY <2>1, RestStays
  <2> QED BY <2>1, <2>2, KindLeaves
<1> QED BY <1>1, <1>2, <1>3, <1>4, <1>5, <1>6, <1>7, CancelledLeaves, ShadowDeletedLeaves,
           ReenterLeaves DEF FileStep

----------------------------------------------------------------------------
(* The port thread and the users.                                           *)

\* The port thread goes on with its job, of which k is left.
LEMMA PortGoesLeaves ==
  ASSUME AddInv, thread[Port].pc \in PortPcs, NEW pc \in PortPcs, GoTo(Port, pc),
         NEW k \in JobRecords, LeftOf(k, job[thread[Port].doc]), SetJob(thread[Port].doc, k),
         UNCHANGED <<mapVars, handle, disk>>
  PROVE  LeavesLists(Port)
<1> DEFINE d == thread[Port].doc
           r == [thread[Port] EXCEPT !.pc = pc]
<1>0. Port \in Threads BY DEF Threads
<1>1. /\ thread[Port] \in ThreadRecords /\ AddThread(thread[Port]) /\ d \in Docs
  BY <1>0, AddKnown DEF AddThread
<1>2. Made(job[d]) BY <1>0 DEF AddInv, AddDocs, WorkPcs
<1>3. /\ r.pc = pc /\ r.doc = d /\ thread' = [thread EXCEPT ![Port] = r]
      /\ r.then = thread[Port].then
  BY <1>1 DEF GoTo, ThreadRecords
<1>4. r \in ThreadRecords BY <1>1 DEF ThreadRecords, Pcs, PortPcs
<1>5. AddThread(r) /\ Works(r, d, k)
  BY <1>1, <1>3 DEF AddThread, Works, CallPcs, WritePcs, RemovePcs, PortPcs, SubmitPcs
<1>6. KeepsLists
  <2>1. Port \notin Clients BY ConstantsAssumption
  <2> HIDE DEF r
  <2> QED BY <1>0, <1>3, <2>1, ListsStay
<1>7. RestTypes' BY RestStays DEF disk
<1> HIDE DEF r, d
<1>8. Becomes(Port, d, k, r) BY <1>3, <1>4, <1>5 DEF Becomes, SetJob, d
<1> QED BY <1>0, <1>1, <1>2, <1>6, <1>7, <1>8, BecomesLeaves DEF d

\* A job's status may get flags that do not matter here.
LEMMA LargerLeft ==
  ASSUME NEW j \in JobRecords, NEW f \in Flags \ {"SPOOLING", "SCHEDULE_JOB"}
  PROVE  /\ [j EXCEPT !.Status = @ \cup {f}] \in JobRecords
         /\ LeftOf([j EXCEPT !.Status = @ \cup {f}], j)
<1> DEFINE k == [j EXCEPT !.Status = @ \cup {f}]
<1>1. /\ k.Status = j.Status \cup {f} /\ k.state = j.state /\ k.JobId = j.JobId
      /\ k.cRef = j.cRef /\ k.dwReboots = j.dwReboots /\ k.Status \in SUBSET Flags
  BY DEF JobRecords
<1>2. k \in JobRecords BY DEF JobRecords
<1>3. LeftOf(k, j) BY <1>1 DEF LeftOf, Made
<1> QED BY <1>2, <1>3

\* All steps of the port thread.
LEMMA PortLeaves ==
  ASSUME AddInv, PortStep
  PROVE  LeavesLists(Port)
<1>0. Port \in Threads /\ Port \notin Clients /\ AddTypes
  BY ConstantsAssumption DEF Threads, AddInv
<1> DEFINE d == thread[Port].doc
<1>1. thread[Port].pc \in PortPcs => d \in Docs /\ job[d] \in JobRecords /\ Made(job[d])
  BY <1>0, AddKnown DEF AddThread, AddInv, AddDocs, WorkPcs
<1>2. ASSUME NEW e \in Docs, AssignJob(e) PROVE LeavesLists(Port)
  <2> DEFINE k == [job[e] EXCEPT !.Status = @ \cup {"DESPOOLING"}, !.cRef = @ + 1]
             r == [Idle EXCEPT !.pc = "assigned", !.doc = e]
  <2>1. /\ SetJob(e, k) /\ thread' = [thread EXCEPT ![Port] = r] /\ UNCHANGED <<mapVars, handle, disk>>
        /\ e \in Queued /\ job[e] \in JobRecords
    BY <1>0, <1>2 DEF AssignJob, AddTypes
  <2>2. k \in JobRecords /\ LeftOf(k, job[e])
    <3> DEFINE i == [job[e] EXCEPT !.Status = @ \cup {"DESPOOLING"}]
    <3>1. i \in JobRecords /\ LeftOf(i, job[e]) BY <2>1, LargerLeft DEF Flags
    <3>2. k = [i EXCEPT !.cRef = @ + 1] BY <2>1 DEF JobRecords
    <3> HIDE DEF i, k
    <3> QED BY <3>1, <3>2 DEF JobRecords, LeftOf, Made
  <2>3. r \in ThreadRecords /\ AddThread(r) /\ Works(r, e, k)
    <3>1. 0 \in Ids BY ConstantsAssumption DEF Ids
    <3> QED BY <3>1 DEF Idle, ThreadRecords, Pcs, AddThread, Works, SubmitPcs, CallPcs, RemovePcs,
                        WritePcs, PortPcs
  <2> HIDE DEF k, r
  <2>4. KeepsLists BY <1>0, <2>1, ListsStay
  <2>5. Becomes(Port, e, k, r) BY <2>1, <2>2, <2>3 DEF Becomes, SetJob
  <2>6. RestTypes' BY <2>1, RestStays DEF disk
  <2>7. Made(job[e]) BY <2>1 DEF Queued, Made
  <2> QED BY <1>0, <2>2, <2>4, <2>5, <2>6, <2>7, BecomesLeaves
<1>3. CASE PortBegins
  <2> DEFINE k == Attempt(d, job[d])
  <2>1. thread[Port].pc \in PortPcs /\ UNCHANGED <<mapVars, disk>> BY <1>3 DEF PortBegins, At, PortPcs
  <2>2. k \in JobRecords /\ LeftOf(k, job[d])
    <3>1. job[d].Status \ {"RESTART"} \subseteq job[d].Status OBVIOUS
    <3>2. \A n \in Int : [job[d] EXCEPT !.Status = @ \ {"RESTART"}, !.dwReboots = n] \in JobRecords
      BY <1>1, <2>1 DEF JobRecords
    <3>3. job[d].dwReboots \in Int BY <1>1, <2>1 DEF JobRecords
    <3>4. k \in JobRecords
      <4>1. \/ k = [job[d] EXCEPT !.Status = @ \ {"RESTART"}]
            \/ \E n \in Int : k = [job[d] EXCEPT !.Status = @ \ {"RESTART"}, !.dwReboots = n]
        <5> DEFINE n == IF "RESTART" \in job[d].Status /\ job[d].dwReboots > 0
                          THEN job[d].dwReboots ELSE job[d].dwReboots + 1
        <5>1. n \in Int BY <3>3
        <5>2. d \in Emf => k = [job[d] EXCEPT !.Status = @ \ {"RESTART"}, !.dwReboots = n]
          BY DEF Attempt
        <5>3. d \notin Emf => k = [job[d] EXCEPT !.Status = @ \ {"RESTART"}] BY DEF Attempt
        <5> HIDE DEF n, k
        <5> QED BY <5>1, <5>2, <5>3
      <4> HIDE DEF k
      <4> QED BY <1>1, <2>1, <3>1, <3>2, <4>1, SmallerLeft
    <3>5. /\ k.Status \subseteq job[d].Status /\ k.state = job[d].state /\ k.JobId = job[d].JobId
      BY <1>1, <2>1 DEF Attempt, JobRecords
    <3> QED BY <3>4, <3>5 DEF LeftOf, Made
  <2>3. WriteShadowJob(Port, d, k, "query") \/ ShadowWritten(Port, d, k, "query")
    BY <1>3 DEF PortBegins
  <2> HIDE DEF k
  <2> QED BY <1>0, <1>1, <2>1, <2>2, <2>3, WritesLeaves, WrittenLeaves
<1>4. CASE PortQueries
  <2>1. /\ thread[Port].pc \in PortPcs /\ UNCHANGED <<mapVars, handle, disk>>
        /\ \E pc \in PortPcs : GoTo(Port, pc)
        /\ UNCHANGED job \/ SetJob(d, [job[d] EXCEPT !.Status = @ \cup {"PRINTING"}])
    BY <1>4 DEF PortQueries, At, PortPcs
  <2>2. SetJob(d, job[d]) \/ SetJob(d, [job[d] EXCEPT !.Status = @ \cup {"PRINTING"}])
    BY <1>0, <2>1 DEF SetJob, AddTypes
  <2>3. "PRINTING" \in Flags \ {"SPOOLING", "SCHEDULE_JOB"} BY DEF Flags
  <2> QED BY <1>1, <2>1, <2>2, <2>3, SameLeft, LargerLeft, PortGoesLeaves
<1>5. CASE PortSends
  <2> DEFINE k == [job[d] EXCEPT !.Status = @ \cup {"PRINTED"}]
  <2>1. /\ thread[Port].pc \in PortPcs /\ UNCHANGED <<mapVars, handle, disk>>
        /\ \/ DeleteJob(Port, d, k, "sent")
           \/ SetJob(d, k) /\ GoTo(Port, "sent")
           \/ GoTo(Port, "sent") /\ UNCHANGED job
    BY <1>5 DEF PortSends, At, PortPcs
  <2>2. "PRINTED" \in Flags \ {"SPOOLING", "SCHEDULE_JOB"} /\ "sent" \in PortPcs BY DEF Flags, PortPcs
  <2>3. k \in JobRecords /\ LeftOf(k, job[d]) BY <1>1, <2>1, <2>2, LargerLeft
  <2>4. k.JobId = job[d].JobId /\ MayReturn(Port, d, "sent") BY <2>3 DEF LeftOf, MayReturn
  <2>5. UNCHANGED job => SetJob(d, job[d]) BY <1>0 DEF SetJob, AddTypes
  <2> HIDE DEF k
  <2>6. CASE DeleteJob(Port, d, k, "sent")
    <3>1. Disposes(Port, d, k, "sent") BY <1>0, <1>1, <2>1, <2>3, <2>4, <2>6, DeletesPrinting
    <3> QED BY <1>0, <1>1, <2>1, <2>3, <3>1, DeletedLeaves DEF disk
  <2> QED BY <1>1, <2>1, <2>2, <2>3, <2>5, <2>6, SameLeft, PortGoesLeaves
<1>6. CASE PortStops
  <2>1. /\ thread[Port].pc \in PortPcs /\ UNCHANGED <<mapVars, handle, disk>> /\ GoTo(Port, "end")
        /\ "end" \in PortPcs
        /\ SetJob(d, [job[d] EXCEPT !.Status = @ \ {"PRINTING"}])
    BY <1>6 DEF PortStops, At, PortPcs
  <2>2. job[d].Status \ {"PRINTING"} \subseteq job[d].Status OBVIOUS
  <2> QED BY <1>1, <2>1, <2>2, SmallerLeft, PortGoesLeaves
<1>7. CASE PortEnds
  <2> DEFINE s == job[d].Status \cup IF At(Port, "refused") THEN {"BLOCKED_DEVQ"}
                                    ELSE IF "RESTART" \in job[d].Status THEN {} ELSE {"PRINTED"}
             j == [job[d] EXCEPT !.Status = s]
  <2>1. /\ thread[Port].pc \in PortPcs /\ UNCHANGED <<mapVars, disk>>
        /\ WriteShadowJob(Port, d, Kept(d, j), "kept") \/ RemoveIniPortFromIniJob(Port, d, j)
    BY <1>7 DEF PortEnds, At, PortPcs
  <2>2. /\ s \in SUBSET Flags
        /\ \A f \in {"SPOOLING", "SCHEDULE_JOB"} : f \in s => f \in job[d].Status
    BY <1>1, <2>1 DEF JobRecords, Flags
  <2> HIDE DEF s
  <2>3. j \in JobRecords /\ LeftOf(j, job[d]) /\ j.Status = s
    BY <1>1, <2>1, <2>2 DEF JobRecords, LeftOf, Made
  <2> HIDE DEF j
  <2>4. Kept(d, j) \in JobRecords /\ LeftOf(Kept(d, j), job[d])
    <3> DEFINE k == Kept(d, j)
               u == (s \ {"PENDING_DELETION"}) \cup {"PRINTED"}
    <3>1. /\ k.Status = u /\ k.cRef = j.cRef + 1 /\ k.state = j.state
          /\ k.JobId = j.JobId /\ k.dwReboots \in Int
          /\ k = [j EXCEPT !.Status = u, !.cRef = @ + 1, !.dwReboots = k.dwReboots]
      <4>1. j.dwReboots \in Int /\ j.cRef \in Int BY <2>3 DEF JobRecords
      <4>2. \E n \in Int : k = [j EXCEPT !.Status = u, !.cRef = @ + 1, !.dwReboots = n]
        <5> DEFINE n == IF d \in Emf THEN j.dwReboots - 1 ELSE j.dwReboots
        <5>1. n \in Int BY <4>1
        <5>2. k = [j EXCEPT !.Status = u, !.cRef = @ + 1, !.dwReboots = n] BY <2>3 DEF Kept
        <5> HIDE DEF n, k, u
        <5> QED BY <5>1, <5>2
      <4>3. PICK n \in Int : k = [j EXCEPT !.Status = u, !.cRef = @ + 1, !.dwReboots = n] BY <4>2
      <4> HIDE DEF k, u
      <4> QED BY <2>3, <4>3 DEF JobRecords
    <3>2. u \in SUBSET Flags BY <2>2 DEF Flags
    <3>3. \A f \in {"SPOOLING", "SCHEDULE_JOB"} : f \in u => f \in s OBVIOUS
    <3> HIDE DEF k, u
    <3>4. k \in JobRecords
      <4>1. j.cRef + 1 \in Int BY <2>3 DEF JobRecords
      <4>2. \A n \in Int, m \in Int :
              [j EXCEPT !.Status = u, !.cRef = n, !.dwReboots = m] \in JobRecords
        BY <2>3, <3>2 DEF JobRecords
      <4> QED BY <3>1, <4>1, <4>2
    <3>5. LeftOf(k, job[d]) BY <2>2, <2>3, <3>1, <3>3 DEF LeftOf, Made
    <3> QED BY <3>4, <3>5 DEF k
  <2> QED BY <1>0, <1>1, <2>1, <2>3, <2>4, WritesLeaves, PortGivesUpLeaves
<1> QED BY <1>2, <1>3, <1>4, <1>5, <1>6, <1>7 DEF PortStep

----------------------------------------------------------------------------
(* Applications and users.                                                  *)

\* A client that is not at work on a job.
Free(r) ==
  /\ r.pc \in {"idle", "close", "schedule", "pop", "forget", "forgotten"}
  /\ r.pc = "close" => r.then = "idle"

\* Such a client needs no job.
LEMMA FreeIsFine ==
  ASSUME NEW r, Free(r), NEW d, NEW k
  PROVE  AddThread(r) /\ Works(r, d, k) /\ r.pc \notin WorkPcs
BY DEF Free, AddThread, Works, SubmitPcs, CallPcs, RemovePcs, WritePcs, PortPcs, WorkPcs

\* A client that goes on, no job changing.
LEMMA FreeLeaves ==
  ASSUME AddInv, NEW c \in Clients, NEW r \in ThreadRecords, Free(r),
         thread' = [thread EXCEPT ![c] = r], UNCHANGED job, RestTypes', KeepsLists
  PROVE  LeavesLists(c)
<1>1. c \in Threads BY DEF Threads
<1>2. AddThread(r) /\ Works(r, thread[c].doc, job[thread[c].doc]) /\ r.pc \notin WorkPcs
  BY FreeIsFine
<1> QED BY <1>1, <1>2, GoesLeaves

\* The records of a client that goes on.
LEMMA FreeRecords ==
  ASSUME AddInv, NEW c \in Clients
  PROVE  /\ \A pc \in {"idle", "close"} :
              /\ Resumed(c, pc) \in ThreadRecords /\ Free(Resumed(c, pc))
              /\ \A i : ~ TakesOff(Resumed(c, pc), i)
         /\ \A pc \in {"schedule", "pop", "forget", "forgotten"} : \A i \in Ids :
              LET r == [thread[c] EXCEPT !.id = i, !.pc = pc]
              IN r \in ThreadRecords /\ Free(r) /\ r.id = i /\ r.pc = pc /\ r.then = thread[c].then
         /\ thread[c] \in ThreadRecords /\ thread[c].id \in Ids
         /\ thread' = thread => thread' = [thread EXCEPT ![c] = thread[c]]
<1>1. thread[c] \in ThreadRecords /\ thread[c].id \in Ids /\ thread \in [Threads -> ThreadRecords]
  BY DEF AddInv, AddTypes, Threads, ThreadRecords
<1>2. 0 \in Ids BY ConstantsAssumption DEF Ids
<1>3. \A pc \in {"idle", "close"} :
        /\ Resumed(c, pc) \in ThreadRecords /\ Free(Resumed(c, pc))
        /\ \A i : ~ TakesOff(Resumed(c, pc), i)
  BY <1>2 DEF Resumed, Idle, ThreadRecords, Pcs, Free, TakesOff
<1>4. \A pc \in {"schedule", "pop", "forget", "forgotten"} : \A i \in Ids :
        LET r == [thread[c] EXCEPT !.id = i, !.pc = pc]
        IN r \in ThreadRecords /\ Free(r) /\ r.id = i /\ r.pc = pc /\ r.then = thread[c].then
  BY <1>1 DEF ThreadRecords, Pcs, Free
<1> QED BY <1>1, <1>3, <1>4

\* A client's own handle changes, for one id at most.
LEMMA OwnHandle ==
  ASSUME AddInv, NEW c \in Clients, NEW h \in HandleRecords, ~ h.STARTDOC,
         handle' = [handle EXCEPT ![c] = h], NEW r, thread' = [thread EXCEPT ![c] = r],
         \A i \in Ids : Listed(c, i) /\ Needed(i) /\ Needed(i)' =>
                        h.mapped[i] = "addJob" /\ ~ TakesOff(r, i)
  PROVE  KeepsLists
<1>1. /\ handle \in [Clients -> HandleRecords] /\ \A e \in Clients : ~ handle[e].STARTDOC
      /\ thread \in [Threads -> ThreadRecords] /\ c \in Threads /\ Clients \subseteq Threads
  BY DEF AddInv, AddTypes, AddHandles, Threads
<1>2. ASSUME NEW e \in Clients, NEW i \in Ids, Listed(e, i), Needed(i), Needed(i)' PROVE Listed(e, i)'
  <2>1. CASE e = c
    <3>1. thread'[c] = r /\ handle'[c] = h BY <1>1
    <3> QED BY <1>2, <2>1, <3>1 DEF Listed
  <2>2. CASE e # c
    <3>1. thread'[e] = thread[e] /\ handle'[e] = handle[e] BY <1>1, <2>2
    <3> QED BY <1>2, <3>1 DEF Listed
  <2> QED BY <2>1, <2>2
<1> QED BY <1>1, <1>2 DEF KeepsLists

\* ClosePrinter begins,
LEMMA ClosePrinterLeaves ==
  ASSUME AddInv, NEW c \in Clients, ClosePrinter(c)
  PROVE  LeavesLists(c)
<1> DEFINE h == [handle[c] EXCEPT !.closing = TRUE]
           r == Resumed(c, "close")
<1>1. /\ handle' = [handle EXCEPT ![c] = h] /\ thread' = [thread EXCEPT ![c] = r]
      /\ UNCHANGED <<mapVars, job, disk>>
  BY DEF ClosePrinter, Resume
<1>2. handle[c] \in HandleRecords /\ ~ handle[c].STARTDOC BY DEF AddInv, AddTypes, AddHandles
<1>3. h \in HandleRecords /\ ~ h.STARTDOC /\ h.mapped = handle[c].mapped
  BY <1>2 DEF HandleRecords
<1>4. r \in ThreadRecords /\ Free(r) /\ \A i : ~ TakesOff(r, i) BY FreeRecords
<1> HIDE DEF h, r
<1>5. KeepsLists
  <2>1. \A i \in Ids : Listed(c, i) => h.mapped[i] = "addJob" /\ ~ TakesOff(r, i)
    BY <1>3, <1>4 DEF Listed
  <2> QED BY <1>1, <1>3, <2>1, OwnHandle
<1> QED BY <1>1, <1>4, <1>5, RestStays, FreeLeaves DEF disk

\* ... comes to an entry,
LEMMA CloseNextLeaves ==
  ASSUME AddInv, NEW c \in Clients, CloseNext(c)
  PROVE  LeavesLists(c)
<1>1. PICK id \in Ids :
        thread' = [thread EXCEPT ![c].id = id,
                     ![c].pc = IF handle[c].mapped[id] = "addJob" THEN "schedule" ELSE "pop"]
  BY DEF CloseNext, MappedIds
<1> DEFINE pc == IF handle[c].mapped[id] = "addJob" THEN "schedule" ELSE "pop"
           r == [thread[c] EXCEPT !.id = id, !.pc = pc]
<1>2. thread' = [thread EXCEPT ![c] = r] BY <1>1
<1>3. thread[c].then = "idle" BY DEF CloseNext, At, AddInv, AddThreads, AddThread, Threads
<1>4. r \in ThreadRecords /\ Free(r) /\ r.id = id /\ r.pc = pc /\ r.then = "idle"
  <2>1. pc \in {"schedule", "pop"} /\ thread[c] \in ThreadRecords BY FreeRecords
  <2> HIDE DEF pc
  <2>2. r.id = id /\ r.pc = pc /\ r.then = "idle" BY <1>3, <2>1 DEF ThreadRecords
  <2>3. r \in ThreadRecords BY <2>1 DEF ThreadRecords, Pcs
  <2> QED BY <2>1, <2>2, <2>3 DEF Free
<1>5. UNCHANGED <<mapVars, job, handle, disk>> BY DEF CloseNext
<1>6. \A i \in Ids : Listed(c, i) => ~ TakesOff(r, i) BY <1>4 DEF Listed, TakesOff
<1> HIDE DEF r, pc
<1>7. KeepsLists BY <1>2, <1>5, <1>6, ListsStay DEF Threads
<1> QED BY <1>2, <1>4, <1>5, <1>7, RestStays, FreeLeaves DEF disk

\* ... takes it off when it has seen to it,
LEMMA ClosePopsLeaves ==
  ASSUME AddInv, NEW c \in Clients, ClosePops(c)
  PROVE  LeavesLists(c)
<1> DEFINE id == thread[c].id
           h == [handle[c] EXCEPT !.mapped[id] = "none"]
<1>1. /\ handle' = [handle EXCEPT ![c] = h] /\ UNCHANGED <<mapVars, job, disk>>
      /\ thread[c].pc = "pop" /\ (GoTo(c, "forget") \/ Resume(c, "close"))
  BY DEF ClosePops, At
<1>2. handle[c] \in HandleRecords /\ ~ handle[c].STARTDOC /\ thread[c] \in ThreadRecords /\ id \in Ids
  BY DEF AddInv, AddTypes, AddHandles, Threads, ThreadRecords
<1>3. /\ h \in HandleRecords /\ ~ h.STARTDOC
      /\ \A i \in Ids : i # id => h.mapped[i] = handle[c].mapped[i]
  BY <1>2 DEF HandleRecords
<1>4. PICK r : /\ thread' = [thread EXCEPT ![c] = r] /\ r \in ThreadRecords /\ Free(r)
               /\ \A i : TakesOff(r, i) => i = id
  <2>1. CASE Resume(c, "close") BY <2>1, FreeRecords DEF Resume
  <2>2. CASE GoTo(c, "forget")
    <3> DEFINE r == [thread[c] EXCEPT !.id = id, !.pc = "forget"]
    <3>0. r.id = id /\ r.pc = "forget" BY <1>2 DEF ThreadRecords
    <3>1. r \in ThreadRecords /\ Free(r) BY <1>2, <3>0 DEF ThreadRecords, Pcs, Free
    <3>2. [thread[c] EXCEPT !.pc = "forget"] = r BY <1>2 DEF ThreadRecords
    <3>3. thread' = [thread EXCEPT ![c] = r] BY <2>2, <3>2 DEF GoTo
    <3> HIDE DEF r
    <3> QED BY <3>0, <3>1, <3>3 DEF TakesOff
  <2> QED BY <1>1, <2>1, <2>2
<1>5. \A i \in Ids : Listed(c, i) => i # id BY <1>1 DEF Listed, TakesOff
<1> HIDE DEF h, id
<1>6. KeepsLists
  <2>1. \A i \in Ids : Listed(c, i) => h.mapped[i] = "addJob" /\ ~ TakesOff(r, i)
    BY <1>3, <1>4, <1>5 DEF Listed
  <2> QED BY <1>1, <1>3, <1>4, <2>1, OwnHandle
<1> QED BY <1>1, <1>4, <1>6, RestStays, FreeLeaves DEF disk

\* The file and the id of a job that is gone are given back.
LEMMA CloseForgetsLeaves ==
  ASSUME AddInv, NEW c \in Clients, CloseDeletesFile(c) \/ CloseFreesId(c)
  PROVE  LeavesLists(c)
<1>0. thread[c] \in ThreadRecords /\ thread[c].id \in Ids BY FreeRecords
<1>1. PICK r : /\ thread' = [thread EXCEPT ![c] = r] /\ r \in ThreadRecords /\ Free(r)
               /\ \A i : TakesOff(r, i) => TakesOff(thread[c], i)
  <2>1. CASE Resume(c, "close") BY <2>1, FreeRecords DEF Resume
  <2>2. CASE GoTo(c, "forgotten")
    <3> DEFINE r == [thread[c] EXCEPT !.id = thread[c].id, !.pc = "forgotten"]
    <3>0. r.id = thread[c].id /\ r.pc = "forgotten" /\ r.then = thread[c].then
      BY <1>0 DEF ThreadRecords
    <3>1. r \in ThreadRecords /\ Free(r) BY <1>0, <3>0 DEF ThreadRecords, Pcs, Free
    <3>2. [thread[c] EXCEPT !.pc = "forgotten"] = r BY <1>0 DEF ThreadRecords
    <3>3. thread' = [thread EXCEPT ![c] = r] BY <2>2, <3>2 DEF GoTo
    <3> HIDE DEF r
    <3> QED BY <3>0, <3>1, <3>3 DEF TakesOff
  <2> QED BY <2>1, <2>2 DEF CloseDeletesFile, CloseFreesId
<1>2. /\ UNCHANGED <<job, handle, shadow>>
      /\ UNCHANGED mapVars \/ (\E i : vMarkOff(i))
  BY DEF CloseDeletesFile, CloseFreesId, disk
<1>3. KeepsLists BY <1>1, <1>2, ListsStay DEF Listed, Threads
<1> QED BY <1>1, <1>2, <1>3, RestStays, FreeLeaves

\* ... and ends when there is none left.
LEMMA ClosedLeaves ==
  ASSUME AddInv, NEW c \in Clients, Closed(c)
  PROVE  LeavesLists(c)
<1> DEFINE r == Resumed(c, "idle")
<1>1. /\ handle' = [handle EXCEPT ![c] = NewHandle] /\ thread' = [thread EXCEPT ![c] = r]
      /\ UNCHANGED <<mapVars, job, disk>>
  BY DEF Closed, Resume
<1>2. NewHandle \in HandleRecords /\ ~ NewHandle.STARTDOC BY NothingTypes DEF NewHandle
<1>3. \A i \in Ids : ~ Listed(c, i) BY DEF Closed, MappedIds, Listed
<1>4. r \in ThreadRecords /\ Free(r) /\ \A i : ~ TakesOff(r, i) BY FreeRecords
<1> HIDE DEF r
<1>5. KeepsLists BY <1>1, <1>2, <1>3, OwnHandle
<1> QED BY <1>1, <1>4, <1>5, RestStays, FreeLeaves DEF disk

\* ScheduleJob takes SPOOLING from the one job of its id, so that nobody needs the entry.
LEMMA SchedulesLeaves ==
  ASSUME AddInv, QueueIdsUnique, NEW c \in Clients, NEW d \in Queued, NEW then \in {"idle", "pop"},
         MayReturn(c, d, then), LocalScheduleJob(c, d, then)
  PROVE  LeavesLists(c)
<1> DEFINE id == job[d].JobId
           s == (job[d].Status \ {"SPOOLING"}) \cup {"SCHEDULE_JOB"}
           j == [job[d] EXCEPT !.cRef = @ - 1, !.Status = s]
           h == [handle[c] EXCEPT !.mapped[id] = "plain", !.ADDJOB = FALSE, !.pIniJob = NoDoc]
<1>1. /\ handle' = [handle EXCEPT ![c] = h] /\ UNCHANGED mapVars
      /\ shadow' = shadow \/ shadow' = [shadow EXCEPT ![id] = Shadow(d, j)]
      /\ DeleteJob(c, d, j, then) \/ (SetJob(d, j) /\ Resume(c, then))
  <2>1. handle \in [Clients -> HandleRecords] BY DEF AddInv, AddTypes
  <2>2. handle' = [handle EXCEPT ![c].mapped[id] = "plain", ![c].ADDJOB = FALSE, ![c].pIniJob = NoDoc]
    BY DEF LocalScheduleJob
  <2>3. handle' = [handle EXCEPT ![c] = h] BY <2>1, <2>2
  <2> QED BY <2>3 DEF LocalScheduleJob
<1>2. /\ AddTypes /\ d \in Docs /\ job[d] \in JobRecords /\ id \in Ids /\ c \in Threads
      /\ job[d].state = "queued" /\ handle[c] \in HandleRecords /\ ~ handle[c].STARTDOC
      /\ job \in [Docs -> JobRecords]
  BY DEF AddInv, AddTypes, AddHandles, Queued, JobRecords, Threads
<1>3. /\ j \in JobRecords /\ j.JobId = id /\ j.state = "queued" /\ LeftOf(j, job[d])
      /\ "SPOOLING" \notin j.Status
  <2>1. s \in SUBSET Flags /\ "SPOOLING" \notin s BY <1>2 DEF JobRecords, Flags
  <2> HIDE DEF s
  <2>2. /\ j.Status = s /\ j.cRef \in Int /\ j.state = "queued" /\ j.JobId = id
        /\ j.dwReboots = job[d].dwReboots
    BY <1>2 DEF JobRecords
  <2>3. j \in JobRecords BY <1>2, <2>1, <2>2 DEF JobRecords
  <2> HIDE DEF j
  <2> QED BY <1>2, <2>1, <2>2, <2>3 DEF LeftOf, Made
<1>4. /\ h \in HandleRecords /\ ~ h.STARTDOC
      /\ \A i \in Ids : i # id => h.mapped[i] = handle[c].mapped[i]
  BY <1>2 DEF HandleRecords
<1> HIDE DEF j, s, h
<1>5. Disposes(c, d, j, then) BY <1>1, <1>2, <1>3, SameLeft, DeletesPrinting, ReturnsDeleted
<1>6. PICK k, r : /\ Becomes(c, d, k, r) /\ LeftOf(k, j)
                  /\ \A i \in Ids : TakesOff(r, i) => then = "pop" /\ i = id
  BY <1>3, <1>5 DEF Disposes
<1>7. LeftOf(k, job[d]) /\ "SPOOLING" \notin k.Status BY <1>3, <1>6 DEF LeftOf
<1>8. ASSUME NEW i \in Ids, i = id PROVE ~ Needed(i)'
  <2>1. SUFFICES ASSUME NEW e \in Docs, job'[e].state = "queued", job'[e].JobId = i,
                        "SPOOLING" \in job'[e].Status
                 PROVE  FALSE
    BY DEF Needed, FindJob, Queued, Is
  <2>2. job' = [job EXCEPT ![d] = k] BY <1>6 DEF Becomes
  <2>3. e # d BY <1>2, <1>7, <2>1, <2>2
  <2>4. job'[e] = job[e] BY <1>2, <2>2, <2>3
  <2> QED BY <1>2, <1>8, <2>1, <2>3, <2>4 DEF QueueIdsUnique, Queued
<1>9. \A i \in Ids : Listed(c, i) /\ Needed(i)' => h.mapped[i] = "addJob" /\ ~ TakesOff(r, i)
  <2>1. SUFFICES ASSUME NEW i \in Ids, Listed(c, i), Needed(i)'
                 PROVE  h.mapped[i] = "addJob" /\ ~ TakesOff(r, i)
    OBVIOUS
  <2>2. i # id BY <1>8, <2>1
  <2> QED BY <1>4, <1>6, <2>1, <2>2 DEF Listed
<1>10. thread' = [thread EXCEPT ![c] = r] BY <1>6 DEF Becomes
<1>11. KeepsLists BY <1>1, <1>4, <1>9, <1>10, OwnHandle
<1>12. RestTypes' BY <1>1, <1>2, <1>3, ShadowTypes, RestStays
<1> QED BY <1>2, <1>6, <1>7, <1>11, <1>12, BecomesLeaves DEF Made

\* ClosePrinter schedules the job of the entry it has come to; if there is none to schedule, none
\* needs the entry.
LEMMA CloseSchedulesLeaves ==
  ASSUME AddJobOnly, AddInv, QueueIdsUnique, NEW c \in Clients, CloseSchedules(c)
  PROVE  LeavesLists(c)
<1> DEFINE id == thread[c].id
           jobs == {d \in FindJob(id) : MaySchedule(c, d)}
<1>1. thread[c].pc = "schedule" /\ id \in Ids /\ thread[c] \in ThreadRecords /\ ~ handle[c].STARTDOC
  BY FreeRecords DEF CloseSchedules, At, AddInv, AddHandles
<1>2. CASE jobs # {}
  <2>1. PICK d \in jobs : LocalScheduleJob(c, d, "pop") BY <1>2 DEF CloseSchedules
  <2>2. d \in Queued /\ job[d].JobId = id BY <2>1 DEF FindJob
  <2>3. MayReturn(c, d, "pop") BY <2>2 DEF MayReturn
  <2> QED BY <2>1, <2>2, <2>3, SchedulesLeaves
<1>3. CASE jobs = {}
  <2> DEFINE r == [thread[c] EXCEPT !.pc = "pop"]
  <2>1. GoTo(c, "pop") /\ UNCHANGED <<mapVars, job, handle, disk>> BY <1>3 DEF CloseSchedules
  <2>2. /\ r \in ThreadRecords /\ Free(r) /\ r.id = id /\ thread' = [thread EXCEPT ![c] = r]
    BY <1>1, <2>1 DEF GoTo, ThreadRecords, Pcs, Free
  <2>3. ASSUME NEW i \in Ids, Listed(c, i), Needed(i), i = id PROVE FALSE
    <3>1. PICK d \in Queued : job[d].JobId = id /\ Is(d, "SPOOLING")
      BY <2>3 DEF Needed, FindJob
    <3>2. ~ Is(d, "SCHEDULE_JOB") BY <3>1 DEF AddInv, SeenTo
    <3>3. d \in AddJobs BY <3>1 DEF AddJobOnly, Queued
    <3>4. handle[c].mapped[job[d].JobId] = "addJob" BY <2>3, <3>1 DEF Listed
    <3>5. d \in jobs BY <1>1, <3>1, <3>2, <3>3, <3>4 DEF MaySchedule, FindJob
    <3> QED BY <1>3, <3>5
  <2> HIDE DEF r
  <2>4. \A i \in Ids : Listed(c, i) /\ Needed(i) => ~ TakesOff(r, i)
    BY <2>2, <2>3 DEF TakesOff
  <2>5. KeepsLists BY <2>1, <2>2, <2>4, ListsStay DEF Threads
  <2> QED BY <2>1, <2>2, <2>5, RestStays, FreeLeaves DEF disk
<1> QED BY <1>2, <1>3

\* Where the client stays idle, and the handles as they are.
LEMMA IdleStays ==
  ASSUME AddInv, NEW c \in Clients, At(c, "idle"), UNCHANGED <<thread, handle>>
  PROVE  /\ thread[c] \in ThreadRecords /\ Free(thread[c]) /\ thread' = [thread EXCEPT ![c] = thread[c]]
         /\ KeepsLists
<1>1. thread[c] \in ThreadRecords /\ thread' = [thread EXCEPT ![c] = thread[c]] BY FreeRecords
<1>2. Free(thread[c]) BY DEF Free, At
<1>3. KeepsLists BY <1>1, ListsStay DEF Listed, Threads
<1> QED BY <1>1, <1>2, <1>3

\* An application writes a file, users change a job, or the form of the printer changes.
LEMMA UsersLeave ==
  ASSUME AddInv, NEW c \in Clients,
         UnblockJobs(c) \/ \E d \in Docs : WriteSpoolFile(c, d) \/ DeleteByUser(c, d) \/ RestartJob(c, d)
  PROVE  LeavesLists(c)
<1>0. /\ c \in Threads /\ AddTypes /\ job \in [Docs -> JobRecords] /\ RestTypes
      /\ thread \in [Threads -> ThreadRecords]
  BY DEF Threads, AddInv, AddTypes
<1>1. CASE UnblockJobs(c)
  <2>1. /\ At(c, "idle") /\ UNCHANGED <<mapVars, handle, thread, disk>>
        /\ job' = [d \in Docs |-> [job[d] EXCEPT !.Status = @ \ {"BLOCKED_DEVQ"}]]
    BY <1>1 DEF UnblockJobs
  <2>2. ASSUME NEW e \in Docs
        PROVE  /\ job'[e] \in JobRecords /\ LeftOf(job'[e], job[e])
               /\ job'[e].state = job[e].state
    <3>1. job[e] \in JobRecords /\ job'[e] = [job[e] EXCEPT !.Status = @ \ {"BLOCKED_DEVQ"}]
      BY <1>0, <2>1
    <3>2. job'[e].state = job[e].state BY <3>1 DEF JobRecords
    <3>3. job[e].Status \ {"BLOCKED_DEVQ"} \subseteq job[e].Status OBVIOUS
    <3> QED BY <3>1, <3>2, <3>3, SmallerLeft
  <2>3. job' \in [Docs -> JobRecords] BY <2>1, <2>2
  <2>4. KeepsLists BY <2>1, IdleStays
  <2>5. RestTypes' BY <2>1, RestStays DEF disk
  <2>6. AddTypes' BY <1>0, <2>1, <2>3, <2>4, <2>5 DEF AddTypes, KeepsLists
  <2>7. thread'[c].pc = "idle" /\ AddThread(thread'[c]) /\ "idle" \notin WorkPcs \cup CallPcs
    BY <2>1 DEF At, AddInv, AddThreads, Threads, WorkPcs, CallPcs, RemovePcs, WritePcs, PortPcs
  <2> QED BY <2>1, <2>2, <2>4, <2>6, <2>7 DEF LeavesLists
<1>2. ASSUME NEW d \in Docs, WriteSpoolFile(c, d) PROVE LeavesLists(c)
  <2>1. At(c, "idle") /\ UNCHANGED <<mapVars, job, handle, thread, shadow>> BY <1>2 DEF WriteSpoolFile
  <2> QED BY <2>1, IdleStays, RestStays, FreeLeaves
<1>3. ASSUME NEW d \in Docs, DeleteByUser(c, d) PROVE LeavesLists(c)
  <2> DEFINE s == job[d].Status \ {"RESTART"}
             j == [job[d] EXCEPT !.Status = s]
  <2>1. /\ d \in Queued /\ DeleteJob(c, d, j, "idle") /\ UNCHANGED <<mapVars, handle, shadow>>
    BY <1>3 DEF DeleteByUser, disk
  <2>2. s \subseteq job[d].Status /\ job[d] \in JobRecords /\ Made(job[d])
    BY <1>0, <2>1 DEF Queued, Made
  <2> HIDE DEF s
  <2>3. j \in JobRecords /\ LeftOf(j, job[d]) BY <2>2, SmallerLeft
  <2>4. j.JobId = job[d].JobId /\ MayReturn(c, d, "idle") BY <2>3 DEF LeftOf, MayReturn
  <2> HIDE DEF j
  <2>5. Disposes(c, d, j, "idle") BY <1>0, <2>1, <2>3, <2>4, DeletesPrinting
  <2> QED BY <1>0, <2>1, <2>2, <2>3, <2>5, DeletedLeaves
<1>4. ASSUME NEW d \in Docs, RestartJob(c, d) PROVE LeavesLists(c)
  <2> DEFINE s == (job[d].Status \cup {"RESTART"}) \
                    IF "DESPOOLING" \in job[d].Status THEN {} ELSE {"PRINTED", "BLOCKED_DEVQ"}
             k == [job[d] EXCEPT !.Status = s]
  <2>1. /\ At(c, "idle") /\ d \in Queued /\ SetJob(d, k) /\ UNCHANGED <<mapVars, handle, thread, disk>>
    BY <1>4 DEF RestartJob
  <2>2. job[d] \in JobRecords /\ Made(job[d]) /\ job[d].Status \in SUBSET Flags
    BY <1>0, <2>1 DEF Queued, Made, JobRecords
  <2>3. s \in SUBSET Flags /\ \A f \in {"SPOOLING", "SCHEDULE_JOB"} : f \in s => f \in job[d].Status
    BY <2>2 DEF Flags
  <2> HIDE DEF s
  <2>4. k \in JobRecords /\ LeftOf(k, job[d]) BY <2>2, <2>3 DEF JobRecords, LeftOf, Made
  <2> HIDE DEF k
  <2>5. /\ thread[c] \in ThreadRecords /\ Free(thread[c]) /\ KeepsLists
        /\ thread' = [thread EXCEPT ![c] = thread[c]]
    BY <2>1, IdleStays
  <2>6. Becomes(c, d, k, thread[c]) BY <2>1, <2>4, <2>5, FreeIsFine DEF Becomes, SetJob
  <2>7. RestTypes' BY <2>1, RestStays DEF disk
  <2> QED BY <1>0, <2>2, <2>4, <2>5, <2>6, <2>7, BecomesLeaves
<1> QED BY <1>1, <1>2, <1>3, <1>4

\* The ids that the bitmap may give are in range.
LEMMA NextIdTypes ==
  ASSUME AddInv, NEW id \in Ids, NextId(id)
  PROVE  dwMaxJobId' \in 1 .. MaxIds + 1
<1>1. dwMaxJobId' = dwMaxJobId \/ (dwMaxJobId < MaxIds /\ dwMaxJobId' = dwMaxJobId + 1)
  BY DEF NextId
<1>2. dwMaxJobId \in 1 .. MaxIds + 1 /\ MaxIds \in Nat
  BY ConstantsAssumption DEF AddInv, AddTypes, RestTypes
<1> QED BY <1>1, <1>2

\* AddJob takes a document nobody has, and an id,
LEMMA AddJobLeaves ==
  ASSUME AddInv, NEW c \in Clients, NEW d \in Docs, AddJob(c, d)
  PROVE  LeavesLists(c)
<1>0. /\ c \in Threads /\ job \in [Docs -> JobRecords] /\ RestTypes /\ job[d] \in JobRecords
      /\ handle \in [Clients -> HandleRecords] /\ thread \in [Threads -> ThreadRecords]
  BY DEF Threads, AddInv, AddTypes
<1>1. PICK id \in Ids :
        \/ /\ GetNextId(id)
           /\ thread' = [thread EXCEPT ![c] = [pc |-> "addJob", doc |-> d, id |-> id, then |-> "idle"]]
           /\ SetJob(d, [job[d] EXCEPT !.state = "submitted"])
        \/ NextId(id) /\ dwCurrentJobId' = id /\ UNCHANGED <<idMap, thread, job>>
  BY DEF AddJob
<1>2. At(c, "idle") /\ job[d].state = "new" /\ UNCHANGED <<handle, shadow>> BY DEF AddJob, disk
<1>3. RestTypes'
  <2>1. NextId(id) /\ dwCurrentJobId' \in Ids /\ idMap' \subseteq Ids
    BY <1>0, <1>1 DEF GetNextId, RestTypes
  <2> QED BY <1>0, <1>2, <2>1, NextIdTypes DEF RestTypes
<1>4. CASE UNCHANGED <<thread, job>> BY <1>2, <1>3, <1>4, IdleStays, FreeLeaves
<1>5. CASE /\ thread' = [thread EXCEPT ![c] = [pc |-> "addJob", doc |-> d, id |-> id, then |-> "idle"]]
           /\ SetJob(d, [job[d] EXCEPT !.state = "submitted"])
  <2> DEFINE r == [pc |-> "addJob", doc |-> d, id |-> id, then |-> "idle"]
             k == [job[d] EXCEPT !.state = "submitted"]
  <2>1. r \in ThreadRecords /\ AddThread(r) /\ r.pc = "addJob" /\ r.doc = d /\ \A i : ~ TakesOff(r, i)
    BY DEF ThreadRecords, Pcs, AddThread, TakesOff, SubmitPcs, CallPcs, RemovePcs, WritePcs, PortPcs
  <2>2. k \in JobRecords /\ LeftOf(k, job[d]) /\ k.state = "submitted"
    BY <1>0, <1>2 DEF JobRecords, LeftOf, Made
  <2>3. thread' = [thread EXCEPT ![c] = r] /\ job' = [job EXCEPT ![d] = k] BY <1>5 DEF SetJob
  <2> HIDE DEF r, k
  <2>4. KeepsLists BY <1>0, <1>2, <2>1, <2>3, ListsStay
  <2>5. AddTypes' BY <1>0, <1>3, <2>1, <2>2, <2>3, <2>4 DEF AddTypes, KeepsLists
  <2>6. /\ thread'[c] = r /\ \A u \in Threads : u # c => thread'[u] = thread[u]
    BY <1>0, <2>3
  <2>7. \A e \in Docs : LeftOf(job'[e], job[e]) /\ (job[e].state = "submitted" => job'[e].state = "submitted")
    BY <1>0, <2>2, <2>3, SameLeft
  <2>8. job'[d].state = "submitted" BY <1>0, <2>2, <2>3
  <2>9. "addJob" \notin WorkPcs \cup CallPcs BY DEF WorkPcs, CallPcs, RemovePcs, WritePcs, PortPcs
  <2> QED BY <1>2, <2>1, <2>4, <2>5, <2>6, <2>7, <2>8, <2>9 DEF LeavesLists
<1> QED BY <1>1, <1>4, <1>5

\* ... and makes the job with SplSem again, and lists it.
LEMMA LocalAddJobLeaves ==
  ASSUME AddInv, NEW c \in Clients, LocalAddJob(c)
  PROVE  LeavesLists(c)
<1>a. /\ c \in Threads /\ At(c, "addJob") /\ job \in [Docs -> JobRecords] /\ RestTypes
      /\ handle \in [Clients -> HandleRecords] /\ thread \in [Threads -> ThreadRecords]
      /\ AddThread(thread[c]) /\ ~ handle[c].STARTDOC
  BY DEF Threads, AddInv, AddTypes, AddThreads, AddHandles, LocalAddJob
<1>b. PICK d \in Docs, id \in Ids : thread[c].doc = d /\ thread[c].id = id
  BY <1>a DEF AddThread, At, ThreadRecords
<1> DEFINE r == Resumed(c, "idle")
<1>0. /\ job[d] \in JobRecords /\ job[d].state = "submitted" /\ handle[c] \in HandleRecords
      /\ d \in Docs /\ id \in Ids
  BY <1>a, <1>b DEF AddInv, AddDocs
<1>1. /\ r \in ThreadRecords /\ Free(r) /\ (\A i : ~ TakesOff(r, i)) /\ r.pc = "idle"
      /\ thread' = [thread EXCEPT ![c] = r] /\ UNCHANGED disk
  BY FreeRecords DEF LocalAddJob, Resume, Resumed, Idle
<1>2. /\ thread'[c] = r /\ AddThread(r) /\ \A u \in Threads : u # c => thread'[u] = thread[u]
  BY <1>0, <1>a, <1>b, <1>1, FreeIsFine
<1>3. "idle" \notin WorkPcs \cup CallPcs BY DEF WorkPcs, CallPcs, RemovePcs, WritePcs, PortPcs
<1> HIDE DEF r
<1>4. CASE SetJob(d, [job[d] EXCEPT !.state = "gone"]) /\ vMarkOff(id) /\ UNCHANGED handle
  <2> DEFINE k == [job[d] EXCEPT !.state = "gone"]
  <2>1. k \in JobRecords /\ LeftOf(k, job[d]) BY <1>0, <1>a, <1>b DEF JobRecords, LeftOf, Made
  <2>2. job' = [job EXCEPT ![d] = k] BY <1>4 DEF SetJob
  <2> HIDE DEF k
  <2>3. KeepsLists BY <1>0, <1>a, <1>b, <1>1, <1>4, ListsStay
  <2>4. RestTypes' BY <1>1, <1>4, RestStays DEF disk
  <2>5. AddTypes' BY <1>0, <1>a, <1>b, <1>1, <2>1, <2>2, <2>3, <2>4 DEF AddTypes, KeepsLists
  <2>6. \A e \in Docs : LeftOf(job'[e], job[e]) /\ (e # d => job'[e] = job[e])
    BY <1>0, <1>a, <1>b, <2>1, <2>2, SameLeft
  <2> QED BY <1>0, <1>a, <1>b, <1>1, <1>2, <1>3, <2>3, <2>5, <2>6 DEF LeavesLists
<1>5. CASE /\ SetJob(d, NewJob(d, id, {"SPOOLING"}))
           /\ handle' = [handle EXCEPT ![c].mapped[id] = "addJob",
                                       ![c].ADDJOB = TRUE, ![c].pIniJob = d]
           /\ UNCHANGED mapVars
  <2> DEFINE k == NewJob(d, id, {"SPOOLING"})
             h == [handle[c] EXCEPT !.mapped[id] = "addJob", !.ADDJOB = TRUE, !.pIniJob = d]
  <2>1. k \in JobRecords /\ k.state = "queued" /\ k.JobId = id /\ k.Status = {"SPOOLING"}
    BY <1>0, <1>a, <1>b DEF NewJob, JobRecords, Flags
  <2>2. /\ h \in HandleRecords /\ ~ h.STARTDOC /\ h.mapped[id] = "addJob"
        /\ \A i \in Ids : i # id => h.mapped[i] = handle[c].mapped[i]
    BY <1>0, <1>a, <1>b DEF HandleRecords
  <2>3. job' = [job EXCEPT ![d] = k] /\ handle' = [handle EXCEPT ![c] = h] BY <1>0, <1>a, <1>b, <1>5 DEF SetJob
  <2> HIDE DEF k, h
  <2>4. KeepsLists
    <3>1. \A i \in Ids : Listed(c, i) => h.mapped[i] = "addJob" /\ ~ TakesOff(r, i)
      BY <1>1, <2>2 DEF Listed
    <3> QED BY <1>1, <2>2, <2>3, <3>1, OwnHandle
  <2>5. RestTypes' BY <1>1, <1>5, RestStays DEF disk
  <2>6. AddTypes' BY <1>0, <1>a, <1>b, <1>1, <2>1, <2>3, <2>4, <2>5 DEF AddTypes, KeepsLists
  <2>7. job'[d] = k /\ \A e \in Docs : e # d => job'[e] = job[e] BY <1>0, <1>a, <1>b, <2>3
  <2>8. handle'[c] = h BY <1>0, <1>a, <1>b, <2>3
  <2>9. SeenTo(d)'
    <3>1. ~ Is(d, "SCHEDULE_JOB")' BY <2>1, <2>7 DEF Is
    <3>2. Listed(c, job[d].JobId)' BY <1>1, <1>2, <2>1, <2>2, <2>7, <2>8 DEF Listed
    <3> QED BY <3>1, <3>2 DEF SeenTo
  <2>10. MadeBy(c, d) BY <1>0, <1>a, <1>b, <2>1, <2>7, <2>9 DEF MadeBy, Made
  <2> QED BY <1>0, <1>a, <1>b, <1>1, <1>2, <1>3, <2>4, <2>6, <2>7, <2>10, SameLeft DEF LeavesLists
<1> QED BY <1>b, <1>4, <1>5 DEF LocalAddJob

\* Every step of an application or a user.  StartDocPrinter and what follows it do not occur.
LEMMA ClientLeavesLists ==
  ASSUME AddJobOnly, AddInv, QueueIdsUnique, NEW c \in Clients, ClientStep(c)
  PROVE  LeavesLists(c)
<1>1. thread[c].pc \notin SubmitPcs \cup {"deleteFile"} /\ ~ handle[c].STARTDOC
  BY DEF AddInv, AddThreads, AddThread, AddHandles, Threads
<1>2. ~ (CreateSpoolFile(c) \/ SpoolThisJob(c) \/ SpoolThisJobFails(c) \/ GetSpoolFileHandle(c)
         \/ EndDocPrinter(c) \/ \E d \in Docs : StartDocPrinter(c, d))
  BY <1>1 DEF CreateSpoolFile, SpoolThisJob, SpoolThisJobFails, GetSpoolFileHandle, EndDocPrinter,
              StartDocPrinter, At, SubmitPcs, AddJobOnly
<1>3. ASSUME NEW d \in Docs, ScheduleJob(c, d) PROVE LeavesLists(c)
  <2>1. d \in Queued /\ LocalScheduleJob(c, d, "idle") /\ MayReturn(c, d, "idle")
    BY <1>3 DEF ScheduleJob, MayReturn
  <2> QED BY <2>1, SchedulesLeaves
<1> QED BY <1>2, <1>3, LocalAddJobLeaves, ClosePrinterLeaves, CloseNextLeaves, CloseSchedulesLeaves,
           ClosePopsLeaves, CloseForgetsLeaves, ClosedLeaves, UsersLeave, AddJobLeaves DEF ClientStep

----------------------------------------------------------------------------
(* Crashes, and every step.                                                 *)

\* A job that is read again was spooled to its end, and no thread has survived.
LEMMA CrashAdd ==
  ASSUME AddInv, Crash
  PROVE  AddInv'
<1> DEFINE read == {i \in Ids : Readable(i)}
           id(d) == CHOOSE i \in read : shadow[i].doc = d
           Found(d) == \E i \in read : shadow[i].doc = d
           Lost == [NoJob EXCEPT !.state = "gone"]
<1>1. AddTypes /\ RestTypes /\ read \subseteq Ids BY DEF AddInv, AddTypes
<1>2. Restart BY DEF Crash
<1>3. /\ \A t \in Threads : thread'[t] = Idle
      /\ \A c \in Clients : handle'[c] = NewHandle
      /\ thread' \in [Threads -> ThreadRecords] /\ handle' \in [Clients -> HandleRecords]
  BY <1>2, NothingTypes DEF Restart
<1>4. RestTypes'
  <2>1. /\ idMap' = read /\ dwCurrentJobId' = 1
        /\ dwMaxJobId' \in {i + 1 : i \in read} \cup {MinIds}
        /\ shadow' = [i \in Ids |-> IF i \in read \/ spool[i] = NoDoc THEN shadow[i] ELSE NoShadow]
    BY <1>2 DEF Restart
  <2>2. \A i \in read : i + 1 \in 1 .. MaxIds + 1 BY ConstantsAssumption DEF Ids
  <2>3. MinIds \in 1 .. MaxIds + 1 /\ 1 \in Ids BY ConstantsAssumption DEF Ids
  <2>4. dwMaxJobId' \in 1 .. MaxIds + 1 BY <2>1, <2>2, <2>3
  <2>5. shadow' \in [Ids -> ShadowRecords] BY <1>1, <2>1, NothingTypes DEF RestTypes
  <2> QED BY <1>1, <2>1, <2>3, <2>4, <2>5 DEF RestTypes
<1>5. ASSUME NEW i \in Ids
      PROVE  ReadShadowJob(i) \in JobRecords /\ "SPOOLING" \notin ReadShadowJob(i).Status
  <2>1. shadow[i].dwReboots \in Int /\ shadow[i].Status \cap {"PRINTED"} \in SUBSET Flags
        /\ "SPOOLING" \notin shadow[i].Status \cap {"PRINTED"}
    BY <1>1, <1>5 DEF RestTypes, ShadowRecords
  <2> QED BY <1>5, <2>1 DEF ReadShadowJob, JobRecords
<1>6. /\ NoJob \in JobRecords /\ Lost \in JobRecords
      /\ "SPOOLING" \notin NoJob.Status /\ "SPOOLING" \notin Lost.Status
  BY NothingTypes DEF NoJob, JobRecords
<1> DEFINE f == [d \in Docs |->
                   IF Found(d) THEN ReadShadowJob(id(d)) ELSE IF job[d].state = "new" THEN NoJob ELSE Lost]
<1>7. job' = f BY <1>2 DEF Restart
<1>8. ASSUME NEW d \in Docs PROVE job'[d] \in JobRecords /\ "SPOOLING" \notin job'[d].Status
  <2>1. CASE Found(d)
    <3>1. id(d) \in read BY <2>1
    <3>2. job'[d] = ReadShadowJob(id(d)) BY <1>7, <2>1
    <3> QED BY <1>1, <1>5, <3>1, <3>2
  <2>2. CASE ~ Found(d)
    <3>1. job'[d] \in {NoJob, Lost} BY <1>7, <2>2
    <3> QED BY <1>6, <3>1
  <2> QED BY <2>1, <2>2
<1>9. AddTypes'
  <2>1. \E g : job' = [d \in Docs |-> g[d]]
    <3>1. f = [d \in Docs |-> f[d]] OBVIOUS
    <3> QED BY <1>7, <3>1
  <2>2. job' \in [Docs -> JobRecords] BY <1>8, <2>1
  <2> QED BY <1>3, <1>4, <2>2 DEF AddTypes
<1>10. AddThreads' /\ AddDocs' /\ AddHandles'
  <2>1. Idle.pc = "idle" /\ Idle.then = "idle" /\ ~ NewHandle.STARTDOC BY DEF Idle, NewHandle
  <2>2. "idle" \notin SubmitPcs \cup WorkPcs \cup CallPcs \cup RemovePcs \cup WritePcs \cup PortPcs
    BY DEF SubmitPcs, WorkPcs, CallPcs, RemovePcs, WritePcs, PortPcs
  <2> QED BY <1>3, <2>1, <2>2 DEF AddThreads, AddThread, AddDocs, AddHandles, At
<1>11. \A d \in Queued' : SeenTo(d)' BY <1>8 DEF SeenTo, Is, Queued
<1> QED BY <1>9, <1>10, <1>11 DEF AddInv

\* The invariant holds at first,
LEMMA InitAdd == Init => AddInv
<1> SUFFICES ASSUME Init PROVE AddInv OBVIOUS
<1>1. AddTypes
  <2>1. 1 \in Ids /\ MinIds \in 1 .. MaxIds + 1 BY ConstantsAssumption DEF Ids
  <2> QED BY <2>1, NothingTypes DEF Init, AddTypes, RestTypes
<1>2. \A t \in Threads : thread[t] = Idle BY DEF Init
<1>3. Idle.pc = "idle" /\ Idle.then = "idle" BY DEF Idle
<1>4. "idle" \notin SubmitPcs \cup WorkPcs \cup CallPcs \cup RemovePcs \cup WritePcs \cup PortPcs
  BY DEF SubmitPcs, WorkPcs, CallPcs, RemovePcs, WritePcs, PortPcs
<1>5. AddThreads /\ AddDocs BY <1>2, <1>3, <1>4 DEF AddThreads, AddThread, AddDocs, At
<1>6. AddHandles BY DEF Init, AddHandles, NewHandle
<1>7. Queued = {} BY DEF Init, Queued, NoJob
<1> QED BY <1>1, <1>5, <1>6, <1>7 DEF AddInv

\* ... and is inductive, while no two jobs of the queue have one id.
LEMMA AddStep ==
  ASSUME AddJobOnly, AddInv, QueueIdsUnique, [Next]_vars
  PROVE  AddInv'
<1>1. ASSUME NEW t \in Threads, FileStep(t) PROVE AddInv' BY <1>1, FileLeavesLists, LeavesOK
<1>2. ASSUME NEW c \in Clients, ClientStep(c) PROVE AddInv'
  BY <1>2, ClientLeavesLists, LeavesOK DEF Threads
<1>3. CASE PortStep BY <1>3, PortLeaves, LeavesOK DEF Threads
<1>4. CASE Crash BY <1>4, CrashAdd
<1>5. CASE UNCHANGED vars
  BY <1>5 DEF vars, mapVars, disk, AddInv, AddTypes, RestTypes, AddThreads, AddDocs, At, AddHandles, SeenTo,
              Listed, Is, Queued
<1> QED BY <1>1, <1>2, <1>3, <1>4, <1>5 DEF Next

\* The jobs of AddJob are run down with their handle (close.c 231-304): one that nobody has
\* scheduled stays on the list of a handle, whatever is deleted, printed or lost in a crash, where
\* all documents come by AddJob and no two jobs of the queue have the same id.
THEOREM AddJobsAreRunDown ==
  ASSUME AddJobOnly
  PROVE  Spec /\ []QueueIdsUnique => []AddJobsRunDown
<1>1. AddInv /\ QueueIdsUnique /\ [Next]_vars => AddInv' BY AddStep
<1>2. AddInv => AddJobsRunDown BY SeenToRunDown
<1> QED BY <1>1, <1>2, InitAdd, PTL DEF Spec

=============================================================================
