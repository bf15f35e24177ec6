--------------------------- MODULE JobStoreFiles ----------------------------
(***************************************************************************)
(* What the files of the spool directory hold, for every number of         *)
(* documents, clients, ids and crashes, where documents are submitted by   *)
(* StartDocPrinter: the spool file of a job is its own, no id and no file  *)
(* is left behind, a crash loses nothing that was acknowledged, and brings *)
(* back nothing that was deleted, and a document that takes the spooler    *)
(* down is given up.                                                       *)
(*                                                                         *)
(* The argument is about who still has to do with a file when SplSem is    *)
(* given up: the job in the queue, the thread that removed it, or a thread *)
(* that writes or deletes the shadow file of a job that it refers to.      *)
(***************************************************************************)
EXTENDS JobStoreProofs

\* A job has its own spool file, from StartDocPrinter to DeleteJob.
SpoolFiles ==
  /\ \A d \in Queued : spool[job[d].JobId] = d
  /\ \A t \in Threads : thread[t].pc \in {"queue", "removeShadow", "removeSpool"} =>
       spool[thread[t].id] = thread[t].doc

\* The id of a StartDocPrinter that failed is nobody's.
FailedIds ==
  \A t \in Threads : At(t, "deleteFile") =>
    /\ thread[t].id \in idMap /\ FindJob(thread[t].id) = {}
    /\ \A u \in Threads : ~ HoldsId(u, thread[t].id)

\* A thread in DeleteJob or WriteShadowJob is at the files of its job.
OwnIds ==
  \A t \in Threads : thread[t].pc \in CallPcs \cup WritePcs =>
    thread[t].id = job[thread[t].doc].JobId

\* A document is in no file before it is submitted, and in one at most after that.
SpoolNamed ==
  \A i \in Ids : spool[i] # NoDoc =>
    /\ job[spool[i]].state # "new"
    /\ \A t \in Threads : At(t, "create") => thread[t].doc # spool[i]
SpoolOnce == \A i, j \in Ids : spool[i] # NoDoc /\ spool[i] = spool[j] => i = j

\* A shadow file has a job, or a thread that is about to delete it, and names the
\* document of the spool file.
ShadowHeld ==
  \A i \in Ids : shadow[i].file # "none" =>
    FindJob(i) # {} \/ \E t \in Threads : At(t, "removeShadow") /\ thread[t].id = i
ShadowOf == \A i \in Ids : shadow[i].file = "good" => shadow[i].doc = spool[i]

\* Where SHADOW_DELETED says that the shadow file of a job is gone, it is, or a thread
\* is about to delete it or to take the mark back.
Attending == {"deleteShadow", "shadowKept", "write", "closeFile", "written"}
Attends(t, d) == thread[t].doc = d /\ thread[t].pc \in Attending
ShadowGone ==
  \A d \in Queued : Is(d, "SHADOW_DELETED") =>
    shadow[job[d].JobId].file = "none" \/ \E t \in Threads : Attends(t, d)

FileInv ==
  /\ SpoolFiles /\ FailedIds /\ OwnIds /\ SpoolNamed /\ SpoolOnce
  /\ ShadowHeld /\ ShadowOf /\ ShadowGone

----------------------------------------------------------------------------
(* What a step does in memory.                                              *)

\* Thread t takes a job to the queue only in StartDocPrinter, and from it only in
\* DeleteJob, and then has its files to delete.
JobsMove(t) ==
  \A e \in Docs :
    /\ job'[e].state = "queued" =>
         \/ job[e].state = "queued" /\ job'[e].JobId = job[e].JobId
         \/ /\ At(t, "queue") /\ thread[t].doc = e /\ job'[e].JobId = thread[t].id
            /\ ~ Is(e, "SHADOW_DELETED")' /\ thread'[t].pc = "idle"
    /\ job'[e].state = "new" => job[e].state = "new"
    /\ job[e].state = "queued" /\ job'[e].state # "queued" =>
         /\ thread'[t].doc = e /\ thread'[t].id = job[e].JobId
         /\ \/ thread'[t].pc = "removeShadow"
            \/ thread'[t].pc = "removeSpool" /\ Is(e, "SHADOW_DELETED") /\ ~ Attends(t, e)
    /\ job[e].state = "queued" /\ job'[e].state = "queued" /\ Is(e, "SHADOW_DELETED")' =>
         \/ Attends(t, e)' \/ (Is(e, "SHADOW_DELETED") /\ ~ Attends(t, e))
         \/ shadow'[job[e].JobId].file = "none"

\* Where it goes.
ThreadMoves(t) ==
  LET r == thread[t]
      q == thread'[t]
  IN /\ \A u \in Threads : u # t => thread'[u] = thread[u]
     /\ q.pc = "create" => job[q.doc].state = "new" \/ q = r
     /\ q.pc = "queue" => (r.pc = "create" \/ r.pc = "queue") /\ q.doc = r.doc /\ q.id = r.id
     /\ q.pc = "deleteFile" => q = r \/ (r.pc = "queue" /\ q.id = r.id /\ idMap' = idMap)
     /\ q.pc = "removeShadow" =>
          q = r \/ (job[q.doc].state = "queued" /\ q.doc \in Docs /\ q.id = job[q.doc].JobId)
     /\ q.pc = "removeSpool" =>
          \/ q = r
          \/ r.pc = "removeShadow" /\ q.doc = r.doc /\ q.id = r.id
          \/ job[q.doc].state = "queued" /\ q.doc \in Docs /\ q.id = job[q.doc].JobId
     /\ q.pc \in CallPcs \cup WritePcs => q.id = job'[q.doc].JobId

\* It gives no id away that another uses.
IdsStay(t) ==
  \A i \in Ids : /\ i \in idMap => i \in idMap' \/ HoldsId(t, i)
                 /\ HoldsId(t, i)' => FindJob(i) # {} \/ HoldsId(t, i) \/ i \notin idMap

Memory(t) == JobsMove(t) /\ ThreadMoves(t) /\ IdsStay(t)

\* A step of its own thread is such a step.
LEMMA StepIds ==
  ASSUME NEW t \in Threads, NEW d, StepOK(t, d)
  PROVE  IdsStay(t)
<1>1. IdStep(t, d) BY DEF StepOK
<1>2. \A i : IsId(d, i) => FindJob(i) # {}
  <2> SUFFICES ASSUME NEW i, IsId(d, i) PROVE d \in FindJob(i) OBVIOUS
  <2> QED BY DEF IsId, FindJob, Queued
<1> QED BY <1>1, <1>2 DEF IdStep, IdsStay

\* A thread in DeleteJob or WriteShadowJob refers to its job.
Referring ==
  \A t \in Threads : thread[t].pc \in CallPcs \cup WritePcs =>
    thread[t].doc \in Docs /\ job[thread[t].doc].state = "queued"

LEMMA AtJobs == StoreInv => Referring
<1> SUFFICES ASSUME StoreInv, NEW t \in Threads, thread[t].pc \in CallPcs \cup WritePcs
             PROVE  thread[t].doc \in Docs /\ job[thread[t].doc].state = "queued"
  BY DEF Referring
<1>1. ThreadOK(t) /\ thread[t].doc \in Docs /\ t \in Clients \cup {Port}
  <2>1. ThreadOK(t) BY Known
  <2> QED BY <2>1 DEF ThreadOK, CallPcs, WritePcs, Threads
<1>2. CASE thread[t].pc \in CallPcs BY <1>1, <1>2, ReferredQueued DEF Calls
<1>3. CASE thread[t].pc \in WritePcs
  <2>1. \/ t \in Clients /\ Spools(handle[t], thread[t].doc)
        \/ Despools(thread[t].doc)
    BY <1>1, <1>3 DEF ThreadOK, PortBusy
  <2> QED BY <1>1, <2>1, ReferredQueued
<1> QED BY <1>2, <1>3

\* The ids of failed calls stay nobody's, and threads at their own files.
LEMMA MemoryKeeps ==
  ASSUME StoreInv, StoreInv', FailedIds, OwnIds, NEW t \in Threads, Memory(t)
  PROVE  FailedIds' /\ OwnIds'
<1>0. /\ IdsOK /\ \A u \in Threads : ThreadOK(u) /\ thread[u].id \in Ids
      /\ \A u \in Threads : thread'[u].id \in Ids
      /\ \A e \in Docs : job'[e].JobId \in Ids
      /\ IdsStay(t) /\ JobsMove(t) /\ ThreadMoves(t)
  BY Known DEF ThreadRecords, StoreInv, Types, JobRecords, Memory
<1>1. Referring /\ Referring' BY AtJobs, PTL
<1>2. ASSUME NEW u \in Threads, NEW i \in Ids, At(u, "deleteFile")', thread'[u].id = i
      PROVE  i \in idMap' /\ FindJob(i)' = {} /\ \A x \in Threads : ~ HoldsId(x, i)'
  <2>1. /\ i \in idMap /\ i \in idMap' /\ FindJob(i) = {}
        /\ \A x \in Threads : x # t => ~ HoldsId(x, i)
        /\ HoldsId(t, i) => thread'[t].pc = "deleteFile"
    <3>1. CASE thread'[u] = thread[u]
      <4>1. At(u, "deleteFile") /\ thread[u].id = i BY <1>2, <3>1 DEF At
      <4> QED BY <1>0, <4>1 DEF FailedIds, IdsStay
    <3>2. CASE thread'[u] # thread[u]
      <4>1. u = t /\ thread'[t].pc = "deleteFile" BY <1>0, <1>2, <3>2 DEF ThreadMoves, At
      <4>2. thread[t].pc = "queue" /\ thread[t].id = i /\ idMap' = idMap
        BY <1>0, <1>2, <3>2, <4>1 DEF ThreadMoves
      <4>3. HoldsId(t, i) BY <4>2 DEF HoldsId
      <4> QED BY <1>0, <4>1, <4>2, <4>3 DEF IdsOK
    <3> QED BY <3>1, <3>2
  <2>2. ASSUME NEW e \in Docs, job'[e].state = "queued", job'[e].JobId = i PROVE FALSE
    <3>1. CASE job[e].state = "queued" /\ job'[e].JobId = job[e].JobId
      BY <2>1, <2>2, <3>1 DEF FindJob, Queued
    <3>2. CASE At(t, "queue") /\ job'[e].JobId = thread[t].id /\ thread'[t].pc = "idle"
      <4>1. HoldsId(t, i) BY <2>2, <3>2 DEF HoldsId, At
      <4> QED BY <2>1, <3>2, <4>1
    <3> QED BY <1>0, <2>2, <3>1, <3>2 DEF JobsMove
  <2>3. FindJob(i)' = {} BY <2>2 DEF FindJob, Queued
  <2>4. ASSUME NEW x \in Threads PROVE ~ HoldsId(x, i)'
    <3>1. CASE x = t BY <1>0, <2>1, <3>1 DEF IdsStay, HoldsId
    <3>2. CASE x # t
      <4>1. thread'[x] = thread[x] BY <1>0, <3>2 DEF ThreadMoves
      <4> QED BY <2>1, <3>2, <4>1 DEF HoldsId
    <3> QED BY <3>1, <3>2
  <2> QED BY <2>1, <2>3, <2>4
<1>3. ASSUME NEW u \in Threads, thread'[u].pc \in CallPcs \cup WritePcs
      PROVE  thread'[u].id = job'[thread'[u].doc].JobId
  <2>1. CASE u = t BY <1>0, <1>3, <2>1 DEF ThreadMoves
  <2>2. CASE u # t
    <3>1. thread'[u] = thread[u] BY <1>0, <2>2 DEF ThreadMoves
    <3>2. thread[u].doc \in Docs /\ job[thread[u].doc].state = "queued"
          /\ job'[thread[u].doc].state = "queued"
      BY <1>1, <1>3, <3>1 DEF Referring
    <3>3. job'[thread[u].doc].JobId = job[thread[u].doc].JobId
      <4>1. SUFFICES ASSUME At(t, "queue"), thread[t].doc = thread[u].doc PROVE FALSE
        BY <1>0, <3>2 DEF JobsMove
      <4>2. job[thread[t].doc].state = "submitted" BY <1>0, <4>1 DEF ThreadOK, At, SubmitPcs
      <4> QED BY <3>2, <4>1, <4>2
    <3> QED BY <1>3, <3>1, <3>3 DEF OwnIds
  <2> QED BY <2>1, <2>2
<1>4. FailedIds'
  <2>1. SUFFICES ASSUME NEW u \in Threads, At(u, "deleteFile")'
                 PROVE  /\ thread'[u].id \in idMap' /\ FindJob(thread[u].id)' = {}
                        /\ \A x \in Threads : ~ HoldsId(x, thread[u].id)'
    BY DEF FailedIds
  <2>2. PICK i \in Ids : thread'[u].id = i BY <1>0
  <2>3. i \in idMap' /\ FindJob(i)' = {} /\ \A x \in Threads : ~ HoldsId(x, i)' BY <1>2, <2>1, <2>2
  <2> QED BY <2>2, <2>3 DEF FindJob, HoldsId
<1>5. OwnIds' BY <1>3 DEF OwnIds
<1> QED BY <1>4, <1>5

\* What a job and a thread are to each other after the step.
LEMMA MemoryFacts ==
  ASSUME StoreInv, StoreInv', NEW t \in Threads, Memory(t)
  PROVE  /\ \A u \in Threads : u # t => thread'[u] = thread[u]
         /\ \A e \in Docs : job[e].state = "queued" /\ job'[e].state = "queued" =>
              job'[e].JobId = job[e].JobId
         /\ \A e \in Docs : \A u \in Threads :
              u # t /\ Attends(u, e) => job'[e].state = "queued" /\ Attends(u, e)'
<1>0. JobsMove(t) /\ ThreadMoves(t) /\ ThreadOK(t) BY Known DEF Memory
<1>1. \A u \in Threads : u # t => thread'[u] = thread[u] BY <1>0 DEF ThreadMoves
<1>2. ASSUME NEW e \in Docs, job[e].state = "queued", job'[e].state = "queued"
      PROVE  job'[e].JobId = job[e].JobId
  BY <1>0, <1>2 DEF JobsMove, ThreadOK, At, SubmitPcs
<1>3. ASSUME NEW e \in Docs, NEW u \in Threads, u # t, Attends(u, e)
      PROVE  job'[e].state = "queued" /\ Attends(u, e)'
  <2>1. thread'[u] = thread[u] BY <1>1, <1>3
  <2>2. Referring' BY AtJobs, PTL
  <2>3. thread'[u].pc \in CallPcs \cup WritePcs /\ thread'[u].doc = e
    BY <1>3, <2>1 DEF Attends, Attending, CallPcs, WritePcs
  <2> QED BY <1>3, <2>1, <2>2, <2>3 DEF Referring, Attends
<1> QED BY <1>1, <1>2, <1>3

\* While no spool file changes, and no thread comes from making one.
LEMMA SpoolKeeps ==
  ASSUME StoreInv, StoreInv', SpoolFiles, SpoolNamed, SpoolOnce, NEW t \in Threads, Memory(t),
         spool' = spool, thread'[t].pc = "queue" => thread'[t] = thread[t]
  PROVE  SpoolFiles' /\ SpoolNamed' /\ SpoolOnce'
<1>0. /\ JobsMove(t) /\ ThreadMoves(t) /\ \A u \in Threads : u # t => thread'[u] = thread[u]
      /\ \A i \in Ids : spool[i] \in Docs \cup {NoDoc}
  BY MemoryFacts DEF Memory, StoreInv, Types
<1>1. ASSUME NEW d \in Docs, job'[d].state = "queued" PROVE spool'[job'[d].JobId] = d
  <2>1. CASE job[d].state = "queued" /\ job'[d].JobId = job[d].JobId
    BY <2>1 DEF SpoolFiles, Queued
  <2>2. CASE At(t, "queue") /\ thread[t].doc = d /\ job'[d].JobId = thread[t].id
    BY <2>2 DEF SpoolFiles, At
  <2> QED BY <1>0, <1>1, <2>1, <2>2 DEF JobsMove
<1>2. ASSUME NEW u \in Threads, thread'[u].pc \in {"queue", "removeShadow", "removeSpool"}
      PROVE  spool'[thread'[u].id] = thread'[u].doc
  <2>1. CASE thread'[u] = thread[u] BY <1>2, <2>1 DEF SpoolFiles
  <2>2. CASE thread'[u] # thread[u]
    <3>1. u = t BY <1>0, <2>2
    <3>2. CASE thread[t].pc = "removeShadow" /\ thread'[t].doc = thread[t].doc /\ thread'[t].id = thread[t].id
      BY <3>1, <3>2 DEF SpoolFiles
    <3>3. CASE thread'[t].doc \in Queued /\ thread'[t].id = job[thread'[t].doc].JobId
      BY <3>1, <3>3 DEF SpoolFiles
    <3> QED BY <1>0, <1>2, <2>2, <3>1, <3>2, <3>3 DEF ThreadMoves, Queued
  <2> QED BY <2>1, <2>2
<1>3. ASSUME NEW i \in Ids, spool[i] # NoDoc
      PROVE  /\ job'[spool[i]].state # "new"
             /\ \A u \in Threads : At(u, "create")' => thread'[u].doc # spool[i]
  <2>1. spool[i] \in Docs /\ job[spool[i]].state # "new" BY <1>0, <1>3 DEF SpoolNamed
  <2>2. job'[spool[i]].state # "new" BY <1>0, <2>1 DEF JobsMove
  <2>3. ASSUME NEW u \in Threads, At(u, "create")' PROVE thread'[u].doc # spool[i]
    <3>1. CASE thread'[u] = thread[u] BY <1>3, <2>3, <3>1 DEF SpoolNamed, At
    <3>2. CASE thread'[u] # thread[u] BY <1>0, <2>1, <2>3, <3>2 DEF ThreadMoves, At
    <3> QED BY <3>1, <3>2
  <2> QED BY <2>2, <2>3
<1>4. SpoolFiles' BY <1>1, <1>2 DEF SpoolFiles, Queued
<1>5. SpoolNamed' BY <1>3 DEF SpoolNamed
<1>6. SpoolOnce' BY DEF SpoolOnce
<1> QED BY <1>4, <1>5, <1>6

\* While no shadow file changes.
LEMMA ShadowKeeps ==
  ASSUME StoreInv, StoreInv', ShadowHeld, ShadowGone, NEW t \in Threads, Memory(t),
         shadow' = shadow, At(t, "removeShadow") => thread'[t] = thread[t]
  PROVE  ShadowHeld' /\ ShadowGone'
<1>0. /\ JobsMove(t) /\ \A u \in Threads : u # t => thread'[u] = thread[u]
      /\ \A e \in Docs : job[e].state = "queued" /\ job'[e].state = "queued" =>
           job'[e].JobId = job[e].JobId
      /\ \A e \in Docs : \A u \in Threads :
           u # t /\ Attends(u, e) => job'[e].state = "queued" /\ Attends(u, e)'
  BY MemoryFacts DEF Memory
<1>1. ASSUME NEW i \in Ids, shadow[i].file # "none"
      PROVE  FindJob(i)' # {} \/ \E u \in Threads : At(u, "removeShadow")' /\ thread'[u].id = i
  <2>1. ASSUME NEW d \in Docs, job[d].state = "queued", job[d].JobId = i, job'[d].state = "queued"
        PROVE  d \in FindJob(i)'
    BY <1>0, <2>1 DEF FindJob, Queued
  <2>2. ASSUME NEW d \in Docs, job[d].state = "queued", job[d].JobId = i, job'[d].state # "queued"
        PROVE  At(t, "removeShadow")' /\ thread'[t].id = i
    <3>1. thread'[t].id = i BY <1>0, <2>2 DEF JobsMove
    <3>2. SUFFICES ASSUME Is(d, "SHADOW_DELETED"), ~ Attends(t, d) PROVE FALSE
      BY <1>0, <2>2, <3>1 DEF JobsMove, At
    <3>3. \A u \in Threads : ~ Attends(u, d) BY <1>0, <2>2, <3>2
    <3> QED BY <1>1, <2>2, <3>2, <3>3 DEF ShadowGone, Queued
  <2>3. ASSUME NEW u \in Threads, At(u, "removeShadow"), thread[u].id = i
        PROVE  At(u, "removeShadow")' /\ thread'[u].id = i
    BY <1>0, <2>3 DEF At
  <2>4. \/ \E d \in Docs : job[d].state = "queued" /\ job[d].JobId = i
        \/ \E u \in Threads : At(u, "removeShadow") /\ thread[u].id = i
    BY <1>1 DEF ShadowHeld, FindJob, Queued
  <2> QED BY <2>1, <2>2, <2>3, <2>4
<1>2. ASSUME NEW d \in Docs, job'[d].state = "queued", Is(d, "SHADOW_DELETED")',
             \A u \in Threads : ~ Attends(u, d)'
      PROVE  shadow'[job'[d].JobId].file = "none"
  <2>1. /\ job[d].state = "queued" /\ job'[d].JobId = job[d].JobId
        /\ \/ Is(d, "SHADOW_DELETED") /\ ~ Attends(t, d)
           \/ shadow'[job[d].JobId].file = "none"
    BY <1>0, <1>2 DEF JobsMove
  <2>2. CASE Is(d, "SHADOW_DELETED") /\ ~ Attends(t, d)
    <3>1. \A u \in Threads : ~ Attends(u, d) BY <1>0, <1>2, <2>2
    <3> QED BY <2>1, <2>2, <3>1 DEF ShadowGone, Queued
  <2> QED BY <2>1, <2>2
<1>3. ShadowHeld' BY <1>1 DEF ShadowHeld
<1>4. ShadowGone' BY <1>2 DEF ShadowGone, Queued
<1> QED BY <1>3, <1>4

----------------------------------------------------------------------------
(* DeleteJob and WriteShadowJob.                                            *)

\* What they are called with: the job in the queue, not marked SHADOW_DELETED unless
\* it was, by another.
Carries(t, d, j) ==
  /\ job[d].state = "queued" /\ j.state = "queued" /\ j.JobId = job[d].JobId
  /\ AtDoc(t, d)
  /\ "SHADOW_DELETED" \in j.Status => Is(d, "SHADOW_DELETED") /\ ~ Attends(t, d)

\* What they leave of job d, and where they leave thread t.
Fate(t, d) ==
  LET q == thread'[t]
  IN /\ \A u \in Threads : u # t => thread'[u] = thread[u]
     /\ \A e \in Docs : e # d => job'[e] = job[e]
     /\ job[d].state = "queued" /\ AtDoc(t, d)
     /\ job'[d].state \in {"queued", "gone"} /\ job'[d].JobId = job[d].JobId
     /\ Is(d, "SHADOW_DELETED")' /\ job'[d].state = "queued" =>
          Attends(t, d)' \/ (Is(d, "SHADOW_DELETED") /\ ~ Attends(t, d))
     /\ job'[d].state = "gone" =>
          /\ q.doc = d /\ q.id = job[d].JobId
          /\ \/ q.pc = "removeShadow"
             \/ q.pc = "removeSpool" /\ Is(d, "SHADOW_DELETED") /\ ~ Attends(t, d)
     /\ q.pc \notin {"create", "queue", "deleteFile", "freeId"}
     /\ q.pc \in {"removeShadow", "removeSpool"} => job'[d].state = "gone"
     /\ q.pc \in CallPcs \cup WritePcs => q.doc = d /\ q.id = job[d].JobId

\* One job and one thread are written.
LEMMA Written ==
  ASSUME StoreInv, NEW t \in Threads, NEW d \in Docs, NEW k, NEW r,
         SetJob(d, k), thread' = [thread EXCEPT ![t] = r]
  PROVE  /\ job'[d] = k /\ \A e \in Docs : e # d => job'[e] = job[e]
         /\ thread'[t] = r /\ \A u \in Threads : u # t => thread'[u] = thread[u]
BY Known DEF CoreTypes, SetJob

\* The thread goes on with its caller,
LEMMA ResumeFate ==
  ASSUME StoreInv, NEW t \in Threads, NEW d \in Docs, NEW j, Carries(t, d, j),
         NEW then \in {"idle", "sent"}, SetJob(d, j), Resume(t, then)
  PROVE  Fate(t, d)
<1> DEFINE r == Resumed(t, then)
<1>1. r.pc = then
  <2>1. thread[t] \in ThreadRecords BY Known
  <2> QED BY <2>1 DEF Resumed, Idle, ThreadRecords
<1>2. thread' = [thread EXCEPT ![t] = r] BY DEF Resume
<1> HIDE DEF r
<1>3. /\ job'[d] = j /\ \A e \in Docs : e # d => job'[e] = job[e]
      /\ thread'[t] = r /\ \A u \in Threads : u # t => thread'[u] = thread[u]
  BY <1>2, Written
<1> QED BY <1>1, <1>3 DEF Fate, Carries, Is, CallPcs, WritePcs

\* or has the shadow file to write,
LEMMA CallFate ==
  ASSUME StoreInv, NEW t \in Threads, NEW d \in Docs, NEW j, NEW k, Carries(t, d, j),
         k.state = "queued", k.JobId = j.JobId,
         NEW pc \in {"cancel", "deleteShadow", "createFile"}, NEW then,
         k.Status \cap {"SHADOW_DELETED"} \subseteq j.Status \/ pc = "deleteShadow",
         SetJob(d, k),
         thread' = [thread EXCEPT ![t] = [pc |-> pc, doc |-> d, id |-> j.JobId, then |-> then]]
  PROVE  Fate(t, d)
<1> DEFINE r == [pc |-> pc, doc |-> d, id |-> j.JobId, then |-> then]
<1>1. r.pc = pc /\ r.doc = d /\ r.id = j.JobId OBVIOUS
<1>2. thread' = [thread EXCEPT ![t] = r] OBVIOUS
<1> HIDE DEF r
<1>3. /\ job'[d] = k /\ \A e \in Docs : e # d => job'[e] = job[e]
      /\ thread'[t] = r /\ \A u \in Threads : u # t => thread'[u] = thread[u]
  <2>1. CoreTypes BY Known
  <2>2. job'[d] = k /\ \A e \in Docs : e # d => job'[e] = job[e] BY <2>1 DEF CoreTypes, SetJob
  <2>3. thread'[t] = r /\ \A u \in Threads : u # t => thread'[u] = thread[u]
    BY <1>2, <2>1 DEF CoreTypes
  <2> QED BY <2>2, <2>3
<1>4. pc = "deleteShadow" => Attends(t, d)' BY <1>1, <1>3 DEF Attends, Attending
<1> QED BY <1>1, <1>3, <1>4 DEF Fate, Carries, Is

\* or both files to delete.
LEMMA GoneFate ==
  ASSUME StoreInv, NEW t \in Threads, NEW d \in Docs, NEW j, NEW k, Carries(t, d, j),
         k.state = "gone", k.JobId = j.JobId, NEW then, SetJob(d, k),
         thread' = [thread EXCEPT ![t] =
           [pc |-> IF "SHADOW_DELETED" \in j.Status THEN "removeSpool" ELSE "removeShadow",
            doc |-> d, id |-> j.JobId, then |-> then]]
  PROVE  Fate(t, d)
<1> DEFINE r == [pc |-> IF "SHADOW_DELETED" \in j.Status THEN "removeSpool" ELSE "removeShadow",
                 doc |-> d, id |-> j.JobId, then |-> then]
<1>1. /\ r.pc = (IF "SHADOW_DELETED" \in j.Status THEN "removeSpool" ELSE "removeShadow")
      /\ r.doc = d /\ r.id = j.JobId
  OBVIOUS
<1>2. thread' = [thread EXCEPT ![t] = r] OBVIOUS
<1> HIDE DEF r
<1>3. /\ job'[d] = k /\ \A e \in Docs : e # d => job'[e] = job[e]
      /\ thread'[t] = r /\ \A u \in Threads : u # t => thread'[u] = thread[u]
  <2>1. CoreTypes BY Known
  <2>2. job'[d] = k /\ \A e \in Docs : e # d => job'[e] = job[e] BY <2>1 DEF CoreTypes, SetJob
  <2>3. thread'[t] = r /\ \A u \in Threads : u # t => thread'[u] = thread[u]
    BY <1>2, <2>1 DEF CoreTypes
  <2> QED BY <2>2, <2>3
<1> QED BY <1>1, <1>3 DEF Fate, Carries, CallPcs, WritePcs

\* DeleteJob, where the job is not printing,
LEMMA DeleteUnlessPrintingFate ==
  ASSUME StoreInv, NEW t \in Threads, NEW d \in Docs, NEW j \in JobRecords, Carries(t, d, j),
         NEW then \in {"idle", "sent"}, DeleteUnlessPrinting(t, d, j, then)
  PROVE  Fate(t, d)
<1>1. CASE j.cRef > 0
  <2> DEFINE k == [j EXCEPT !.Status = @ \cup {"SHADOW_DELETED"}, !.cRef = @ + 1]
  <2>1. k.state = j.state /\ k.JobId = j.JobId BY DEF JobRecords
  <2>2. /\ SetJob(d, k)
        /\ thread' = [thread EXCEPT ![t] = [pc |-> "deleteShadow", doc |-> d,
                                            id |-> j.JobId, then |-> then]]
    BY <1>1 DEF DeleteUnlessPrinting
  <2> HIDE DEF k
  <2> QED BY <2>1, <2>2, CallFate DEF Carries
<1>2. CASE ~ (j.cRef > 0) /\ "SPOOLING" \in j.Status BY <1>2, ResumeFate DEF DeleteUnlessPrinting
<1>3. CASE ~ (j.cRef > 0) /\ "SPOOLING" \notin j.Status
  <2> DEFINE k == [j EXCEPT !.state = "gone"]
  <2>1. k.state = "gone" /\ k.JobId = j.JobId BY DEF JobRecords
  <2>2. /\ SetJob(d, k)
        /\ thread' = [thread EXCEPT ![t] =
             [pc |-> IF "SHADOW_DELETED" \in j.Status THEN "removeSpool" ELSE "removeShadow",
              doc |-> d, id |-> j.JobId, then |-> then]]
    BY <1>3 DEF DeleteUnlessPrinting
  <2> HIDE DEF k
  <2> QED BY <2>1, <2>2, GoneFate
<1> QED BY <1>1, <1>2, <1>3

\* ... where it may be,
LEMMA DeleteJobFate ==
  ASSUME StoreInv, NEW t \in Threads, NEW d \in Docs, NEW j \in JobRecords, Carries(t, d, j),
         NEW then \in {"idle", "sent"}, DeleteJob(t, d, j, then)
  PROVE  Fate(t, d)
<1> DEFINE s == j.Status \cup {"PENDING_DELETION"}
<1>0. s \in SUBSET Flags /\ ("SHADOW_DELETED" \in s <=> "SHADOW_DELETED" \in j.Status)
  BY DEF JobRecords, Flags
<1>1. CASE "RESTART" \in j.Status BY <1>1, ResumeFate DEF DeleteJob
<1>2. CASE "RESTART" \notin j.Status /\ "PRINTING" \in j.Status /\ "PENDING_DELETION" \notin j.Status
  <2> DEFINE k == [j EXCEPT !.Status = s, !.cRef = @ + 1]
  <2>1. k.state = j.state /\ k.JobId = j.JobId /\ k.Status = s BY DEF JobRecords
  <2>2. /\ SetJob(d, k)
        /\ thread' = [thread EXCEPT ![t] = [pc |-> "cancel", doc |-> d,
                                            id |-> j.JobId, then |-> then]]
    BY <1>2 DEF DeleteJob
  <2> HIDE DEF k, s
  <2>3. k.Status \cap {"SHADOW_DELETED"} \subseteq j.Status BY <1>0, <2>1
  <2> QED BY <2>1, <2>2, <2>3, CallFate DEF Carries
<1>3. CASE "RESTART" \notin j.Status /\ ~ ("PRINTING" \in j.Status /\ "PENDING_DELETION" \notin j.Status)
  <2> DEFINE k == [j EXCEPT !.Status = s]
  <2>1. DeleteUnlessPrinting(t, d, k, then) BY <1>3 DEF DeleteJob
  <2> HIDE DEF s
  <2>2. k \in JobRecords /\ k.state = j.state /\ k.JobId = j.JobId /\ k.Status = s
    BY <1>0 DEF JobRecords
  <2> HIDE DEF k
  <2>3. Carries(t, d, k) BY <1>0, <2>2 DEF Carries
  <2> QED BY <2>1, <2>2, <2>3, DeleteUnlessPrintingFate
<1> QED BY <1>1, <1>2, <1>3

LEMMA DeleteJobCheckFate ==
  ASSUME StoreInv, NEW t \in Threads, NEW d \in Docs, NEW j \in JobRecords, Carries(t, d, j),
         NEW then \in {"idle", "sent"}, DeleteJobCheck(t, d, j, then)
  PROVE  Fate(t, d)
BY DeleteJobFate, ResumeFate DEF DeleteJobCheck

\* EndDocPrinter and RemoveIniPortFromIniJob, which call it,
LEMMA EndDocRestFate ==
  ASSUME StoreInv, NEW t \in Threads, NEW d \in Docs, NEW j \in JobRecords, Carries(t, d, j),
         EndDocPrinterRest(t, d, j)
  PROVE  Fate(t, d)
<1> DEFINE k == [j EXCEPT !.cRef = @ - 1]
<1>1. k \in JobRecords /\ k.state = j.state /\ k.JobId = j.JobId /\ k.Status = j.Status
  BY DEF JobRecords
<1>2. DeleteJob(t, d, k, "idle") \/ (SetJob(d, k) /\ Resume(t, "idle")) BY DEF EndDocPrinterRest
<1> HIDE DEF k
<1>3. Carries(t, d, k) BY <1>1 DEF Carries
<1> QED BY <1>1, <1>2, <1>3, DeleteJobFate, ResumeFate

LEMMA RemovePortFate ==
  ASSUME StoreInv, NEW t \in Threads, NEW d \in Docs, NEW j \in JobRecords, Carries(t, d, j),
         RemoveIniPortFromIniJob(t, d, j)
  PROVE  Fate(t, d)
<1> DEFINE s == j.Status \ ({"DESPOOLING"} \cup IF "RESTART" \in j.Status
                                                 THEN {"PRINTED", "BLOCKED_DEVQ"} ELSE {})
           n == j.cRef - 1
           k == [j EXCEPT !.cRef = n, !.Status = s]
<1>1. s \in SUBSET Flags /\ ("SHADOW_DELETED" \in s => "SHADOW_DELETED" \in j.Status)
  <2>1. j.Status \in SUBSET Flags BY DEF JobRecords
  <2>2. \A x : j.Status \ x \in SUBSET Flags /\ j.Status \ x \subseteq j.Status BY <2>1
  <2> QED BY <2>2
<1>2. n \in Int BY DEF JobRecords
<1>3. DeleteJobCheck(t, d, k, "idle") BY DEF RemoveIniPortFromIniJob
<1> HIDE DEF s, n
<1>4. k \in JobRecords /\ k.state = j.state /\ k.JobId = j.JobId /\ k.Status = s
  BY <1>1, <1>2 DEF JobRecords
<1> HIDE DEF k
<1>5. Carries(t, d, k) BY <1>1, <1>4 DEF Carries
<1> QED BY <1>3, <1>4, <1>5, DeleteJobCheckFate

\* ... and WriteShadowJob, which comes before them.
LEMMA ShadowWrittenFate ==
  ASSUME StoreInv, NEW t \in Threads, NEW d \in Docs, NEW j \in JobRecords, Carries(t, d, j),
         NEW then \in {"endDoc", "query", "kept"}, ShadowWritten(t, d, j, then)
  PROVE  Fate(t, d)
<1>1. CASE then = "endDoc" BY <1>1, EndDocRestFate DEF ShadowWritten
<1>2. CASE then = "query"
  <2> DEFINE r == [Idle EXCEPT !.pc = "query", !.doc = d]
  <2>1. r.pc = "query" BY DEF Idle
  <2>2. SetJob(d, j) /\ thread' = [thread EXCEPT ![t] = r] BY <1>2 DEF ShadowWritten
  <2> HIDE DEF r
  <2>3. /\ job'[d] = j /\ \A e \in Docs : e # d => job'[e] = job[e]
        /\ thread'[t] = r /\ \A u \in Threads : u # t => thread'[u] = thread[u]
    BY <2>2, Written
  <2> QED BY <2>1, <2>3 DEF Fate, Carries, Is, CallPcs, WritePcs
<1>3. CASE then = "kept"
  <2> DEFINE k == [j EXCEPT !.cRef = @ - 1]
  <2>1. k \in JobRecords /\ k.state = j.state /\ k.JobId = j.JobId /\ k.Status = j.Status
    BY DEF JobRecords
  <2>2. RemoveIniPortFromIniJob(t, d, k) BY <1>3 DEF ShadowWritten
  <2> HIDE DEF k
  <2>3. Carries(t, d, k) BY <2>1 DEF Carries
  <2> QED BY <2>1, <2>2, <2>3, RemovePortFate
<1> QED BY <1>1, <1>2, <1>3

LEMMA WriteShadowJobFate ==
  ASSUME StoreInv, NEW t \in Threads, NEW d \in Docs, NEW j \in JobRecords, Carries(t, d, j),
         NEW then \in {"endDoc", "query", "kept"}, WriteShadowJob(t, d, j, then)
  PROVE  Fate(t, d)
<1>1. CASE "SHADOW_DELETED" \in j.Status BY <1>1, ShadowWrittenFate DEF WriteShadowJob
<1>2. CASE "SHADOW_DELETED" \notin j.Status
  <2>1. /\ SetJob(d, j)
        /\ thread' = [thread EXCEPT ![t] = [pc |-> "createFile", doc |-> d,
                                            id |-> j.JobId, then |-> then]]
    BY <1>2 DEF WriteShadowJob
  <2> QED BY <1>2, <2>1, CallFate DEF Carries
<1> QED BY <1>1, <1>2

\* Such a step is one in memory.
LEMMA FateMemory ==
  ASSUME StoreInv, NEW t \in Threads, NEW d \in Docs, Fate(t, d), IdsStay(t)
  PROVE  /\ Memory(t)
         /\ thread'[t].pc # "queue"
<1>1. JobsMove(t)
  <2>1. SUFFICES ASSUME NEW e \in Docs, e # d
                 PROVE  /\ job'[e] = job[e]
                        /\ Is(e, "SHADOW_DELETED")' <=> Is(e, "SHADOW_DELETED")
                        /\ ~ Attends(t, e)
    BY DEF JobsMove, Fate
  <2>2. job'[e] = job[e] BY <2>1 DEF Fate
  <2>3. AtDoc(t, d) BY DEF Fate
  <2> QED BY <2>1, <2>2, <2>3 DEF Is, AtDoc, Attends, Attending, CallPcs, WritePcs
<1>2. ThreadMoves(t) BY DEF ThreadMoves, Fate
<1> QED BY <1>1, <1>2 DEF Memory, Fate

\* So is one that leaves the jobs where they are.
LEMMA PlainMemory ==
  ASSUME NEW t \in Threads, ThreadMoves(t), IdsStay(t),
         \A e \in Docs : job'[e].state = job[e].state /\ job'[e].JobId = job[e].JobId,
         \A e \in Docs : Is(e, "SHADOW_DELETED")' =>
           \/ Is(e, "SHADOW_DELETED") /\ (Attends(t, e) => Attends(t, e)')
           \/ shadow'[job[e].JobId].file = "none"
  PROVE  Memory(t)
BY DEF Memory, JobsMove

----------------------------------------------------------------------------
(* The steps in memory.                                                     *)

\* What such a step does, its thread at rest or not.
InMemory(t) ==
  /\ Memory(t) /\ UNCHANGED disk
  /\ thread'[t].pc = "queue" => thread'[t] = thread[t]
  /\ At(t, "removeShadow") => thread'[t] = thread[t]

LEMMA FateInMemory ==
  ASSUME StoreInv, NEW t \in Threads, NEW d \in Docs, Fate(t, d), IdsStay(t), UNCHANGED disk,
         thread[t].pc \notin RemovePcs
  PROVE  InMemory(t)
<1>1. Memory(t) /\ thread'[t].pc # "queue" BY FateMemory
<1> QED BY <1>1 DEF InMemory, At, RemovePcs

\* DeleteJob after a call without SplSem,
LEMMA CallsInMemory ==
  ASSUME StoreInv, NEW t \in Threads, Cancelled(t) \/ ShadowDeleted(t)
  PROVE  InMemory(t)
<1>0. thread[t].pc \in CallPcs /\ UNCHANGED disk
  BY DEF Cancelled, ShadowDeleted, At, CallPcs
<1>1. PICK d \in Docs : d = thread[t].doc BY <1>0, Known DEF ThreadOK, CallPcs
<1>2. /\ job[d] \in JobRecords /\ job[d].cRef - 1 \in Int /\ job[d].state = "queued"
      /\ thread[t].then \in {"idle", "sent"} /\ AtDoc(t, d)
  BY <1>0, <1>1, AtJobs, Known DEF Referring, ThreadOK, AtDoc
<1>3. IdsStay(t)
  <2>1. \E e : StepOK(t, e) BY FileSteps DEF FileStep
  <2> QED BY <2>1, StepIds
<1>4. CASE Cancelled(t)
  <2> DEFINE n == job[d].cRef - 1
             j == [job[d] EXCEPT !.cRef = n]
  <2>1. DeleteUnlessPrinting(t, d, j, thread[t].then) BY <1>1, <1>4 DEF Cancelled
  <2>2. n \in Int BY <1>2
  <2> HIDE DEF n
  <2>3. j \in JobRecords /\ j.state = job[d].state /\ j.JobId = job[d].JobId /\ j.Status = job[d].Status
    BY <1>2, <2>2 DEF JobRecords
  <2> HIDE DEF j
  <2>4. ~ Attends(t, d) BY <1>4 DEF Cancelled, At, Attends, Attending
  <2>5. Carries(t, d, j) BY <1>2, <2>3, <2>4 DEF Carries, Is
  <2>6. Fate(t, d) BY <1>2, <2>1, <2>3, <2>5, DeleteUnlessPrintingFate
  <2> QED BY <1>0, <1>3, <2>6, FateInMemory DEF CallPcs, RemovePcs
<1>5. CASE ShadowDeleted(t)
  <2> DEFINE n == job[d].cRef - 1
             s == IF At(t, "shadowKept") THEN job[d].Status \ {"SHADOW_DELETED"} ELSE job[d].Status
             j == [job[d] EXCEPT !.cRef = n, !.Status = s]
  <2>1. SetJob(d, j) /\ Resume(t, thread[t].then) BY <1>1, <1>5 DEF ShadowDeleted
  <2>2. n \in Int /\ s \in SUBSET Flags BY <1>2 DEF JobRecords
  <2>3. "SHADOW_DELETED" \in s => Is(d, "SHADOW_DELETED") /\ ~ Attends(t, d)
    BY <1>5 DEF ShadowDeleted, At, Attends, Attending, Is
  <2> HIDE DEF n, s
  <2>4. j \in JobRecords /\ j.state = job[d].state /\ j.JobId = job[d].JobId /\ j.Status = s
    BY <1>2, <2>2 DEF JobRecords
  <2> HIDE DEF j
  <2>5. Carries(t, d, j) BY <1>2, <2>3, <2>4 DEF Carries
  <2>6. Fate(t, d) BY <1>2, <2>1, <2>5, ResumeFate
  <2> QED BY <1>0, <1>3, <2>6, FateInMemory DEF CallPcs, RemovePcs
<1> QED BY <1>4, <1>5

\* ... and what follows WriteShadowJob.
LEMMA ReenterInMemory ==
  ASSUME StoreInv, NEW t \in Threads, Reenter(t)
  PROVE  InMemory(t)
<1>0. thread[t].pc \in WritePcs /\ UNCHANGED disk BY DEF Reenter, WritePcs
<1>1. PICK d \in Docs : d = thread[t].doc BY <1>0, Known DEF ThreadOK, WritePcs
<1>2. /\ job[d] \in JobRecords /\ job[d].state = "queued" /\ AtDoc(t, d)
      /\ thread[t].then \in {"endDoc", "query", "kept"}
  BY <1>0, <1>1, AtJobs, Known DEF Referring, ThreadOK, AtDoc
<1>3. IdsStay(t)
  <2>1. \E e : StepOK(t, e) BY FileSteps DEF FileStep
  <2> QED BY <2>1, StepIds
<1> DEFINE s == IF At(t, "written") THEN job[d].Status \ {"SHADOW_DELETED"} ELSE job[d].Status
           j == [job[d] EXCEPT !.Status = s]
<1>4. ShadowWritten(t, d, j, thread[t].then) BY <1>1 DEF Reenter
<1>5. s \in SUBSET Flags BY <1>2 DEF JobRecords
<1>6. "SHADOW_DELETED" \in s => Is(d, "SHADOW_DELETED") /\ ~ Attends(t, d)
  BY DEF Reenter, At, Attends, Attending, Is
<1> HIDE DEF s
<1>7. j \in JobRecords /\ j.state = job[d].state /\ j.JobId = job[d].JobId /\ j.Status = s
  BY <1>2, <1>5 DEF JobRecords
<1> HIDE DEF j
<1>8. Carries(t, d, j) BY <1>2, <1>6, <1>7 DEF Carries
<1>9. Fate(t, d) BY <1>2, <1>4, <1>7, <1>8, ShadowWrittenFate
<1> QED BY <1>0, <1>3, <1>9, FateInMemory DEF WritePcs, RemovePcs

\* A thread at rest, or between two calls.
LEMMA RestsMemory ==
  ASSUME StoreInv, NEW t \in Threads, UNCHANGED job, IdsStay(t),
         NEW r, thread' = [thread EXCEPT ![t] = r], r.pc \in {"idle", "close"},
         thread[t].pc \notin Attending
  PROVE  Memory(t) /\ thread'[t] = r
<1>1. thread'[t] = r /\ \A u \in Threads : u # t => thread'[u] = thread[u]
  BY Known DEF CoreTypes
<1>2. ThreadMoves(t) BY <1>1 DEF ThreadMoves, CallPcs, WritePcs
<1>3. \A e \in Docs : Is(e, "SHADOW_DELETED")' => Is(e, "SHADOW_DELETED") /\ ~ Attends(t, e)
  BY DEF Is, Attends
<1>4. Memory(t) BY <1>2, <1>3, PlainMemory
<1> QED BY <1>1, <1>4

LEMMA RestsInMemory ==
  ASSUME StoreInv, NEW t \in Threads, UNCHANGED <<job, disk>>, IdsStay(t),
         NEW r, thread' = [thread EXCEPT ![t] = r], r.pc \in {"idle", "close"},
         thread[t].pc \notin {"removeShadow"} \cup Attending
  PROVE  InMemory(t)
<1>1. Memory(t) /\ thread'[t] = r BY RestsMemory
<1> QED BY <1>1 DEF InMemory, At

\* A thread goes on at the same document.
LEMMA GoesOn ==
  ASSUME StoreInv, NEW t \in Threads, NEW pc, GoTo(t, pc), UNCHANGED job, IdsStay(t),
         pc \notin {"create", "deleteFile", "removeShadow"},
         pc = "queue" => At(t, "create"), pc = "removeSpool" => At(t, "removeShadow"),
         pc \in CallPcs \cup WritePcs => thread[t].id = job[thread[t].doc].JobId,
         \/ pc \in Attending \/ thread[t].pc \notin Attending
         \/ shadow'[job[thread[t].doc].JobId].file = "none"
  PROVE  /\ Memory(t) /\ thread'[t].pc = pc
         /\ thread'[t].doc = thread[t].doc /\ thread'[t].id = thread[t].id
         /\ \A u \in Threads : u # t => thread'[u] = thread[u]
<1> DEFINE r == [thread[t] EXCEPT !.pc = pc]
<1>1. r.pc = pc /\ r.doc = thread[t].doc /\ r.id = thread[t].id BY Known DEF ThreadRecords
<1>2. thread' = [thread EXCEPT ![t] = r] BY DEF GoTo
<1> HIDE DEF r
<1>3. thread'[t] = r /\ \A u \in Threads : u # t => thread'[u] = thread[u]
  BY <1>2, Known DEF CoreTypes
<1>4. ThreadMoves(t) BY <1>1, <1>3 DEF ThreadMoves, At
<1>5. \A e \in Docs : Is(e, "SHADOW_DELETED")' =>
        \/ Is(e, "SHADOW_DELETED") /\ (Attends(t, e) => Attends(t, e)')
        \/ shadow'[job[e].JobId].file = "none"
  BY <1>1, <1>3 DEF Is, Attends
<1>6. Memory(t) BY <1>4, <1>5, PlainMemory
<1> QED BY <1>1, <1>3, <1>6

\* The others of a thread in DeleteJob or WriteShadowJob.
LEMMA FreeIdInMemory ==
  ASSUME StoreInv, OwnIds, NEW t \in Threads, FreeId(t) \/ CloseShadowFile(t)
  PROVE  InMemory(t)
<1>1. IdsStay(t)
  <2>1. \E e : StepOK(t, e) BY FileSteps DEF FileStep
  <2> QED BY <2>1, StepIds
<1>2. CASE FreeId(t)
  <2>1. thread[t].pc = "freeId" /\ UNCHANGED <<job, disk>> /\ thread[t].then = "idle"
    BY <1>2, Known DEF FreeId, At, ThreadOK, RemovePcs
  <2> DEFINE r == [Idle EXCEPT !.pc = "idle"]
  <2>2. r.pc = "idle" BY DEF Idle
  <2>3. thread' = [thread EXCEPT ![t] = r] BY <1>2, <2>1 DEF FreeId, Resume, Resumed
  <2> HIDE DEF r
  <2> QED BY <1>1, <2>1, <2>2, <2>3, RestsInMemory DEF Attending
<1>3. CASE CloseShadowFile(t)
  <2>1. thread[t].pc = "closeFile" /\ UNCHANGED <<job, disk>> /\ GoTo(t, "written")
    BY <1>3 DEF CloseShadowFile, At
  <2>2. Memory(t) /\ thread'[t].pc = "written"
    BY <1>1, <2>1, GoesOn DEF OwnIds, WritePcs, Attending
  <2> QED BY <2>1, <2>2 DEF InMemory, At
<1> QED BY <1>2, <1>3

\* The steps of clients.
LEMMA ClientIds ==
  ASSUME StartDocOnly, StoreInv, NEW c \in Clients, ClientStep(c)
  PROVE  c \in Threads /\ IdsStay(c)
<1>0. c \in Threads BY DEF Threads
<1>1. CASE \E d : StepOK(c, d) BY <1>0, <1>1, StepIds
<1>2. CASE UnblockJobs(c) \/ \E d \in Docs : RestartJob(c, d)
  <2>1. UNCHANGED <<mapVars, thread>> BY <1>2 DEF UnblockJobs, RestartJob
  <2> QED BY <1>0, <2>1 DEF IdsStay, mapVars, HoldsId
<1> QED BY <1>0, <1>1, <1>2, ClientSteps

LEMMA ClosesInMemory ==
  ASSUME StartDocOnly, StoreInv, NEW c \in Clients, ClientStep(c), ClosePrinter(c) \/ Closed(c)
  PROVE  InMemory(c)
<1>1. c \in Threads /\ IdsStay(c) BY ClientIds
<1>2. PICK pc \in {"idle", "close"} : Resume(c, pc) BY DEF ClosePrinter, Closed
<1>3. UNCHANGED <<job, disk>> /\ thread[c].pc \in {"idle", "close"}
  BY DEF ClosePrinter, Closed, At
<1> DEFINE r == [Idle EXCEPT !.pc = pc]
<1>4. r.pc = pc /\ thread' = [thread EXCEPT ![c] = r] BY <1>2 DEF Idle, Resume, Resumed
<1> HIDE DEF r
<1> QED BY <1>1, <1>3, <1>4, RestsInMemory DEF Attending

LEMMA UsersInMemory ==
  ASSUME StartDocOnly, StoreInv, NEW c \in Clients, ClientStep(c),
         UnblockJobs(c) \/ \E d \in Docs : RestartJob(c, d)
  PROVE  InMemory(c)
<1>1. c \in Threads /\ IdsStay(c) BY ClientIds
<1>2. /\ UNCHANGED <<thread, disk>> /\ thread[c].pc = "idle"
  BY DEF UnblockJobs, RestartJob, At
<1>3. \A e \in Docs : job'[e].state = job[e].state /\ job'[e].JobId = job[e].JobId
  BY UserSteps
<1>4. \A e \in Docs : Is(e, "SHADOW_DELETED")' => Is(e, "SHADOW_DELETED")
  <2>0. \A e \in Docs : job[e] \in JobRecords /\ job \in [Docs -> JobRecords] BY Known DEF CoreTypes
  <2>1. CASE UnblockJobs(c)
    <3>1. \A e \in Docs : job'[e].Status = job[e].Status \ {"BLOCKED_DEVQ"}
      BY <2>0, <2>1 DEF UnblockJobs, JobRecords
    <3> QED BY <3>1 DEF Is
  <2>2. ASSUME NEW d \in Docs, RestartJob(c, d)
        PROVE  \A e \in Docs : Is(e, "SHADOW_DELETED")' => Is(e, "SHADOW_DELETED")
    <3> DEFINE x == IF "DESPOOLING" \in job[d].Status THEN {} ELSE {"PRINTED", "BLOCKED_DEVQ"}
               s == (job[d].Status \cup {"RESTART"}) \ x
               k == [job[d] EXCEPT !.Status = s]
    <3>1. job' = [job EXCEPT ![d] = k] BY <2>2 DEF RestartJob, SetJob
    <3>2. "SHADOW_DELETED" \in s => Is(d, "SHADOW_DELETED") BY DEF Is
    <3> HIDE DEF s
    <3>3. k.Status = s BY <2>0 DEF JobRecords
    <3> HIDE DEF k
    <3>4. job'[d] = k /\ \A e \in Docs : e # d => job'[e] = job[e] BY <2>0, <3>1
    <3> QED BY <3>2, <3>3, <3>4 DEF Is
  <2> QED BY <2>1, <2>2
<1>5. ThreadMoves(c) BY <1>2 DEF ThreadMoves, CallPcs, WritePcs
<1>6. \A e : ~ Attends(c, e) BY <1>2 DEF Attends, Attending
<1>7. Memory(c) BY <1>1, <1>3, <1>4, <1>5, <1>6, PlainMemory
<1> QED BY <1>2, <1>7 DEF InMemory, At

LEMMA EndDocInMemory ==
  ASSUME StartDocOnly, StoreInv, NEW c \in Clients, ClientStep(c), EndDocPrinter(c)
  PROVE  InMemory(c)
<1>1. c \in Threads /\ IdsStay(c) BY ClientIds
<1>2. /\ thread[c].pc = "idle" /\ UNCHANGED disk /\ handle[c].STARTDOC
  BY DEF EndDocPrinter, At
<1>3. PICK d \in Docs : d = handle[c].pIniJob /\ Spools(handle[c], d)
  BY <1>2, Known DEF HandleOK, Spools
<1>4. job[d].state = "queued" /\ job[d] \in JobRecords BY <1>1, <1>3, ReferredQueued, Known
<1> DEFINE s == job[d].Status \ {"SPOOLING"}
           j == [job[d] EXCEPT !.Status = s]
<1>5. WriteShadowJob(c, d, j, "endDoc") BY <1>3 DEF EndDocPrinter
<1>6. s \in SUBSET Flags /\ ("SHADOW_DELETED" \in s => Is(d, "SHADOW_DELETED"))
  BY <1>4 DEF JobRecords, Is
<1> HIDE DEF s
<1>7. j \in JobRecords /\ j.state = job[d].state /\ j.JobId = job[d].JobId /\ j.Status = s
  BY <1>4, <1>6 DEF JobRecords
<1> HIDE DEF j
<1>8. Carries(c, d, j)
  BY <1>2, <1>4, <1>6, <1>7 DEF Carries, AtDoc, Attends, Attending, CallPcs, WritePcs
<1>9. Fate(c, d) BY <1>1, <1>5, <1>7, <1>8, WriteShadowJobFate
<1> QED BY <1>1, <1>2, <1>9, FateInMemory DEF RemovePcs

LEMMA DeleteInMemory ==
  ASSUME StartDocOnly, StoreInv, NEW c \in Clients, ClientStep(c), NEW d \in Docs, DeleteByUser(c, d)
  PROVE  InMemory(c)
<1>1. c \in Threads /\ IdsStay(c) BY ClientIds
<1>2. /\ thread[c].pc = "idle" /\ UNCHANGED disk /\ job[d].state = "queued" /\ job[d] \in JobRecords
  BY Known DEF DeleteByUser, At, Queued
<1> DEFINE s == job[d].Status \ {"RESTART"}
           j == [job[d] EXCEPT !.Status = s]
<1>5. DeleteJob(c, d, j, "idle") BY DEF DeleteByUser
<1>6. s \in SUBSET Flags /\ ("SHADOW_DELETED" \in s => Is(d, "SHADOW_DELETED"))
  BY <1>2 DEF JobRecords, Is
<1> HIDE DEF s
<1>7. j \in JobRecords /\ j.state = job[d].state /\ j.JobId = job[d].JobId /\ j.Status = s
  BY <1>2, <1>6 DEF JobRecords
<1> HIDE DEF j
<1>8. Carries(c, d, j)
  BY <1>2, <1>6, <1>7 DEF Carries, AtDoc, Attends, Attending, CallPcs, WritePcs
<1>9. Fate(c, d) BY <1>1, <1>5, <1>7, <1>8, DeleteJobFate
<1> QED BY <1>1, <1>2, <1>9, FateInMemory DEF RemovePcs

LEMMA StartDocInMemory ==
  ASSUME StartDocOnly, StoreInv, NEW c \in Clients, ClientStep(c),
         NEW d \in Docs, StartDocPrinter(c, d)
  PROVE  InMemory(c)
<1>1. c \in Threads /\ IdsStay(c) BY ClientIds
<1>2. /\ thread[c].pc = "idle" /\ UNCHANGED disk /\ job[d].state = "new" /\ job[d] \in JobRecords
  BY Known DEF StartDocPrinter, At
<1>3. PICK i : thread' = [thread EXCEPT ![c] = [pc |-> "create", doc |-> d, id |-> i, then |-> "idle"]]
  BY DEF StartDocPrinter
<1> DEFINE r == [pc |-> "create", doc |-> d, id |-> i, then |-> "idle"]
           k == [job[d] EXCEPT !.state = "submitted"]
<1>4. r.pc = "create" /\ r.doc = d /\ k.state = "submitted" BY <1>2 DEF JobRecords
<1>5. SetJob(d, k) /\ thread' = [thread EXCEPT ![c] = r] BY <1>3 DEF StartDocPrinter
<1> HIDE DEF k, r
<1>6. /\ job'[d] = k /\ \A e \in Docs : e # d => job'[e] = job[e]
      /\ thread'[c] = r /\ \A u \in Threads : u # c => thread'[u] = thread[u]
  BY <1>1, <1>5, Written
<1>7. ThreadMoves(c) BY <1>2, <1>4, <1>6 DEF ThreadMoves, CallPcs, WritePcs
<1>8. JobsMove(c) BY <1>2, <1>4, <1>6 DEF JobsMove, Is, Attends, Attending
<1> QED BY <1>1, <1>2, <1>4, <1>6, <1>7, <1>8 DEF InMemory, Memory, At

LEMMA SpoolInMemory ==
  ASSUME StartDocOnly, StoreInv, NEW c \in Clients, ClientStep(c), SpoolThisJob(c)
  PROVE  InMemory(c)
<1>1. c \in Threads /\ IdsStay(c) BY ClientIds
<1>2. /\ thread[c].pc = "queue" /\ UNCHANGED <<mapVars, disk>> BY DEF SpoolThisJob, At
<1>3. PICK d \in Docs : d = thread[c].doc /\ job[d].state = "submitted" /\ job[d] \in JobRecords
  BY <1>1, <1>2, Known DEF ThreadOK, SubmitPcs
<1>4. ASSUME NEW k, NEW r, SetJob(d, k), thread' = [thread EXCEPT ![c] = r],
             \/ /\ k.state = "queued" /\ k.JobId = thread[c].id /\ k.Status = {"SPOOLING"}
                /\ r.pc = "idle"
             \/ k.state = "gone" /\ r.pc = "deleteFile" /\ r.id = thread[c].id
      PROVE  InMemory(c)
  <2>1. /\ job'[d] = k /\ \A e \in Docs : e # d => job'[e] = job[e]
        /\ thread'[c] = r /\ \A u \in Threads : u # c => thread'[u] = thread[u]
    BY <1>1, <1>4, Written
  <2>2. ThreadMoves(c) BY <1>2, <1>4, <2>1 DEF ThreadMoves, CallPcs, WritePcs, mapVars
  <2>3. JobsMove(c)
    BY <1>2, <1>3, <1>4, <2>1 DEF JobsMove, Is, Attends, Attending, At
  <2> QED BY <1>1, <1>2, <1>4, <2>1, <2>2, <2>3 DEF InMemory, Memory, At
<1>5. CASE SetJob(d, NewJob(d, thread[c].id, {"SPOOLING"})) /\ Resume(c, "idle")
  <2> DEFINE k == NewJob(d, thread[c].id, {"SPOOLING"})
             r == [Idle EXCEPT !.pc = "idle"]
  <2>1. /\ k.state = "queued" /\ k.JobId = thread[c].id /\ k.Status = {"SPOOLING"}
        /\ r.pc = "idle"
    BY DEF NewJob, Idle
  <2>2. SetJob(d, k) /\ thread' = [thread EXCEPT ![c] = r] BY <1>5 DEF Resume, Resumed
  <2> HIDE DEF k, r
  <2> QED BY <1>4, <2>1, <2>2
<1>6. CASE SetJob(d, [job[d] EXCEPT !.state = "gone"]) /\ GoTo(c, "deleteFile")
  <2> DEFINE k == [job[d] EXCEPT !.state = "gone"]
             r == [thread[c] EXCEPT !.pc = "deleteFile"]
  <2>1. k.state = "gone" /\ r.pc = "deleteFile" /\ r.id = thread[c].id
    BY <1>1, <1>3, Known DEF JobRecords, ThreadRecords
  <2>2. SetJob(d, k) /\ thread' = [thread EXCEPT ![c] = r] BY <1>6 DEF GoTo
  <2> HIDE DEF k, r
  <2> QED BY <1>4, <2>1, <2>2
<1> QED BY <1>3, <1>5, <1>6 DEF SpoolThisJob

\* The job that the port begins, and the one it keeps.
LEMMA AttemptJob ==
  ASSUME NEW d \in Docs, NEW j \in JobRecords
  PROVE  /\ Attempt(d, j) \in JobRecords /\ Attempt(d, j).state = j.state
         /\ Attempt(d, j).JobId = j.JobId /\ Attempt(d, j).Status = j.Status \ {"RESTART"}
<1> DEFINE s == j.Status \ {"RESTART"}
           m == IF "RESTART" \in j.Status /\ j.dwReboots > 0 THEN j.dwReboots ELSE j.dwReboots + 1
           n == IF d \in Emf THEN m ELSE j.dwReboots
<1>1. Attempt(d, j) = [j EXCEPT !.Status = s, !.dwReboots = n] BY DEF Attempt, JobRecords
<1>2. s \in SUBSET Flags /\ n \in Int BY DEF JobRecords
<1> HIDE DEF s, n
<1>3. [j EXCEPT !.Status = s, !.dwReboots = n] \in JobRecords BY <1>2 DEF JobRecords
<1>4. /\ [j EXCEPT !.Status = s, !.dwReboots = n].state = j.state
      /\ [j EXCEPT !.Status = s, !.dwReboots = n].JobId = j.JobId
      /\ [j EXCEPT !.Status = s, !.dwReboots = n].Status = s
  BY DEF JobRecords
<1>5. s = j.Status \ {"RESTART"} BY DEF s
<1> QED BY <1>1, <1>3, <1>4, <1>5

LEMMA KeptJob ==
  ASSUME NEW d \in Docs, NEW j \in JobRecords
  PROVE  /\ Kept(d, j) \in JobRecords /\ Kept(d, j).state = j.state
         /\ Kept(d, j).JobId = j.JobId
         /\ Kept(d, j).Status = (j.Status \ {"PENDING_DELETION"}) \cup {"PRINTED"}
<1> DEFINE s == (j.Status \ {"PENDING_DELETION"}) \cup {"PRINTED"}
           m == j.cRef + 1
           n == IF d \in Emf THEN j.dwReboots - 1 ELSE j.dwReboots
<1>1. Kept(d, j) = [j EXCEPT !.Status = s, !.cRef = m, !.dwReboots = n] BY DEF Kept, JobRecords
<1>2. s \in SUBSET Flags /\ m \in Int /\ n \in Int BY DEF JobRecords, Flags
<1>5. s = (j.Status \ {"PENDING_DELETION"}) \cup {"PRINTED"} OBVIOUS
<1> HIDE DEF s, m, n
<1> DEFINE k == [j EXCEPT !.Status = s, !.cRef = m, !.dwReboots = n]
<1>3. k \in JobRecords BY <1>2 DEF JobRecords
<1>4. k.state = j.state /\ k.JobId = j.JobId /\ k.Status = s
  BY DEF JobRecords
<1> HIDE DEF k
<1>6. Kept(d, j) = k BY <1>1 DEF k
<1> QED BY <1>3, <1>4, <1>5, <1>6

\* The steps of the port thread.
LEMMA PortFate ==
  ASSUME StoreInv, NEW d \in Docs, NEW k, Carries(Port, d, k), SetJob(d, k),
         NEW r, thread' = [thread EXCEPT ![Port] = r], r.pc \in PortPcs
  PROVE  Fate(Port, d)
<1>1. /\ job'[d] = k /\ \A e \in Docs : e # d => job'[e] = job[e]
      /\ thread'[Port] = r /\ \A u \in Threads : u # Port => thread'[u] = thread[u]
  BY Written DEF Threads
<1> QED BY <1>1 DEF Fate, Carries, Is, CallPcs, WritePcs, PortPcs

LEMMA PortInMemory ==
  ASSUME StoreInv, PortStep
  PROVE  InMemory(Port)
<1>0. Port \in Threads BY DEF Threads
<1>1. IdsStay(Port) BY <1>0, PortSteps, StepIds
<1>2. UNCHANGED disk /\ thread[Port].pc \in {"idle"} \cup PortPcs
  BY DEF PortStep, AssignJob, PortBegins, PortQueries, PortSends, PortStops, PortEnds, At, PortPcs
<1>3. ASSUME NEW d \in Docs, Fate(Port, d) PROVE InMemory(Port)
  BY <1>0, <1>1, <1>2, <1>3, FateInMemory DEF PortPcs, RemovePcs
<1>4. ASSUME NEW d \in Docs, job[d].state = "queued", NEW j, j.state = "queued", j.JobId = job[d].JobId,
             "SHADOW_DELETED" \in j.Status => Is(d, "SHADOW_DELETED")
      PROVE  Carries(Port, d, j)
  BY <1>2, <1>4 DEF Carries, AtDoc, Attends, Attending, CallPcs, WritePcs, PortPcs
<1>5. ASSUME NEW d \in Docs, AssignJob(d) PROVE InMemory(Port)
  <2>1. job[d].state = "queued" /\ job[d] \in JobRecords /\ job[d].cRef + 1 \in Int
    BY <1>5, Known DEF AssignJob, Queued
  <2> DEFINE n == job[d].cRef + 1
             s == job[d].Status \cup {"DESPOOLING"}
             k == [job[d] EXCEPT !.Status = s, !.cRef = n]
             r == [Idle EXCEPT !.pc = "assigned", !.doc = d]
  <2>2. SetJob(d, k) /\ thread' = [thread EXCEPT ![Port] = r] BY <1>5 DEF AssignJob
  <2>3. "SHADOW_DELETED" \in s => Is(d, "SHADOW_DELETED") BY DEF Is
  <2>4. r.pc = "assigned" BY DEF Idle
  <2> HIDE DEF n, s, r
  <2>5. k.state = job[d].state /\ k.JobId = job[d].JobId /\ k.Status = s BY <2>1 DEF JobRecords
  <2> HIDE DEF k
  <2>6. Carries(Port, d, k) BY <1>4, <2>1, <2>3, <2>5
  <2>7. Fate(Port, d) BY <2>2, <2>4, <2>6, PortFate DEF PortPcs
  <2> QED BY <1>3, <2>7
<1>6. ASSUME thread[Port].pc \in PortPcs
      PROVE  \E d \in Docs : d = thread[Port].doc /\ job[d].state = "queued" /\ job[d] \in JobRecords
  BY <1>6, PortBusyKnown
\* The job's status changes, and the thread goes on.
<1>7. ASSUME NEW d \in Docs, job[d].state = "queued", job[d] \in JobRecords, NEW pc \in PortPcs, GoTo(Port, pc),
             NEW s, SetJob(d, [job[d] EXCEPT !.Status = s]),
             "SHADOW_DELETED" \in s => Is(d, "SHADOW_DELETED")
      PROVE  InMemory(Port)
  <2> DEFINE k == [job[d] EXCEPT !.Status = s]
             r == [thread[Port] EXCEPT !.pc = pc]
  <2>1. k.state = job[d].state /\ k.JobId = job[d].JobId /\ k.Status = s BY <1>7 DEF JobRecords
  <2>2. r.pc = pc BY <1>0, Known DEF ThreadRecords
  <2>3. SetJob(d, k) /\ thread' = [thread EXCEPT ![Port] = r] BY <1>7 DEF GoTo
  <2> HIDE DEF k, r
  <2>4. Carries(Port, d, k) BY <1>4, <1>7, <2>1
  <2>5. Fate(Port, d) BY <1>7, <2>2, <2>3, <2>4, PortFate
  <2> QED BY <1>3, <2>5
<1>8. ASSUME NEW d \in Docs, job[d].state = "queued", job[d] \in JobRecords, NEW pc \in PortPcs, GoTo(Port, pc),
             UNCHANGED job
      PROVE  InMemory(Port)
  <2>1. job[d] = [job[d] EXCEPT !.Status = job[d].Status] BY <1>8 DEF JobRecords
  <2>2. job \in [Docs -> JobRecords] BY Known DEF CoreTypes
  <2>3. SetJob(d, job[d]) BY <1>8, <2>2 DEF SetJob
  <2>4. SetJob(d, [job[d] EXCEPT !.Status = job[d].Status]) BY <2>1, <2>3
  <2>5. "SHADOW_DELETED" \in job[d].Status => Is(d, "SHADOW_DELETED") BY DEF Is
  <2> QED BY <1>7, <1>8, <2>4, <2>5
<1>9. CASE PortQueries
  <2>1. PICK d \in Docs : d = thread[Port].doc /\ job[d].state = "queued" /\ job[d] \in JobRecords
    BY <1>6, <1>9 DEF PortQueries, At, PortPcs
  <2> DEFINE s == job[d].Status \cup {"PRINTING"}
  <2>2. \E pc \in PortPcs : GoTo(Port, pc) /\ (UNCHANGED job \/ SetJob(d, [job[d] EXCEPT !.Status = s]))
    BY <1>9, <2>1 DEF PortQueries, PortPcs
  <2>3. "SHADOW_DELETED" \in s => Is(d, "SHADOW_DELETED") BY DEF Is
  <2> HIDE DEF s
  <2> QED BY <1>7, <1>8, <2>1, <2>2, <2>3
<1>10. CASE PortStops
  <2>1. PICK d \in Docs : d = thread[Port].doc /\ job[d].state = "queued" /\ job[d] \in JobRecords
    BY <1>6, <1>10 DEF PortStops, At, PortPcs
  <2> DEFINE s == job[d].Status \ {"PRINTING"}
  <2>2. "end" \in PortPcs /\ GoTo(Port, "end") /\ SetJob(d, [job[d] EXCEPT !.Status = s])
    BY <1>10, <2>1 DEF PortStops, PortPcs
  <2>3. "SHADOW_DELETED" \in s => Is(d, "SHADOW_DELETED") BY DEF Is
  <2> HIDE DEF s
  <2> QED BY <1>7, <2>1, <2>2, <2>3
<1>11. CASE PortSends
  <2>1. PICK d \in Docs : d = thread[Port].doc /\ job[d].state = "queued" /\ job[d] \in JobRecords
    BY <1>6, <1>11 DEF PortSends, At, PortPcs
  <2> DEFINE s == job[d].Status \cup {"PRINTED"}
             j == [job[d] EXCEPT !.Status = s]
  <2>2. \/ DeleteJob(Port, d, j, "sent")
        \/ "sent" \in PortPcs /\ GoTo(Port, "sent") /\ (SetJob(d, j) \/ UNCHANGED job)
    BY <1>11, <2>1 DEF PortSends, PortPcs
  <2>3. ("SHADOW_DELETED" \in s => Is(d, "SHADOW_DELETED")) /\ s \in SUBSET Flags
    BY <2>1 DEF Is, JobRecords, Flags
  <2> HIDE DEF s
  <2>4. CASE DeleteJob(Port, d, j, "sent")
    <3>1. j \in JobRecords /\ j.state = job[d].state /\ j.JobId = job[d].JobId /\ j.Status = s
      BY <2>1, <2>3 DEF JobRecords
    <3> HIDE DEF j
    <3>2. Carries(Port, d, j) BY <1>4, <2>1, <2>3, <3>1
    <3>3. Fate(Port, d) BY <1>0, <2>4, <3>1, <3>2, DeleteJobFate
    <3> QED BY <1>3, <3>3
  <2> QED BY <1>7, <1>8, <2>1, <2>2, <2>3, <2>4
<1>12. CASE PortBegins
  <2>1. PICK d \in Docs : d = thread[Port].doc /\ job[d].state = "queued" /\ job[d] \in JobRecords
    BY <1>6, <1>12 DEF PortBegins, At, PortPcs
  <2> DEFINE j == Attempt(d, job[d])
  <2>2. j \in JobRecords /\ j.state = job[d].state /\ j.JobId = job[d].JobId
        /\ j.Status = job[d].Status \ {"RESTART"}
    BY <2>1, AttemptJob
  <2>3. WriteShadowJob(Port, d, j, "query") \/ ShadowWritten(Port, d, j, "query")
    BY <1>12, <2>1 DEF PortBegins
  <2> HIDE DEF j
  <2>4. Carries(Port, d, j) BY <1>4, <2>1, <2>2 DEF Is
  <2>5. Fate(Port, d) BY <1>0, <2>2, <2>3, <2>4, WriteShadowJobFate, ShadowWrittenFate
  <2> QED BY <1>3, <2>5
<1>13. CASE PortEnds
  <2>1. PICK d \in Docs : d = thread[Port].doc /\ job[d].state = "queued" /\ job[d] \in JobRecords
    BY <1>6, <1>13 DEF PortEnds, At, PortPcs
  <2> DEFINE x == IF At(Port, "refused") THEN {"BLOCKED_DEVQ"}
                  ELSE IF "RESTART" \in job[d].Status THEN {} ELSE {"PRINTED"}
             s == job[d].Status \cup x
             j == [job[d] EXCEPT !.Status = s]
  <2>2. \/ WriteShadowJob(Port, d, Kept(d, j), "kept") \/ RemoveIniPortFromIniJob(Port, d, j)
    BY <1>13, <2>1 DEF PortEnds
  <2>3. ("SHADOW_DELETED" \in s => Is(d, "SHADOW_DELETED")) /\ s \in SUBSET Flags
    BY <2>1 DEF Is, JobRecords, Flags
  <2> HIDE DEF s
  <2>4. j \in JobRecords /\ j.state = job[d].state /\ j.JobId = job[d].JobId /\ j.Status = s
    BY <2>1, <2>3 DEF JobRecords
  <2> HIDE DEF j
  <2>5. CASE RemoveIniPortFromIniJob(Port, d, j)
    <3>1. Carries(Port, d, j) BY <1>4, <2>1, <2>3, <2>4
    <3>2. Fate(Port, d) BY <1>0, <2>4, <2>5, <3>1, RemovePortFate
    <3> QED BY <1>3, <3>2
  <2>6. CASE WriteShadowJob(Port, d, Kept(d, j), "kept")
    <3> DEFINE k == Kept(d, j)
    <3>1. k \in JobRecords /\ k.state = j.state /\ k.JobId = j.JobId
          /\ k.Status = (j.Status \ {"PENDING_DELETION"}) \cup {"PRINTED"}
      BY <2>4, KeptJob
    <3>2. WriteShadowJob(Port, d, k, "kept") BY <2>6
    <3> HIDE DEF k
    <3>3. Carries(Port, d, k) BY <1>4, <2>1, <2>3, <2>4, <3>1
    <3>4. Fate(Port, d) BY <1>0, <3>1, <3>2, <3>3, WriteShadowJobFate
    <3> QED BY <1>3, <3>4
  <2> QED BY <2>2, <2>5, <2>6
<1> QED BY <1>5, <1>9, <1>10, <1>11, <1>12, <1>13 DEF PortStep

----------------------------------------------------------------------------
(* The steps at the files.                                                  *)

\* A step in memory keeps what the files hold.
LEMMA MemoryFiles ==
  ASSUME StoreInv, StoreInv', FileInv, NEW t \in Threads, InMemory(t)
  PROVE  FileInv'
<1>1. /\ Memory(t) /\ spool' = spool /\ shadow' = shadow
      /\ thread'[t].pc = "queue" => thread'[t] = thread[t]
      /\ At(t, "removeShadow") => thread'[t] = thread[t]
      /\ SpoolFiles /\ FailedIds /\ OwnIds /\ SpoolNamed /\ SpoolOnce
      /\ ShadowHeld /\ ShadowOf /\ ShadowGone
  BY DEF InMemory, disk, FileInv
<1>2. FailedIds' /\ OwnIds' BY <1>1, MemoryKeeps
<1>3. SpoolFiles' /\ SpoolNamed' /\ SpoolOnce' BY <1>1, SpoolKeeps
<1>4. ShadowHeld' /\ ShadowGone' BY <1>1, ShadowKeeps
<1>5. ShadowOf' BY <1>1 DEF ShadowOf
<1> QED BY <1>2, <1>3, <1>4, <1>5 DEF FileInv

\* The shadow file is gone when the id is only held by a thread that has not come to it yet,
\* or is past it.
LEMMA NoShadowHeld ==
  ASSUME ShadowHeld, NEW i \in Ids, FindJob(i) = {}, NEW t \in Threads, ~ At(t, "removeShadow"),
         \A u \in Threads : HoldsId(u, i) => u = t
  PROVE  shadow[i].file = "none"
<1>1. \A u \in Threads : At(u, "removeShadow") /\ thread[u].id = i => u = t BY DEF HoldsId, At
<1> QED BY <1>1 DEF ShadowHeld

\* A thread writes, or deletes, the shadow file of the id it is at.
LEMMA ShadowChanges ==
  ASSUME StoreInv, StoreInv', FileInv, NEW t \in Threads, Memory(t), UNCHANGED <<job, spool>>,
         NEW x, shadow' = [shadow EXCEPT ![thread[t].id] = x],
         thread'[t].pc # "queue",
         x.file # "none" =>
           /\ thread[t].pc \in WritePcs
           /\ thread'[t].pc \in Attending /\ thread'[t].doc = thread[t].doc
           /\ x.file = "good" => x.doc = thread[t].doc,
         \A e \in Docs : Attends(t, e) => Attends(t, e)' \/ (e = thread[t].doc /\ x.file = "none"),
         At(t, "removeShadow") => x.file = "none",
         thread[t].pc \in CallPcs \cup WritePcs \cup {"removeShadow"}
  PROVE  FileInv'
<1>0. /\ SpoolFiles /\ FailedIds /\ OwnIds /\ SpoolNamed /\ SpoolOnce
      /\ ShadowHeld /\ ShadowOf /\ ShadowGone
      /\ \A u \in Threads : u # t => thread'[u] = thread[u]
      /\ \A e \in Docs : \A u \in Threads : u # t /\ Attends(u, e) => Attends(u, e)'
      /\ job' = job /\ spool' = spool
  BY MemoryFacts DEF FileInv
<1>1. FailedIds' /\ OwnIds' BY <1>0, MemoryKeeps
<1>2. SpoolFiles' /\ SpoolNamed' /\ SpoolOnce' BY <1>0, SpoolKeeps
<1>3. PICK i \in Ids : i = thread[t].id BY Known DEF ThreadRecords
<1>4. shadow'[i] = x /\ \A k \in Ids : k # i => shadow'[k] = shadow[k]
  BY <1>3 DEF StoreInv, Types
<1>5. thread[t].pc \in CallPcs \cup WritePcs =>
        thread[t].doc \in Docs /\ thread[t].doc \in Queued /\ job[thread[t].doc].JobId = i
  BY <1>0, <1>3, AtJobs DEF OwnIds, Referring, Queued
<1>6. ShadowHeld'
  <2>1. SUFFICES ASSUME NEW k \in Ids, shadow'[k].file # "none"
                 PROVE  FindJob(k)' # {} \/ \E u \in Threads : At(u, "removeShadow")' /\ thread'[u].id = k
    BY DEF ShadowHeld
  <2>2. CASE k = i
    <3>1. thread[t].doc \in FindJob(k) BY <1>4, <1>5, <2>1, <2>2 DEF FindJob
    <3> QED BY <1>0, <3>1 DEF FindJob, Queued
  <2>3. CASE k # i
    <3>1. shadow[k].file # "none" BY <1>4, <2>1, <2>3
    <3>2. CASE FindJob(k) # {} BY <1>0, <3>2 DEF FindJob, Queued
    <3>3. ASSUME NEW u \in Threads, At(u, "removeShadow"), thread[u].id = k
          PROVE  At(u, "removeShadow")' /\ thread'[u].id = k
      BY <1>0, <1>3, <2>3, <3>3 DEF At
    <3> QED BY <1>0, <3>1, <3>2, <3>3 DEF ShadowHeld
  <2> QED BY <2>2, <2>3
<1>7. ShadowOf'
  <2>1. SUFFICES ASSUME NEW k \in Ids, shadow'[k].file = "good" PROVE shadow'[k].doc = spool[k]
    BY <1>0 DEF ShadowOf
  <2>2. CASE k = i
    <3>1. thread[t].pc \in WritePcs /\ x.doc = thread[t].doc BY <1>4, <2>1, <2>2
    <3>2. spool[i] = thread[t].doc BY <1>0, <1>5, <3>1 DEF SpoolFiles
    <3> QED BY <1>4, <2>2, <3>1, <3>2
  <2>3. CASE k # i BY <1>0, <1>4, <2>1, <2>3 DEF ShadowOf
  <2> QED BY <2>2, <2>3
<1>8. ShadowGone'
  <2>1. SUFFICES ASSUME NEW d \in Docs, job[d].state = "queued", Is(d, "SHADOW_DELETED"),
                        \A u \in Threads : ~ Attends(u, d)'
                 PROVE  shadow'[job[d].JobId].file = "none"
    BY <1>0 DEF ShadowGone, Queued, Is
  <2>2. job[d].JobId \in Ids BY Known DEF JobRecords
  <2>3. CASE job[d].JobId = i
    <3>1. SUFFICES ASSUME x.file # "none" PROVE FALSE BY <1>4, <2>3
    <3>2. thread[t].doc = d BY <1>5, <2>1, <2>3, <3>1, Known DEF IdsOK, Queued
    <3> QED BY <2>1, <3>1, <3>2 DEF Attends
  <2>4. CASE job[d].JobId # i
    <3>1. ASSUME NEW u \in Threads, Attends(u, d) PROVE FALSE
      <4>1. u = t /\ d = thread[t].doc BY <1>0, <2>1, <3>1
      <4>2. thread[t].pc \in CallPcs \cup WritePcs
        BY <3>1, <4>1 DEF Attends, Attending, CallPcs, WritePcs
      <4> QED BY <1>5, <2>4, <4>1, <4>2
    <3> QED BY <1>0, <1>4, <2>1, <2>2, <2>4, <3>1 DEF ShadowGone, Queued
  <2> QED BY <2>3, <2>4
<1> QED BY <1>1, <1>2, <1>6, <1>7, <1>8 DEF FileInv

\* The steps at shadow files.
LEMMA DeleteShadowFiles ==
  ASSUME StoreInv, StoreInv', FileInv, NEW t \in Threads, DeleteShadow(t)
  PROVE  FileInv'
<1>0. IdsStay(t)
  <2>1. \E e : StepOK(t, e) BY FileSteps DEF FileStep
  <2> QED BY <2>1, StepIds
<1>1. /\ thread[t].pc = "deleteShadow" /\ UNCHANGED <<job, spool>>
      /\ thread[t].id = job[thread[t].doc].JobId /\ thread[t].id \in Ids
  BY Known DEF DeleteShadow, At, FileInv, OwnIds, CallPcs, ThreadRecords
<1>2. CASE GoTo(t, "shadowKept") /\ UNCHANGED shadow
  <2>1. Memory(t) /\ thread'[t].pc = "shadowKept"
    BY <1>0, <1>1, <1>2, GoesOn DEF Attending
  <2>2. InMemory(t) BY <1>1, <1>2, <2>1 DEF InMemory, At, disk
  <2> QED BY <2>2, MemoryFiles
<1>3. CASE GoTo(t, "shadowDeleted") /\ shadow' = [shadow EXCEPT ![thread[t].id] = NoShadow]
  <2>1. NoShadow.file = "none" BY DEF NoShadow
  <2>2. shadow'[thread[t].id] = NoShadow BY <1>1, <1>3 DEF StoreInv, Types
  <2>3. /\ Memory(t) /\ thread'[t].pc = "shadowDeleted"
    BY <1>0, <1>1, <1>3, <2>1, <2>2, GoesOn
  <2>4. \A e \in Docs : Attends(t, e) => e = thread[t].doc BY DEF Attends
  <2>5. thread'[t].pc # "queue" /\ ~ At(t, "removeShadow") /\ thread[t].pc \in CallPcs
    BY <1>1, <2>3 DEF At, CallPcs
  <2> QED BY <1>1, <1>3, <2>1, <2>3, <2>4, <2>5, ShadowChanges
<1> QED BY <1>2, <1>3 DEF DeleteShadow

LEMMA RemoveShadowFiles ==
  ASSUME StoreInv, StoreInv', FileInv, NEW t \in Threads, RemoveShadow(t)
  PROVE  FileInv'
<1>0. IdsStay(t)
  <2>1. \E e : StepOK(t, e) BY FileSteps DEF FileStep
  <2> QED BY <2>1, StepIds
<1>1. /\ thread[t].pc = "removeShadow" /\ UNCHANGED <<job, spool>> /\ thread[t].id \in Ids
      /\ GoTo(t, "removeSpool")
  BY Known DEF RemoveShadow, At, ThreadRecords
\* The job is gone, so nobody is in WriteShadowJob for it.
<1>2. ~ ShadowInUse(thread[t].id)
  <2>1. SUFFICES ASSUME NEW u \in Threads, thread[u].pc \in {"write", "closeFile"},
                        thread[u].id = thread[t].id
                 PROVE  FALSE
    BY DEF ShadowInUse
  <2>2. thread[u].pc \in WritePcs BY <2>1 DEF WritePcs
  <2>3. thread[u].doc \in FindJob(thread[t].id)
    BY <2>1, <2>2, AtJobs DEF FileInv, OwnIds, Referring, FindJob, Queued
  <2>4. HoldsId(t, thread[t].id) BY <1>1 DEF HoldsId
  <2> QED BY <1>1, <2>3, <2>4, Known DEF IdsOK
<1>3. shadow' = [shadow EXCEPT ![thread[t].id] = NoShadow] BY <1>2 DEF RemoveShadow
<1>4. NoShadow.file = "none" BY DEF NoShadow
<1>5. thread[t].pc \notin Attending BY <1>1 DEF Attending
<1>6. Memory(t) /\ thread'[t].pc = "removeSpool"
  BY <1>0, <1>1, <1>5, GoesOn DEF At, CallPcs, WritePcs
<1>7. \A e \in Docs : ~ Attends(t, e) BY <1>5 DEF Attends
<1>8. thread'[t].pc # "queue" BY <1>6
<1> QED BY <1>1, <1>3, <1>4, <1>6, <1>7, <1>8, ShadowChanges

LEMMA WriteShadowFiles ==
  ASSUME StoreInv, StoreInv', FileInv, NEW t \in Threads, CreateShadowFile(t) \/ WriteShadowFile(t)
  PROVE  FileInv'
<1>0. IdsStay(t)
  <2>1. \E e : StepOK(t, e) BY FileSteps DEF FileStep
  <2> QED BY <2>1, StepIds
<1>1. /\ thread[t].pc \in {"createFile", "write"} /\ thread[t].pc \in WritePcs /\ UNCHANGED <<job, spool>>
      /\ thread[t].id = job[thread[t].doc].JobId /\ thread[t].id \in Ids
  <2>1. thread[t].pc \in {"createFile", "write"} /\ UNCHANGED <<job, spool>>
    BY DEF CreateShadowFile, WriteShadowFile, At
  <2>2. thread[t].pc \in WritePcs BY <2>1 DEF WritePcs
  <2> QED BY <2>1, <2>2, Known DEF FileInv, OwnIds, ThreadRecords
<1>2. CASE thread[t].pc = "createFile" /\ GoTo(t, "unwritten") /\ UNCHANGED shadow
  <2>1. Memory(t) /\ thread'[t].pc = "unwritten"
    BY <1>0, <1>1, <1>2, GoesOn DEF Attending
  <2>2. InMemory(t) BY <1>1, <1>2, <2>1 DEF InMemory, At, disk
  <2> QED BY <2>2, MemoryFiles
<1>3. ASSUME NEW pc \in {"write", "closeFile"}, GoTo(t, pc), NEW x,
             shadow' = [shadow EXCEPT ![thread[t].id] = x], x.file = "good" => x.doc = thread[t].doc
      PROVE  FileInv'
  <2>1. pc \in Attending BY DEF Attending
  <2>2. /\ Memory(t) /\ thread'[t].pc = pc /\ thread'[t].doc = thread[t].doc
    BY <1>0, <1>1, <1>3, <2>1, GoesOn
  <2>3. \A e \in Docs : Attends(t, e) => Attends(t, e)' BY <2>1, <2>2 DEF Attends
  <2>4. thread'[t].pc # "queue" /\ ~ At(t, "removeShadow") BY <1>1, <2>2 DEF At
  <2> QED BY <1>1, <1>3, <2>1, <2>2, <2>3, <2>4, ShadowChanges
<1>4. CASE GoTo(t, "write") /\ shadow' = [shadow EXCEPT ![thread[t].id] = Torn]
  <2>1. Torn.file = "torn" BY DEF Torn, NoShadow
  <2> QED BY <1>3, <1>4, <2>1
<1>5. CASE WriteShadowFile(t)
  <2> DEFINE x == Shadow(thread[t].doc, job[thread[t].doc])
  <2>1. x.doc = thread[t].doc BY DEF Shadow
  <2>2. GoTo(t, "closeFile") /\ shadow' = [shadow EXCEPT ![thread[t].id] = x]
    BY <1>5 DEF WriteShadowFile
  <2> HIDE DEF x
  <2> QED BY <1>3, <2>1, <2>2
<1>6. CreateShadowFile(t) =>
        \/ thread[t].pc = "createFile" /\ GoTo(t, "unwritten") /\ UNCHANGED shadow
        \/ GoTo(t, "write") /\ shadow' = [shadow EXCEPT ![thread[t].id] = Torn]
  BY DEF CreateShadowFile, At
<1> QED BY <1>2, <1>4, <1>5, <1>6

\* A thread makes, or deletes, the spool file of an id that is its own.
LEMMA SpoolChanges ==
  ASSUME StoreInv, StoreInv', FileInv, NEW t \in Threads, Memory(t), shadow' = shadow,
         NEW i \in Ids, FindJob(i) = {}, \A u \in Threads : HoldsId(u, i) => u = t,
         thread[t].pc \in {"create", "removeSpool", "deleteFile"}, thread[t].id = i,
         NEW x, spool' = [spool EXCEPT ![i] = x],
         x # NoDoc => At(t, "create") /\ x = thread[t].doc,
         thread'[t].pc \in {"queue", "idle", "freeId"},
         thread'[t].pc = "queue" => x = thread[t].doc /\ thread'[t].id = i /\ thread'[t].doc = thread[t].doc,
         \A e \in Docs : job'[e].state = "queued" => job[e].state = "queued"
  PROVE  FileInv'
<1>0. /\ SpoolFiles /\ FailedIds /\ OwnIds /\ SpoolNamed /\ SpoolOnce
      /\ ShadowHeld /\ ShadowOf /\ ShadowGone
      /\ \A u \in Threads : u # t => thread'[u] = thread[u]
      /\ \A e \in Docs : job'[e].state = "queued" => job'[e].JobId = job[e].JobId
      /\ JobsMove(t)
  BY MemoryFacts DEF FileInv, Memory
<1>1. FailedIds' /\ OwnIds' BY <1>0, MemoryKeeps
<1>2. ~ At(t, "removeShadow") BY DEF At
<1>3. ShadowHeld' /\ ShadowGone' BY <1>0, <1>2, ShadowKeeps
<1>4. /\ spool'[i] = x /\ \A k \in Ids : k # i => spool'[k] = spool[k]
      /\ \A k \in Ids : spool[k] \in Docs \cup {NoDoc}
  BY DEF StoreInv, Types
<1>5. ShadowOf'
  <2>1. shadow[i].file = "none" BY <1>0, <1>2, NoShadowHeld
  <2> QED BY <1>0, <1>4, <2>1 DEF ShadowOf
<1>6. x # NoDoc => x \in Docs /\ job[x].state = "submitted" /\ \A k \in Ids : spool[k] # x
  <2>1. SUFFICES ASSUME x # NoDoc PROVE x \in Docs /\ job[x].state = "submitted" /\ \A k \in Ids : spool[k] # x
    OBVIOUS
  <2>2. x \in Docs /\ job[x].state = "submitted" BY <2>1, Known DEF ThreadOK, At, SubmitPcs
  <2>3. \A k \in Ids : spool[k] # x BY <1>0, <2>1 DEF SpoolNamed
  <2> QED BY <2>2, <2>3
<1>7. SpoolFiles'
  <2>1. ASSUME NEW d \in Docs, job'[d].state = "queued" PROVE spool'[job'[d].JobId] = d
    <3>1. job'[d].JobId = job[d].JobId /\ d \in Queued /\ job[d].JobId \in Ids
      BY <1>0, <2>1, Known DEF Queued, JobRecords
    <3>2. job[d].JobId # i BY <3>1 DEF FindJob
    <3> QED BY <1>0, <1>4, <3>1, <3>2 DEF SpoolFiles
  <2>2. ASSUME NEW u \in Threads, thread'[u].pc \in {"queue", "removeShadow", "removeSpool"}
        PROVE  spool'[thread'[u].id] = thread'[u].doc
    <3>1. CASE u = t BY <1>4, <2>2, <3>1
    <3>2. CASE u # t
      <4>1. thread'[u] = thread[u] /\ thread[u].id \in Ids BY <1>0, <3>2, Known DEF ThreadRecords
      <4>2. thread[u].id # i BY <2>2, <3>2, <4>1 DEF HoldsId
      <4> QED BY <1>0, <1>4, <2>2, <4>1, <4>2 DEF SpoolFiles
    <3> QED BY <3>1, <3>2
  <2> QED BY <2>1, <2>2 DEF SpoolFiles, Queued
<1>8. SpoolNamed'
  <2>1. SUFFICES ASSUME NEW k \in Ids, spool'[k] # NoDoc
                 PROVE  /\ job'[spool'[k]].state # "new"
                        /\ \A u \in Threads : At(u, "create")' => thread'[u].doc # spool'[k]
    BY DEF SpoolNamed
  <2>2. spool'[k] \in Docs /\ job[spool'[k]].state # "new" BY <1>0, <1>4, <1>6, <2>1 DEF SpoolNamed
  <2>3. job'[spool'[k]].state # "new" BY <1>0, <2>2 DEF JobsMove
  <2>4. ASSUME NEW u \in Threads, At(u, "create")' PROVE thread'[u].doc # spool'[k]
    <3>1. u # t /\ thread'[u] = thread[u] BY <1>0, <2>4 DEF At
    <3>2. At(u, "create") BY <2>4, <3>1 DEF At
    <3>3. CASE k # i BY <1>0, <1>4, <2>1, <3>1, <3>2, <3>3 DEF SpoolNamed
    <3>4. CASE k = i
      <4>1. At(t, "create") /\ spool'[k] = thread[t].doc BY <1>4, <2>1, <3>4
      <4>2. SubmitsAlone BY DEF StoreInv, ThreadsOK
      <4> QED BY <3>1, <3>2, <4>1, <4>2 DEF SubmitsAlone, At, SubmitPcs
    <3> QED BY <3>3, <3>4
  <2> QED BY <2>3, <2>4
<1>9. SpoolOnce' BY <1>0, <1>4, <1>6 DEF SpoolOnce
<1> QED BY <1>1, <1>3, <1>5, <1>7, <1>8, <1>9 DEF FileInv

\* The steps at spool files.
LEMMA RemoveSpoolFiles ==
  ASSUME StoreInv, StoreInv', FileInv, NEW t \in Threads, RemoveSpool(t)
  PROVE  FileInv'
<1>0. IdsStay(t)
  <2>1. \E e : StepOK(t, e) BY FileSteps DEF FileStep
  <2> QED BY <2>1, StepIds
<1>1. /\ thread[t].pc = "removeSpool" /\ UNCHANGED <<job, shadow>> /\ thread[t].then = "idle"
      /\ thread[t].pc \notin Attending /\ ~ At(t, "removeShadow")
  BY Known DEF RemoveSpool, At, ThreadOK, RemovePcs, Attending
<1>2. PICK i \in Ids : thread[t].id = i BY Known DEF ThreadRecords
<1>3. FindJob(i) = {} /\ \A u \in Threads : HoldsId(u, i) => u = t
  <2>1. HoldsId(t, i) BY <1>1, <1>2 DEF HoldsId
  <2> QED BY <2>1, Known DEF IdsOK
<1>4. CASE GoTo(t, "freeId") /\ spool' = [spool EXCEPT ![i] = NoDoc]
  <2>1. Memory(t) /\ thread'[t].pc = "freeId"
    BY <1>0, <1>1, <1>4, GoesOn DEF CallPcs, WritePcs
  <2>2. thread'[t].pc \in {"queue", "idle", "freeId"} /\ thread'[t].pc # "queue"
        /\ \A e \in Docs : job'[e].state = "queued" => job[e].state = "queued"
    BY <1>1, <2>1
  <2> QED BY <1>1, <1>2, <1>3, <1>4, <2>1, <2>2, SpoolChanges
<1>5. CASE Resume(t, "idle") /\ UNCHANGED spool
  <2> DEFINE r == [Idle EXCEPT !.pc = "idle"]
  <2>1. r.pc = "idle" BY DEF Idle
  <2>2. thread' = [thread EXCEPT ![t] = r] BY <1>5 DEF Resume, Resumed
  <2> HIDE DEF r
  <2>3. InMemory(t) BY <1>0, <1>1, <1>5, <2>1, <2>2, RestsInMemory DEF disk, Attending
  <2> QED BY <2>3, MemoryFiles
<1> QED BY <1>1, <1>2, <1>4, <1>5 DEF RemoveSpool

LEMMA SpoolFailsFiles ==
  ASSUME StartDocOnly, StoreInv, StoreInv', FileInv, NEW c \in Clients, ClientStep(c), SpoolThisJobFails(c)
  PROVE  FileInv'
<1>0. c \in Threads /\ IdsStay(c) BY ClientIds
<1>1. thread[c].pc = "deleteFile" /\ UNCHANGED <<job, shadow>>
  BY DEF SpoolThisJobFails, At
<1>2. PICK i \in Ids : thread[c].id = i BY <1>0, Known DEF ThreadRecords
<1>3. FindJob(i) = {} /\ \A u \in Threads : ~ HoldsId(u, i)
  BY <1>0, <1>1, <1>2 DEF FileInv, FailedIds, At
<1> DEFINE r == [Idle EXCEPT !.pc = "idle"]
<1>4. r.pc = "idle" BY DEF Idle
<1>5. thread' = [thread EXCEPT ![c] = r] BY DEF SpoolThisJobFails, Resume, Resumed
<1> HIDE DEF r
<1>6. Memory(c) /\ thread'[c] = r BY <1>0, <1>1, <1>4, <1>5, RestsMemory DEF Attending
<1>7. spool' = [spool EXCEPT ![i] = NoDoc] BY <1>2 DEF SpoolThisJobFails
<1>8. thread'[c].pc \in {"queue", "idle", "freeId"} /\ thread'[c].pc # "queue"
      /\ \A e \in Docs : job'[e].state = "queued" => job[e].state = "queued"
  BY <1>1, <1>4, <1>6
<1> QED BY <1>0, <1>1, <1>2, <1>3, <1>6, <1>7, <1>8, SpoolChanges

LEMMA CreateSpoolFiles ==
  ASSUME StartDocOnly, StoreInv, StoreInv', FileInv, NEW c \in Clients, ClientStep(c), CreateSpoolFile(c)
  PROVE  FileInv'
<1>0. c \in Threads /\ IdsStay(c) BY ClientIds
<1>1. thread[c].pc = "create" /\ UNCHANGED shadow /\ At(c, "create") /\ thread[c].pc \notin Attending
  BY DEF CreateSpoolFile, At, Attending
<1>2. PICK i \in Ids : thread[c].id = i BY <1>0, Known DEF ThreadRecords
<1>3. FindJob(i) = {} /\ \A u \in Threads : HoldsId(u, i) => u = c
  <2>1. HoldsId(c, i) BY <1>1, <1>2 DEF HoldsId
  <2> QED BY <1>0, <2>1, Known DEF IdsOK
<1>4. PICK d \in Docs : d = thread[c].doc /\ job[d].state = "submitted" /\ job[d] \in JobRecords
  BY <1>0, <1>1, Known DEF ThreadOK, SubmitPcs
<1>5. CASE GoTo(c, "queue") /\ UNCHANGED job /\ spool' = [spool EXCEPT ![i] = d]
  <2>1. /\ Memory(c) /\ thread'[c].pc = "queue"
        /\ thread'[c].doc = thread[c].doc /\ thread'[c].id = thread[c].id
    BY <1>0, <1>1, <1>5, GoesOn DEF CallPcs, WritePcs
  <2>2. /\ thread'[c].pc \in {"queue", "idle", "freeId"}
        /\ \A e \in Docs : job'[e].state = "queued" => job[e].state = "queued"
    BY <1>5, <2>1
  <2> QED BY <1>0, <1>1, <1>2, <1>3, <1>4, <1>5, <2>1, <2>2, SpoolChanges
<1>6. CASE /\ SetJob(d, [job[d] EXCEPT !.state = "gone"]) /\ Resume(c, "idle")
           /\ spool' \in {spool, [spool EXCEPT ![i] = d]}
  <2> DEFINE r == [Idle EXCEPT !.pc = "idle"]
             k == [job[d] EXCEPT !.state = "gone"]
  <2>1. r.pc = "idle" /\ k.state = "gone" BY <1>4 DEF Idle, JobRecords
  <2>2. thread' = [thread EXCEPT ![c] = r] /\ SetJob(d, k) BY <1>6 DEF Resume, Resumed
  <2> HIDE DEF r, k
  <2>3. /\ job'[d] = k /\ \A e \in Docs : e # d => job'[e] = job[e]
        /\ thread'[c] = r /\ \A u \in Threads : u # c => thread'[u] = thread[u]
    BY <1>0, <2>2, Written
  <2>4. ThreadMoves(c) BY <2>1, <2>3 DEF ThreadMoves, CallPcs, WritePcs
  <2>5. JobsMove(c) BY <1>1, <1>4, <2>1, <2>3 DEF JobsMove, Is, Attends, Attending
  <2>6. Memory(c) BY <1>0, <2>4, <2>5 DEF Memory
  <2>7. CASE spool' = spool
    <3>1. InMemory(c) BY <1>1, <2>1, <2>3, <2>6, <2>7 DEF InMemory, At, disk
    <3> QED BY <1>0, <3>1, MemoryFiles
  <2>8. CASE spool' = [spool EXCEPT ![i] = d]
    <3>1. thread'[c].pc \in {"queue", "idle", "freeId"} /\ thread'[c].pc # "queue"
          /\ \A e \in Docs : job'[e].state = "queued" => job[e].state = "queued"
      BY <2>1, <2>3
    <3> QED BY <1>0, <1>1, <1>2, <1>3, <1>4, <2>6, <2>8, <3>1, SpoolChanges
  <2> QED BY <1>6, <2>7, <2>8
<1> QED BY <1>2, <1>4, <1>5, <1>6 DEF CreateSpoolFile

\* A crash: the jobs are read again, each from the files of its own id.
LEMMA CrashFiles ==
  ASSUME StoreInv, FileInv, Crash
  PROVE  FileInv'
<1> DEFINE read == {i \in Ids : Readable(i)}
           id(d) == CHOOSE i \in read : shadow[i].doc = d
           Found(d) == \E i \in read : shadow[i].doc = d
<1>0. /\ Restart /\ SpoolFiles /\ SpoolOnce /\ ShadowHeld /\ ShadowOf
      /\ NoDoc \notin Docs /\ \A i \in Ids : spool[i] \in Docs \cup {NoDoc}
  BY ConstantsAssumption DEF Crash, FileInv, StoreInv, Types
<1>1. \A i \in read : i \in Ids /\ spool[i] \in Docs /\ shadow[i].doc = spool[i] /\ shadow[i].file = "good"
  BY <1>0 DEF Readable, ShadowOf
<1>2. ASSUME NEW d \in Docs
      PROVE  /\ Found(d) => /\ id(d) \in read /\ shadow[id(d)].doc = d
                            /\ job'[d] = ReadShadowJob(id(d))
             /\ ~ Found(d) => job'[d].state # "queued"
  <2>1. job'[d] = IF Found(d) THEN ReadShadowJob(id(d))
                  ELSE IF job[d].state = "new" THEN NoJob ELSE [NoJob EXCEPT !.state = "gone"]
    BY <1>0, <1>2 DEF Restart
  <2>2. NoJob.state # "queued" /\ [NoJob EXCEPT !.state = "gone"].state # "queued"
    BY DEF NoJob
  <2>3. Found(d) => id(d) \in read /\ shadow[id(d)].doc = d OBVIOUS
  <2> HIDE DEF Found, id
  <2> QED BY <2>1, <2>2, <2>3
<1>3. /\ \A t \in Threads : thread'[t] = Idle
      /\ \A i \in Ids : spool'[i] = IF i \in read THEN spool[i] ELSE NoDoc
      /\ \A i \in Ids : shadow'[i] = IF i \in read \/ spool[i] = NoDoc THEN shadow[i] ELSE NoShadow
  BY <1>0 DEF Restart
<1>4. Idle.pc = "idle" /\ NoShadow.file = "none" BY DEF Idle, NoShadow
<1> HIDE DEF read, id, Found
\* A job that is read has the id of its files,
<1>5. ASSUME NEW d \in Docs, job'[d].state = "queued"
      PROVE  /\ job'[d].JobId \in read /\ spool[job'[d].JobId] = d
             /\ ~ Is(d, "SHADOW_DELETED")'
  <2>1. /\ id(d) \in read /\ shadow[id(d)].doc = d /\ job'[d] = ReadShadowJob(id(d))
    BY <1>2, <1>5
  <2>2. job'[d].JobId = id(d) /\ job'[d].Status \subseteq {"PRINTED"} BY <2>1 DEF ReadShadowJob
  <2> QED BY <1>1, <2>1, <2>2 DEF Is
\* and every such file has a job.
<1>6. ASSUME NEW i \in read
      PROVE  job'[spool[i]].state = "queued" /\ job'[spool[i]].JobId = i
  <2>1. Found(spool[i]) BY <1>1 DEF Found
  <2>2. job'[spool[i]] = ReadShadowJob(id(spool[i])) /\ id(spool[i]) \in read
        /\ shadow[id(spool[i])].doc = spool[i]
    BY <1>1, <1>2, <2>1
  <2>3. id(spool[i]) = i
    <3> DEFINE k == id(spool[i])
    <3>1. k \in Ids /\ spool[k] = spool[i] /\ spool[i] # NoDoc /\ i \in Ids
      BY <1>0, <1>1, <2>2
    <3> QED BY <1>0, <3>1 DEF SpoolOnce
  <2> QED BY <2>2, <2>3 DEF ReadShadowJob
<1>7. SpoolFiles' BY <1>1, <1>3, <1>4, <1>5 DEF SpoolFiles, Queued
<1>8. FailedIds' /\ OwnIds'
  BY <1>3, <1>4 DEF FailedIds, OwnIds, At, CallPcs, WritePcs
<1>9. SpoolNamed'
  BY <1>1, <1>3, <1>4, <1>6 DEF SpoolNamed, At
<1>10. SpoolOnce' BY <1>0, <1>3 DEF SpoolOnce
<1>11. ASSUME NEW i \in Ids, shadow'[i].file # "none" PROVE i \in read
  <2>1. SUFFICES ASSUME spool[i] = NoDoc, shadow[i].file # "none" PROVE FALSE BY <1>3, <1>4, <1>11
  <2>2. \A d \in Docs : job[d].state = "queued" => job[d].JobId # i
    BY <1>0, <2>1 DEF SpoolFiles, Queued
  <2>3. ASSUME NEW u \in Threads, At(u, "removeShadow"), thread[u].id = i PROVE FALSE
    <3>1. thread[u].doc \in Docs BY <2>3, Known DEF ThreadOK, At
    <3> QED BY <1>0, <2>1, <2>3, <3>1 DEF SpoolFiles, At
  <2> QED BY <1>0, <2>1, <2>2, <2>3 DEF ShadowHeld, FindJob, Queued
<1>12. ShadowHeld'
  <2>1. SUFFICES ASSUME NEW i \in Ids, shadow'[i].file # "none" PROVE FindJob(i)' # {}
    BY DEF ShadowHeld
  <2>2. i \in read BY <1>11, <2>1
  <2>3. spool[i] \in FindJob(i)' BY <1>1, <1>6, <2>2 DEF FindJob, Queued
  <2> QED BY <2>3
<1>13. ShadowOf'
  <2>1. SUFFICES ASSUME NEW i \in Ids, shadow'[i].file = "good" PROVE shadow'[i].doc = spool'[i]
    BY DEF ShadowOf
  <2>2. i \in read BY <1>11, <2>1
  <2> QED BY <1>1, <1>3, <2>2
<1>14. ShadowGone' BY <1>5 DEF ShadowGone, Queued
<1> QED BY <1>7, <1>8, <1>9, <1>10, <1>12, <1>13, <1>14 DEF FileInv

\* Nothing is there at first.
LEMMA InitFiles == Init => FileInv
<1> SUFFICES ASSUME Init PROVE FileInv OBVIOUS
<1>1. /\ \A d \in Docs : job[d].state = "new"
      /\ \A t \in Threads : thread[t].pc = "idle"
      /\ \A i \in Ids : spool[i] = NoDoc /\ shadow[i].file = "none"
  BY DEF Init, NoJob, Idle, NoShadow
<1>2. Queued = {} BY <1>1 DEF Queued
<1>3. SpoolFiles BY <1>1, <1>2 DEF SpoolFiles
<1>6. FailedIds BY <1>1 DEF FailedIds, At
<1>7. OwnIds BY <1>1 DEF OwnIds, CallPcs, WritePcs
<1>4. SpoolNamed /\ SpoolOnce BY <1>1 DEF SpoolNamed, SpoolOnce
<1>5. ShadowHeld /\ ShadowOf /\ ShadowGone BY <1>1, <1>2 DEF ShadowHeld, ShadowOf, ShadowGone
<1> QED BY <1>3, <1>4, <1>5, <1>6, <1>7 DEF FileInv

\* The invariant is inductive, with that of the ids.
LEMMA FilesStep ==
  ASSUME StartDocOnly, StoreInv, FileInv, [Next]_vars
  PROVE  FileInv'
<1>0. StoreInv' BY StoreStep
<1>1. ASSUME NEW t \in Threads, InMemory(t) PROVE FileInv' BY <1>0, <1>1, MemoryFiles
<1>2. ASSUME NEW t \in Threads, FileStep(t) PROVE FileInv'
  <2>1. OwnIds BY DEF FileInv
  <2>2. CASE Cancelled(t) \/ ShadowDeleted(t) BY <1>1, <2>2, CallsInMemory
  <2>3. CASE Reenter(t) BY <1>1, <2>3, ReenterInMemory
  <2>4. CASE FreeId(t) \/ CloseShadowFile(t) BY <1>1, <2>1, <2>4, FreeIdInMemory
  <2>5. CASE DeleteShadow(t) BY <1>0, <2>5, DeleteShadowFiles
  <2>6. CASE RemoveShadow(t) BY <1>0, <2>6, RemoveShadowFiles
  <2>7. CASE RemoveSpool(t) BY <1>0, <2>7, RemoveSpoolFiles
  <2>8. CASE CreateShadowFile(t) \/ WriteShadowFile(t) BY <1>0, <2>8, WriteShadowFiles
  <2> QED BY <1>2, <2>2, <2>3, <2>4, <2>5, <2>6, <2>7, <2>8 DEF FileStep
<1>3. ASSUME NEW c \in Clients, ClientStep(c) PROVE FileInv'
  <2>0. c \in Threads BY DEF Threads
  <2>1. CASE CreateSpoolFile(c) BY <1>0, <1>3, <2>1, CreateSpoolFiles
  <2>2. CASE SpoolThisJobFails(c) BY <1>0, <1>3, <2>2, SpoolFailsFiles
  <2>3. CASE SpoolThisJob(c) BY <1>1, <1>3, <2>0, <2>3, SpoolInMemory
  <2>4. CASE EndDocPrinter(c) BY <1>1, <1>3, <2>0, <2>4, EndDocInMemory
  <2>5. CASE ClosePrinter(c) \/ Closed(c) BY <1>1, <1>3, <2>0, <2>5, ClosesInMemory
  <2>6. CASE UnblockJobs(c) \/ \E d \in Docs : RestartJob(c, d)
    BY <1>1, <1>3, <2>0, <2>6, UsersInMemory
  <2>7. CASE \E d \in Docs : StartDocPrinter(c, d) BY <1>1, <1>3, <2>0, <2>7, StartDocInMemory
  <2>8. CASE \E d \in Docs : DeleteByUser(c, d) BY <1>1, <1>3, <2>0, <2>8, DeleteInMemory
  <2> QED BY <1>3, <2>1, <2>2, <2>3, <2>4, <2>5, <2>6, <2>7, <2>8, ClientCases
<1>4. CASE PortStep BY <1>1, <1>4, PortInMemory DEF Threads
<1>5. CASE Crash BY <1>5, CrashFiles
<1>6. CASE UNCHANGED vars
  <2>1. /\ job' = job /\ thread' = thread /\ idMap' = idMap /\ spool' = spool /\ shadow' = shadow
    BY <1>6 DEF vars, mapVars, disk
  <2> QED BY <2>1 DEF FileInv, SpoolFiles, FailedIds, OwnIds, SpoolNamed, SpoolOnce, ShadowHeld,
                      ShadowOf, ShadowGone, Queued, FindJob, HoldsId, At, Is, Attends
<1> QED BY <1>2, <1>3, <1>4, <1>5, <1>6 DEF Next

LEMMA FilesAreIntact == FileInv => SpoolFileIntact
BY DEF FileInv, SpoolFiles, SpoolFileIntact, Spooled

\* The spool file of a job is its own: where documents come by StartDocPrinter and the bitmap
\* can grow, no other job empties, overwrites or deletes it while the job is in the queue,
\* whatever fails (spooler.c 741, job.c 1990), and a spooler that starts again reads no shadow
\* file of another document (init.c, ProcessShadowJobs).
THEOREM SpoolFilesIntact ==
  ASSUME StartDocOnly
  PROVE  Spec => []SpoolFileIntact
BY InitStore, StoreStep, InitFiles, FilesStep, FilesAreIntact, PTL DEF Spec

----------------------------------------------------------------------------
(* No id and no file is left behind.                                        *)

\* Who still has to do with the spool file of an id, if no job has.
AtFilePcs == {"queue", "deleteFile", "removeShadow", "removeSpool"}
AtFile(t, i) == thread[t].pc \in AtFilePcs /\ thread[t].id = i

SpoolHeld ==
  \A i \in Ids : spool[i] # NoDoc => FindJob(i) # {} \/ \E t \in Threads : AtFile(t, i)
IdsHeld == \A i \in idMap : FindJob(i) # {} \/ \E t \in Threads : HoldsId(t, i)

\* What keeps them: thread t leaves the files, and the id, of a job that it takes
\* from the queue to itself,
Leaves(t) ==
  /\ \A u \in Threads : u # t => thread'[u] = thread[u]
  /\ \A i \in Ids : FindJob(i) # {} =>
       FindJob(i)' # {} \/ (thread'[t].pc \in {"removeShadow", "removeSpool"} /\ thread'[t].id = i)

\* and gives up neither before it is gone, or is a job's.
GivesFile(t) ==
  \A i \in Ids :
    /\ AtFile(t, i) => AtFile(t, i)' \/ FindJob(i)' # {} \/ spool'[i] = NoDoc
    /\ spool'[i] # NoDoc => spool[i] # NoDoc \/ AtFile(t, i)'
GivesId(t) ==
  \A i \in Ids :
    /\ HoldsId(t, i) => HoldsId(t, i)' \/ FindJob(i)' # {} \/ i \notin idMap'
    /\ i \in idMap' => i \in idMap \/ HoldsId(t, i)'

LEMMA FilesHeld ==
  ASSUME SpoolHeld, NEW t \in Threads, Leaves(t), GivesFile(t)
  PROVE  SpoolHeld'
<1>1. SUFFICES ASSUME NEW i \in Ids, spool'[i] # NoDoc
               PROVE  FindJob(i)' # {} \/ \E u \in Threads : AtFile(u, i)'
  BY DEF SpoolHeld
<1>2. CASE AtFile(t, i)' BY <1>2
<1>3. CASE FindJob(i) # {} BY <1>3 DEF Leaves, AtFile, AtFilePcs
<1>4. ASSUME NEW u \in Threads, AtFile(u, i), u # t PROVE AtFile(u, i)'
  BY <1>4 DEF Leaves, AtFile
<1>5. CASE AtFile(t, i) BY <1>1, <1>5 DEF GivesFile
<1> QED BY <1>1, <1>2, <1>3, <1>4, <1>5 DEF SpoolHeld, GivesFile

LEMMA IdsAreHeld ==
  ASSUME StoreInv, StoreInv', IdsHeld, NEW t \in Threads, Leaves(t), GivesId(t)
  PROVE  IdsHeld'
<1>0. idMap' \subseteq Ids BY DEF StoreInv, Types
<1>1. SUFFICES ASSUME NEW i \in Ids, i \in idMap'
               PROVE  FindJob(i)' # {} \/ \E u \in Threads : HoldsId(u, i)'
  BY <1>0 DEF IdsHeld
<1>2. CASE HoldsId(t, i)' BY <1>2
<1>3. CASE FindJob(i) # {} BY <1>3 DEF Leaves, HoldsId
<1>4. ASSUME NEW u \in Threads, HoldsId(u, i), u # t PROVE HoldsId(u, i)'
  BY <1>4 DEF Leaves, HoldsId
<1>5. CASE HoldsId(t, i) BY <1>1, <1>5 DEF GivesId
<1> QED BY <1>1, <1>2, <1>3, <1>4, <1>5 DEF IdsHeld, GivesId

\* The steps of a thread that has no id and no file of its own.
LEMMA HasNothing ==
  ASSUME NEW t \in Threads, idMap' \subseteq idMap, spool' = spool,
         thread[t].pc \notin {"create", "addJob", "freeId"} \cup AtFilePcs
  PROVE  GivesFile(t) /\ GivesId(t)
BY DEF GivesFile, GivesId, AtFile, AtFilePcs, HoldsId

LEMMA MemoryLeaves ==
  ASSUME StoreInv, StoreInv', NEW t \in Threads, Memory(t)
  PROVE  Leaves(t)
<1>1. /\ \A u \in Threads : u # t => thread'[u] = thread[u]
      /\ \A e \in Docs : job[e].state = "queued" /\ job'[e].state = "queued" =>
           job'[e].JobId = job[e].JobId
      /\ JobsMove(t)
  BY MemoryFacts DEF Memory
<1>2. ASSUME NEW i \in Ids, NEW d \in Docs, job[d].state = "queued", job[d].JobId = i
      PROVE  \/ d \in FindJob(i)'
             \/ thread'[t].pc \in {"removeShadow", "removeSpool"} /\ thread'[t].id = i
  <2>1. CASE job'[d].state = "queued" BY <1>1, <1>2, <2>1 DEF FindJob, Queued
  <2>2. CASE job'[d].state # "queued" BY <1>1, <1>2, <2>2 DEF JobsMove
  <2> QED BY <2>1, <2>2
<1> QED BY <1>1, <1>2 DEF Leaves, FindJob, Queued

\* A thread that goes on where it is.
LEMMA GoesOnLeaves ==
  ASSUME StoreInv, NEW t \in Threads, job' = job, NEW pc, GoTo(t, pc)
  PROVE  /\ Leaves(t) /\ thread'[t].pc = pc
         /\ thread'[t].doc = thread[t].doc /\ thread'[t].id = thread[t].id
<1>1. /\ \A u \in Threads : u # t => thread'[u] = thread[u]
      /\ thread'[t] = [thread[t] EXCEPT !.pc = pc]
  BY Known DEF GoTo, CoreTypes
<1>2. thread'[t].pc = pc /\ thread'[t].doc = thread[t].doc /\ thread'[t].id = thread[t].id
  BY <1>1, Known DEF ThreadRecords
<1>3. \A i : FindJob(i)' = FindJob(i) BY DEF FindJob, Queued
<1> QED BY <1>1, <1>2, <1>3 DEF Leaves

\* DeleteFile does not fail in DeleteJob: the file is there, and no one else has it open.
LEMMA DeleteSucceeds ==
  ASSUME StoreInv, SpoolFiles, NEW t \in Threads, RemoveSpool(t)
  PROVE  GoTo(t, "freeId") /\ spool' = [spool EXCEPT ![thread[t].id] = NoDoc]
<1>1. thread[t].pc = "removeSpool" /\ thread[t].id \in Ids /\ thread[t].doc \in Docs
  BY Known DEF RemoveSpool, At, ThreadRecords, ThreadOK
<1>2. PICK i \in Ids : i = thread[t].id BY <1>1
<1>3. spool[i] # NoDoc BY <1>1, <1>2, ConstantsAssumption DEF SpoolFiles
<1>4. FindJob(i) = {} /\ \A u \in Threads : HoldsId(u, i) => u = t
  <2>1. HoldsId(t, i) BY <1>1, <1>2 DEF HoldsId
  <2> QED BY <2>1, Known DEF IdsOK
<1>5. ~ SpoolInUse(i) BY <1>1, <1>4 DEF SpoolInUse, At, HoldsId, Threads
<1>6. \A c \in Clients : handle[c].mapped[i] = "none" BY Known DEF HandleOK
<1>7. ~ DeleteSpoolMayFail(i) BY <1>3, <1>5, <1>6 DEF DeleteSpoolMayFail
<1> QED BY <1>2, <1>7 DEF RemoveSpool

LEMMA FileLeaves ==
  ASSUME StoreInv, StoreInv', FileInv, NEW t \in Threads, FileStep(t)
  PROVE  Leaves(t) /\ GivesFile(t) /\ GivesId(t)
<1>1. CASE Cancelled(t) \/ ShadowDeleted(t) \/ Reenter(t)
  <2>1. Memory(t) BY <1>1, CallsInMemory, ReenterInMemory DEF InMemory
  <2>2. /\ UNCHANGED <<mapVars, disk>>
        /\ thread[t].pc \in {"cancel", "shadowKept", "shadowDeleted", "written", "unwritten"}
    BY <1>1 DEF Cancelled, ShadowDeleted, Reenter, At
  <2>3. GivesFile(t) /\ GivesId(t) BY <2>2, HasNothing DEF mapVars, disk, AtFilePcs
  <2> QED BY <2>1, <2>3, MemoryLeaves
<1>2. CASE DeleteShadow(t) \/ CreateShadowFile(t) \/ WriteShadowFile(t) \/ CloseShadowFile(t)
  <2>1. /\ UNCHANGED <<mapVars, job, spool>> /\ \E pc : GoTo(t, pc)
        /\ thread[t].pc \in {"deleteShadow", "createFile", "write", "closeFile"}
    BY <1>2 DEF DeleteShadow, CreateShadowFile, WriteShadowFile, CloseShadowFile, At, disk
  <2>2. GivesFile(t) /\ GivesId(t) BY <2>1, HasNothing DEF mapVars, AtFilePcs
  <2> QED BY <2>1, <2>2, GoesOnLeaves
<1>3. CASE RemoveShadow(t)
  <2>1. /\ UNCHANGED <<idMap, job, spool>> /\ GoTo(t, "removeSpool") /\ thread[t].pc = "removeShadow"
    BY <1>3 DEF RemoveShadow, At, mapVars
  <2>2. Leaves(t) /\ thread'[t].pc = "removeSpool" /\ thread'[t].id = thread[t].id
    BY <2>1, GoesOnLeaves
  <2> QED BY <2>1, <2>2 DEF GivesFile, GivesId, AtFile, AtFilePcs, HoldsId
<1>4. CASE RemoveSpool(t)
  <2>1. /\ UNCHANGED <<idMap, job>> /\ GoTo(t, "freeId") /\ thread[t].pc = "removeSpool"
        /\ spool' = [spool EXCEPT ![thread[t].id] = NoDoc]
    BY <1>4, DeleteSucceeds DEF RemoveSpool, At, mapVars, FileInv
  <2>2. Leaves(t) /\ thread'[t].pc = "freeId" /\ thread'[t].id = thread[t].id
    BY <2>1, GoesOnLeaves
  <2>3. \A i \in Ids : spool'[i] = IF i = thread[t].id THEN NoDoc ELSE spool[i]
    BY <2>1 DEF StoreInv, Types
  <2> QED BY <2>1, <2>2, <2>3 DEF GivesFile, GivesId, AtFile, AtFilePcs, HoldsId
<1>5. CASE FreeId(t)
  <2>1. Memory(t) BY <1>5, FreeIdInMemory DEF InMemory, FileInv
  <2>2. /\ idMap' = idMap \ {thread[t].id} /\ spool' = spool /\ thread[t].pc = "freeId"
    BY <1>5 DEF FreeId, vMarkOff, disk, At
  <2>3. GivesFile(t) /\ GivesId(t) BY <2>2 DEF GivesFile, GivesId, AtFile, AtFilePcs, HoldsId
  <2> QED BY <2>1, <2>3, MemoryLeaves
<1> QED BY <1>1, <1>2, <1>3, <1>4, <1>5 DEF FileStep

\* A client that submits a document.
LEMMA SubmitLeaves ==
  ASSUME StartDocOnly, StoreInv, StoreInv', NEW c \in Clients, ClientStep(c),
         CreateSpoolFile(c) \/ SpoolThisJob(c) \/ SpoolThisJobFails(c)
  PROVE  /\ Leaves(c)
         /\ "SpoolThisJob" \notin Failures => GivesFile(c)
         /\ {"SpoolThisJob", "CreateJobEntry"} \cap Failures = {} => GivesId(c)
<1>0. c \in Threads BY DEF Threads
<1>1. CASE SpoolThisJobFails(c)
  <2>1. /\ UNCHANGED <<idMap, job>> /\ thread[c].pc = "deleteFile"
        /\ spool' = [spool EXCEPT ![thread[c].id] = NoDoc]
    BY <1>1 DEF SpoolThisJobFails, At, mapVars
  <2>2. \A i \in Ids : spool'[i] = IF i = thread[c].id THEN NoDoc ELSE spool[i]
    BY <2>1 DEF StoreInv, Types
  <2>3. \A u \in Threads : u # c => thread'[u] = thread[u]
    BY <1>0, <1>1, Known DEF SpoolThisJobFails, Resume, CoreTypes
  <2>4. \A i : FindJob(i)' = FindJob(i) BY <2>1 DEF FindJob, Queued
  <2>5. Leaves(c) BY <2>3, <2>4 DEF Leaves
  <2> QED BY <2>1, <2>2, <2>5 DEF GivesFile, GivesId, AtFile, AtFilePcs, HoldsId
<1>2. CASE SpoolThisJob(c)
  <2>1. Memory(c) BY <1>2, SpoolInMemory DEF InMemory
  <2>2. /\ idMap' = idMap /\ spool' = spool /\ thread[c].pc = "queue"
    BY <1>2 DEF SpoolThisJob, At, mapVars, disk
  <2>3. PICK d \in Docs : d = thread[c].doc /\ job[d] \in JobRecords
    BY <1>0, <2>2, Known DEF ThreadOK
  <2>4. CASE SetJob(d, NewJob(d, thread[c].id, {"SPOOLING"})) /\ Resume(c, "idle")
    <3>1. job'[d] = NewJob(d, thread[c].id, {"SPOOLING"}) BY <2>4, Known DEF SetJob, CoreTypes
    <3>2. ASSUME NEW i, thread[c].id = i PROVE d \in FindJob(i)'
      BY <3>1, <3>2 DEF NewJob, FindJob, Queued
    <3>3. \A i : thread[c].id = i => FindJob(i)' # {} BY <3>2
    <3>4. GivesFile(c) /\ GivesId(c) BY <2>2, <3>3 DEF GivesFile, GivesId, AtFile, HoldsId
    <3> QED BY <1>0, <2>1, <3>4, MemoryLeaves
  <2>5. CASE "CreateJobEntry" \in Failures /\ GoTo(c, "deleteFile")
    <3>1. thread'[c].pc = "deleteFile" /\ thread'[c].id = thread[c].id
      BY <1>0, <2>5, Known DEF GoTo, CoreTypes, ThreadRecords
    <3>2. GivesFile(c) BY <2>2, <3>1 DEF GivesFile, AtFile, AtFilePcs
    <3> QED BY <1>0, <2>1, <2>5, <3>2, MemoryLeaves
  <2> QED BY <1>2, <2>3, <2>4, <2>5 DEF SpoolThisJob
<1>3. CASE CreateSpoolFile(c)
  <2>1. idMap' = idMap /\ thread[c].pc = "create" BY <1>3 DEF CreateSpoolFile, At, mapVars
  <2>2. PICK d \in Docs : d = thread[c].doc /\ job[d].state = "submitted" /\ job[d] \in JobRecords
    BY <1>0, <2>1, Known DEF ThreadOK, SubmitPcs
  <2>3. CASE /\ spool' = [spool EXCEPT ![thread[c].id] = thread[c].doc]
             /\ GoTo(c, "queue") /\ UNCHANGED job
    <3>1. Leaves(c) /\ thread'[c].pc = "queue" /\ thread'[c].id = thread[c].id
      BY <1>0, <2>3, GoesOnLeaves
    <3>2. \A i \in Ids : spool'[i] = IF i = thread[c].id THEN thread[c].doc ELSE spool[i]
      BY <2>3 DEF StoreInv, Types
    <3> QED BY <2>1, <3>1, <3>2 DEF GivesFile, GivesId, AtFile, AtFilePcs, HoldsId
  <2>4. CASE /\ "SpoolThisJob" \in Failures
             /\ SetJob(d, [job[d] EXCEPT !.state = "gone"]) /\ Resume(c, "idle")
    <3>1. /\ \A u \in Threads : u # c => thread'[u] = thread[u]
          /\ \A e \in Docs : e # d => job'[e] = job[e]
      BY <1>0, <2>4, Known DEF Resume, SetJob, CoreTypes
    <3>2. ASSUME NEW i \in Ids, FindJob(i) # {} PROVE FindJob(i)' # {}
      <4>1. PICK e \in Docs : job[e].state = "queued" /\ job[e].JobId = i
        BY <3>2 DEF FindJob, Queued
      <4>2. job'[e] = job[e] BY <2>2, <3>1, <4>1
      <4>3. e \in FindJob(i)' BY <4>1, <4>2 DEF FindJob, Queued
      <4> QED BY <4>3
    <3> QED BY <2>4, <3>1, <3>2 DEF Leaves
  <2> QED BY <1>3, <2>2, <2>3, <2>4 DEF CreateSpoolFile
<1> QED BY <1>1, <1>2, <1>3

LEMMA ClientLeaves ==
  ASSUME StartDocOnly, StoreInv, StoreInv', NEW c \in Clients, ClientStep(c)
  PROVE  /\ Leaves(c)
         /\ "SpoolThisJob" \notin Failures => GivesFile(c)
         /\ {"SpoolThisJob", "CreateJobEntry"} \cap Failures = {} => GivesId(c)
<1>0. c \in Threads BY DEF Threads
<1>1. CASE CreateSpoolFile(c) \/ SpoolThisJob(c) \/ SpoolThisJobFails(c) BY <1>1, SubmitLeaves
<1>2. ASSUME Memory(c), spool' = spool, idMap' = idMap, thread[c].pc \in {"idle", "close"}
      PROVE  Leaves(c) /\ GivesFile(c) /\ GivesId(c)
  BY <1>0, <1>2, MemoryLeaves, HasNothing DEF AtFilePcs
<1>3. CASE EndDocPrinter(c) \/ ClosePrinter(c) \/ Closed(c) \/ UnblockJobs(c)
           \/ \E d \in Docs : DeleteByUser(c, d) \/ RestartJob(c, d)
  <2>1. Memory(c)
    BY <1>3, EndDocInMemory, ClosesInMemory, UsersInMemory, DeleteInMemory DEF InMemory
  <2>2. UNCHANGED <<mapVars, disk>> /\ thread[c].pc \in {"idle", "close"}
    BY <1>3 DEF EndDocPrinter, ClosePrinter, Closed, UnblockJobs, DeleteByUser, RestartJob, At
  <2> QED BY <1>2, <2>1, <2>2 DEF mapVars, disk
<1>4. ASSUME NEW d \in Docs, StartDocPrinter(c, d) PROVE Leaves(c) /\ GivesFile(c) /\ GivesId(c)
  <2>1. Memory(c) BY <1>4, StartDocInMemory DEF InMemory
  <2>2. PICK i \in Ids :
          /\ idMap' = idMap \cup ({i} \ {0})
          /\ thread' = [thread EXCEPT ![c] = [pc |-> "create", doc |-> d, id |-> i, then |-> "idle"]]
    BY <1>4 DEF StartDocPrinter, GetNextId
  <2>3. thread'[c].pc = "create" /\ thread'[c].id = i BY <1>0, <2>2, Known DEF CoreTypes
  <2>4. thread[c].pc = "idle" /\ spool' = spool BY <1>4 DEF StartDocPrinter, At, disk
  <2>5. GivesFile(c) /\ GivesId(c)
    BY <2>2, <2>3, <2>4 DEF GivesFile, GivesId, AtFile, AtFilePcs, HoldsId
  <2> QED BY <1>0, <2>1, <2>5, MemoryLeaves
<1> QED BY <1>1, <1>3, <1>4, ClientCases

\* A crash leaves the files that are read, each with a job and its id marked.
LEMMA CrashReads ==
  ASSUME StoreInv, FileInv, Crash
  PROVE  SpoolHeld' /\ IdsHeld'
<1> DEFINE read == {i \in Ids : Readable(i)}
           id(d) == CHOOSE i \in read : shadow[i].doc = d
           Found(d) == \E i \in read : shadow[i].doc = d
<1>0. Restart /\ SpoolOnce /\ ShadowOf /\ \A i \in Ids : spool[i] \in Docs \cup {NoDoc}
  BY DEF Crash, FileInv, StoreInv, Types
<1>1. ASSUME NEW i \in read PROVE FindJob(i)' # {}
  <2>1. i \in Ids /\ spool[i] \in Docs /\ spool[i] # NoDoc /\ shadow[i].doc = spool[i]
    BY <1>0 DEF Readable, ShadowOf
  <2>2. Found(spool[i]) /\ id(spool[i]) \in read /\ shadow[id(spool[i])].doc = spool[i] BY <2>1
  <2>3. job'[spool[i]] = ReadShadowJob(id(spool[i])) BY <1>0, <2>1, <2>2 DEF Restart
  <2>4. id(spool[i]) = i
    <3> DEFINE k == id(spool[i])
    <3>1. k \in Ids /\ spool[k] = spool[i] BY <1>0, <2>2 DEF Readable, ShadowOf
    <3> HIDE DEF k
    <3>2. k = i BY <1>0, <2>1, <3>1 DEF SpoolOnce
    <3> QED BY <3>2 DEF k
  <2> HIDE DEF id
  <2>5. spool[i] \in FindJob(i)' BY <2>1, <2>3, <2>4 DEF ReadShadowJob, FindJob, Queued
  <2> QED BY <2>5
<1>2. \A i \in Ids : spool'[i] # NoDoc => i \in read BY <1>0 DEF Restart
<1>3. idMap' = read BY <1>0 DEF Restart
<1> HIDE DEF read
<1> QED BY <1>1, <1>2, <1>3 DEF SpoolHeld, IdsHeld

LEMMA LeaksStep ==
  ASSUME StartDocOnly, StoreInv, FileInv, [Next]_vars
  PROVE  /\ "SpoolThisJob" \notin Failures /\ SpoolHeld => SpoolHeld'
         /\ {"SpoolThisJob", "CreateJobEntry"} \cap Failures = {} /\ IdsHeld => IdsHeld'
<1>0. StoreInv' BY StoreStep
<1>1. CASE \E t \in Threads : FileStep(t) BY <1>0, <1>1, FileLeaves, FilesHeld, IdsAreHeld
<1>2. CASE \E c \in Clients : ClientStep(c)
  BY <1>0, <1>2, ClientLeaves, FilesHeld, IdsAreHeld DEF Threads
<1>3. CASE PortStep
  <2>1. Memory(Port) /\ UNCHANGED <<idMap, spool>>
    BY <1>3, PortInMemory DEF InMemory, disk, PortStep, AssignJob, PortBegins, PortQueries, PortSends,
                              PortStops, PortEnds, mapVars
  <2>2. thread[Port].pc \in {"idle"} \cup PortPcs
    BY <1>3 DEF PortStep, AssignJob, PortBegins, PortQueries, PortSends, PortStops, PortEnds, At, PortPcs
  <2>3. Port \in Threads BY DEF Threads
  <2>4. Leaves(Port) /\ GivesFile(Port) /\ GivesId(Port)
    BY <1>0, <2>1, <2>2, <2>3, MemoryLeaves, HasNothing DEF AtFilePcs, PortPcs
  <2> QED BY <1>0, <2>3, <2>4, FilesHeld, IdsAreHeld
<1>4. CASE Crash BY <1>4, CrashReads
<1>5. CASE UNCHANGED vars
  <2>1. /\ job' = job /\ thread' = thread /\ idMap' = idMap /\ spool' = spool
    BY <1>5 DEF vars, mapVars, disk
  <2> QED BY <2>1 DEF SpoolHeld, IdsHeld, FindJob, Queued, AtFile, HoldsId
<1> QED BY <1>1, <1>2, <1>3, <1>4, <1>5 DEF Next

LEMMA InitLeaks == Init => SpoolHeld /\ IdsHeld
BY DEF Init, SpoolHeld, IdsHeld

LEMMA HeldNoIdLeak == StoreInv /\ IdsHeld => NoIdLeak
BY DEF IdsHeld, NoIdLeak, Holders

LEMMA HeldNoFileLeak == FileInv /\ SpoolHeld => NoFileLeak
<1> SUFFICES ASSUME FileInv, SpoolHeld, \A t \in Threads : At(t, "idle"),
                    NEW i \in Ids, spool[i] # NoDoc \/ shadow[i].file # "none"
             PROVE  FindJob(i) # {}
  BY DEF NoFileLeak, Quiet
<1>1. \A t \in Threads : ~ AtFile(t, i) /\ ~ At(t, "removeShadow") BY DEF At, AtFile, AtFilePcs
<1> QED BY <1>1 DEF FileInv, SpoolHeld, ShadowHeld

\* No id is lost: the DeleteFile of DeleteJob does not fail where the job's file is its own
\* and nobody has it open, so the id is freed (job.c 1990); where documents come by
\* StartDocPrinter, which keeps the id if it fails (spooler.c 741).
THEOREM NoIdsLost ==
  ASSUME StartDocOnly, {"SpoolThisJob", "CreateJobEntry"} \cap Failures = {}
  PROVE  Spec => []NoIdLeak
BY InitStore, StoreStep, InitFiles, FilesStep, InitLeaks, LeaksStep, HeldNoIdLeak, PTL DEF Spec

\* No file is left behind: when all calls are over each file has a job in the queue, also
\* after a crash (ProcessShadowJobs) and a StartDocPrinter that fails when its file is open;
\* where documents come by StartDocPrinter and it does not fail while it creates the file.
THEOREM NoFilesLost ==
  ASSUME StartDocOnly, "SpoolThisJob" \notin Failures
  PROVE  Spec => []NoFileLeak
BY InitStore, StoreStep, InitFiles, FilesStep, InitLeaks, LeaksStep, HeldNoFileLeak, PTL DEF Spec

----------------------------------------------------------------------------
(***************************************************************************)
(* A crash loses nothing that was acknowledged: the shadow file of a job   *)
(* that waits to be printed is good, or is being written by a thread that  *)
(* is not done, and ReadShadowJob takes what it says.                      *)
(***************************************************************************)

\* Someone wants the job to go.
ToGo(d)  == Is(d, "PENDING_DELETION") \/ "DELETE" \in asked[d]
Waits(d) == ~ Is(d, "SPOOLING") /\ ~ ToGo(d)

\* A thread writes the shadow file of document d; the file is not written yet, or is.
Writes(r, d)   == r.doc = d /\ r.pc \in WritePcs
Rewrites(r, d) == r.doc = d /\ r.pc \in {"createFile", "write"}
Closes(r, d)   == r.doc = d /\ r.pc = "closeFile"

File(d)  == shadow[job[d].JobId]
Good(d)  == File(d).file = "good"
Tried(d) == d \in Emf /\ Attempting(thread[Port]) /\ thread[Port].doc = d

\* The shadow file is only deleted when the job is to go, and PENDING_DELETION
\* is only taken back from a job whose user has asked.
MarkOK(d) ==
  /\ Is(d, "SHADOW_DELETED") => ToGo(d)
  /\ \A t \in Threads : Calls(thread[t], d) => ToGo(d)
  /\ Keep /\ Is(d, "PENDING_DELETION") => "DELETE" \in asked[d]

\* A job that is being spooled has no port and no shadow file yet.
SpooledOK(d) ==
  Is(d, "SPOOLING") => ~ Despools(d) /\ \A t \in Threads : ~ Writes(thread[t], d)

\* The shadow file of a job that waits is good, or will be.
WholeOK(d) ==
  /\ Good(d) => /\ "SPOOLING" \notin File(d).Status
                /\ "PENDING_DELETION" \in File(d).Status => ToGo(d)
  /\ Waits(d) => /\ Good(d) \/ \E t \in Threads : Rewrites(thread[t], d)
                 /\ \A t \in Threads : Closes(thread[t], d) => Good(d)

\* It does not count more attempts than the job, unless both are few, or it is going
\* to be written again: a job that is kept has an attempt taken back.
TriesOK(d) ==
  /\ Keep => job[d].dwReboots <= One(Spoolers(d) = {}) + One(Tried(d))
  /\ Keep /\ Good(d) => File(d).dwReboots <= 1 \/ Spoolers(d) = {}
  /\ Good(d) /\ ~ ToGo(d) =>
       \/ File(d).dwReboots <= 1 \/ File(d).dwReboots <= job[d].dwReboots
       \/ Keep /\ Rewrites(thread[Port], d)

Survives(d) == MarkOK(d) /\ SpooledOK(d) /\ WholeOK(d) /\ TriesOK(d)
CrashInv == \A d \in Queued : Survives(d)

----------------------------------------------------------------------------
(* What a step in memory does to one document.                              *)

\* Thread t does not take back a deletion, and deletes no shadow file without one.  The
\* job is spooled to its end by a thread that writes its shadow file next.  An attempt
\* that is begun counts one at most, one that is kept is taken back.
Step(t, e) ==
  LET r == thread[t]
      q == thread'[t]
  IN /\ ToGo(e) => ToGo(e)'
     /\ Is(e, "SHADOW_DELETED")' \/ Calls(q, e) => ToGo(e)'
     /\ Keep /\ Is(e, "PENDING_DELETION")' => "DELETE" \in asked'[e]
     /\ Is(e, "SPOOLING")' => Is(e, "SPOOLING") /\ ~ Despools(e)' /\ ~ Writes(q, e)
     /\ Is(e, "SPOOLING") /\ ~ Is(e, "SPOOLING")' => Rewrites(q, e) \/ ToGo(e)'
     /\ ~ Rewrites(r, e) /\ ~ Closes(q, e)
     /\ \A c \in Clients : Spools(handle'[c], e) => Spools(handle[c], e)
     /\ Keep => job'[e].dwReboots + One(Tried(e)) <= job[e].dwReboots + One(Tried(e)')
     /\ \/ job[e].dwReboots <= job'[e].dwReboots
        \/ ToGo(e)' \/ (Keep /\ Rewrites(thread'[Port], e))

\* Such a step keeps what a crash needs.
LEMMA StepKeeps ==
  ASSUME StoreInv, StoreInv', NEW t \in Threads, NEW e \in Docs,
         job'[e].JobId = job[e].JobId, shadow'[job[e].JobId] = shadow[job[e].JobId],
         \A u \in Threads : u # t => thread'[u] = thread[u],
         Survives(e), Step(t, e)
  PROVE  Survives(e)'
<1>0. /\ MarkOK(e) /\ SpooledOK(e) /\ WholeOK(e) /\ TriesOK(e)
      /\ Port \in Threads /\ File(e)' = File(e) /\ (Good(e)' <=> Good(e))
      /\ File(e).dwReboots \in Int /\ job[e].dwReboots \in Int /\ job'[e].dwReboots \in Int
  <2>1. job[e].JobId \in Ids /\ shadow \in [Ids -> ShadowRecords]
    BY DEF StoreInv, Types, JobRecords
  <2>2. job[e].dwReboots \in Int /\ job'[e].dwReboots \in Int BY DEF StoreInv, Types, JobRecords
  <2>3. File(e).dwReboots \in Int BY <2>1 DEF File, ShadowRecords
  <2> QED BY <2>2, <2>3 DEF Survives, File, Good, Threads
<1>1. \A u \in Threads : u = t \/ thread'[u] = thread[u] OBVIOUS
<1>2. MarkOK(e)' BY <1>0, <1>1 DEF MarkOK, Step
<1>3. SpooledOK(e)' BY <1>0, <1>1 DEF SpooledOK, Step
<1>4. WholeOK(e)'
  <2>1. Good(e) => /\ "SPOOLING" \notin File(e)'.Status
                   /\ "PENDING_DELETION" \in File(e)'.Status => ToGo(e)'
    BY <1>0 DEF WholeOK, Step
  <2>2. ASSUME Waits(e)' PROVE Good(e) \/ \E u \in Threads : Rewrites(thread'[u], e)
    <3>1. CASE Waits(e) BY <1>0, <1>1, <3>1 DEF WholeOK, Step
    <3>2. CASE ~ Waits(e) BY <2>2, <3>2 DEF Waits, Step
    <3> QED BY <3>1, <3>2
  <2>3. ASSUME Waits(e)', NEW u \in Threads, Closes(thread'[u], e) PROVE Good(e)
    <3>1. Closes(thread[u], e) BY <1>1, <2>3 DEF Step
    <3>2. Writes(thread[u], e) BY <3>1 DEF Closes, Writes, WritePcs
    <3>3. Waits(e) BY <1>0, <2>3, <3>2 DEF Waits, Step, SpooledOK
    <3> QED BY <1>0, <3>1, <3>3 DEF WholeOK
  <2> QED BY <1>0, <2>1, <2>2, <2>3 DEF WholeOK
<1>5. TriesOK(e)'
  <2>1. Spoolers(e) = {} => Spoolers(e)' = {} BY DEF Spoolers, Step
  <2>2. \A b \in BOOLEAN : One(b) \in 0 .. 1 BY DEF One
  <2>3. Keep => job'[e].dwReboots <= One(Spoolers(e)' = {}) + One(Tried(e)')
    <3>1. /\ One(Spoolers(e) = {}) <= One(Spoolers(e)' = {})
          /\ One(Spoolers(e) = {}) \in Int /\ One(Spoolers(e)' = {}) \in Int
          /\ One(Tried(e)) \in Int /\ One(Tried(e)') \in Int
      BY <2>1 DEF One
    <3>2. Keep => /\ job[e].dwReboots <= One(Spoolers(e) = {}) + One(Tried(e))
                  /\ job'[e].dwReboots + One(Tried(e)) <= job[e].dwReboots + One(Tried(e)')
      BY <1>0 DEF TriesOK, Step
    <3> QED BY <1>0, <3>1, <3>2
  <2>4. Keep /\ Good(e)' => File(e)'.dwReboots <= 1 \/ Spoolers(e)' = {}
    BY <1>0, <2>1 DEF TriesOK
  <2>5. ASSUME Good(e)', ~ ToGo(e)'
        PROVE  \/ File(e)'.dwReboots <= 1 \/ File(e)'.dwReboots <= job'[e].dwReboots
               \/ Keep /\ Rewrites(thread'[Port], e)
    <3>1. ~ ToGo(e) BY <2>5 DEF Step
    <3>2. CASE Keep /\ Rewrites(thread[Port], e) BY <1>0, <1>1, <3>2 DEF Step
    <3>3. CASE File(e).dwReboots <= job[e].dwReboots BY <1>0, <2>5, <3>3 DEF Step
    <3> QED BY <1>0, <2>5, <3>1, <3>2, <3>3 DEF TriesOK
  <2> QED BY <2>3, <2>4, <2>5 DEF TriesOK
<1> QED BY <1>2, <1>3, <1>4, <1>5 DEF Survives

LEMMA CrashKeeps ==
  ASSUME StoreInv, StoreInv', CrashInv, NEW t \in Threads, shadow' = shadow,
         \A u \in Threads : u # t => thread'[u] = thread[u],
         \A e \in Docs : job'[e].state = "queued" =>
           job[e].state = "queued" /\ job'[e].JobId = job[e].JobId /\ Step(t, e)
  PROVE  CrashInv'
<1> SUFFICES ASSUME NEW e \in Docs, job'[e].state = "queued" PROVE Survives(e)'
  BY DEF CrashInv, Queued
<1>1. e \in Queued /\ job'[e].JobId = job[e].JobId /\ Step(t, e) BY DEF Queued
<1>2. Survives(e) BY <1>1 DEF CrashInv
<1> QED BY <1>1, <1>2, StepKeeps

\* A step that leaves the document alone, or nearly so.
Spared(t, e) ==
  LET r == thread[t]
      q == thread'[t]
  IN /\ Is(e, "SHADOW_DELETED")' <=> Is(e, "SHADOW_DELETED")
     /\ Is(e, "PENDING_DELETION")' <=> Is(e, "PENDING_DELETION")
     /\ Is(e, "SPOOLING")' <=> Is(e, "SPOOLING")
     /\ Is(e, "SPOOLING") /\ Despools(e)' => Despools(e)
     /\ job'[e].dwReboots = job[e].dwReboots
     /\ asked[e] \subseteq asked'[e]
     /\ Calls(q, e) => Calls(r, e)
     /\ Writes(q, e) => Writes(r, e)
     /\ ~ Rewrites(r, e) /\ ~ Closes(q, e)
     /\ Tried(e) => Tried(e)'
     /\ \A c \in Clients : Spools(handle'[c], e) => Spools(handle[c], e)

LEMMA SparedStep ==
  ASSUME StoreInv, NEW t \in Threads, NEW e \in Docs, Survives(e), Spared(t, e)
  PROVE  Step(t, e)
<1>1. job[e].dwReboots \in Int BY DEF StoreInv, Types, JobRecords
<1>2. Keep => job'[e].dwReboots + One(Tried(e)) <= job[e].dwReboots + One(Tried(e)')
  <2>1. One(Tried(e)) <= One(Tried(e)') /\ One(Tried(e)) \in Int /\ One(Tried(e)') \in Int
    BY DEF Spared, One
  <2> QED BY <1>1, <2>1 DEF Spared
<1>3. job[e].dwReboots <= job'[e].dwReboots BY <1>1 DEF Spared
<1>4. ToGo(e) => ToGo(e)' BY DEF Spared, ToGo
<1>5. Is(e, "SHADOW_DELETED")' \/ Calls(thread'[t], e) => ToGo(e)'
  BY <1>4 DEF Spared, Survives, MarkOK
<1>6. Keep /\ Is(e, "PENDING_DELETION")' => "DELETE" \in asked'[e]
  BY DEF Spared, Survives, MarkOK
<1>7. Is(e, "SPOOLING")' => Is(e, "SPOOLING") /\ ~ Despools(e)' /\ ~ Writes(thread'[t], e)
  BY DEF Spared, Survives, SpooledOK
<1> QED BY <1>2, <1>3, <1>4, <1>5, <1>6, <1>7 DEF Step, Spared

----------------------------------------------------------------------------
(* What DeleteJob and WriteShadowJob leave of a job that is j when they are *)
(* called, by a thread that goes on at then.                                *)

\* The job is k, the thread r: it works on nothing else, and where the shadow file is
\* to go, so is the job.
Remains(t, d, j, then, k, r) ==
  /\ r.pc \in CallPcs \cup WritePcs \/ Attempting(r) => r.doc = d
  /\ r.pc \in WritePcs => r.pc = "createFile" /\ then \in {"endDoc", "query", "kept"}
  /\ k.state = "queued" =>
       /\ "SPOOLING" \in k.Status <=> "SPOOLING" \in j.Status
       /\ "DESPOOLING" \in k.Status => "DESPOOLING" \in j.Status
       /\ "PENDING_DELETION" \in j.Status => "PENDING_DELETION" \in k.Status
       /\ "SHADOW_DELETED" \in k.Status => "SHADOW_DELETED" \in j.Status \/ Calls(r, d)
       /\ Calls(r, d) => "PENDING_DELETION" \in k.Status \/ Calls(thread[t], d)
       /\ then \in {"sent", "query"} => Attempting(r)

Left(t, d, j, then) ==
  /\ \A u \in Threads : u # t => thread'[u] = thread[u]
  /\ \A e \in Docs : e # d => job'[e] = job[e]
  /\ Remains(t, d, j, then, job'[d], thread'[t])

\* It is not marked for deletion unless it was.
Unmarked(d, j) ==
  job'[d].state = "queued" /\ Is(d, "PENDING_DELETION")' => "PENDING_DELETION" \in j.Status

\* Where a thread that is done with DeleteJob goes on.
Returns(t, d, then) == then = "idle" \/ (then = "sent" /\ thread[t].doc = d)

LEMMA LeftBy ==
  ASSUME StoreInv, NEW t \in Threads, NEW d \in Docs, NEW j, NEW then, NEW k, NEW r,
         SetJob(d, k), thread' = [thread EXCEPT ![t] = r], Remains(t, d, j, then, k, r)
  PROVE  Left(t, d, j, then) /\ job'[d] = k /\ thread'[t] = r
<1>1. /\ job'[d] = k /\ \A e \in Docs : e # d => job'[e] = job[e]
      /\ thread'[t] = r /\ \A u \in Threads : u # t => thread'[u] = thread[u]
  BY Written
<1> QED BY <1>1 DEF Left

\* The thread goes on with its caller,
LEMMA ResumeLeft ==
  ASSUME StoreInv, NEW t \in Threads, NEW d \in Docs, NEW j, NEW then, Returns(t, d, then),
         SetJob(d, j), Resume(t, then)
  PROVE  Left(t, d, j, then) /\ Unmarked(d, j)
<1> DEFINE r == Resumed(t, then)
<1>1. r.pc = then /\ (then = "sent" => r.doc = d)
  <2>1. thread[t] \in ThreadRecords BY Known
  <2> QED BY <2>1 DEF Resumed, Idle, ThreadRecords, Returns
<1>2. thread' = [thread EXCEPT ![t] = r] BY DEF Resume
<1> HIDE DEF r
<1>3. /\ r.pc \notin CallPcs \cup WritePcs /\ (Attempting(r) <=> then = "sent") /\ ~ Calls(r, d)
      /\ then # "query"
  BY <1>1 DEF Attempting, CallPcs, WritePcs, PortPcs, Calls, Returns
<1>4. Remains(t, d, j, then, j, r) BY <1>1, <1>3 DEF Remains
<1>5. Left(t, d, j, then) /\ job'[d] = j BY <1>2, <1>4, LeftBy
<1> QED BY <1>5 DEF Unmarked, Is

\* or asks the print processor, or the file system, first,
LEMMA CallRemains ==
  ASSUME NEW t, NEW d, NEW j, NEW then, Returns(t, d, then),
         NEW k, NEW r, r.pc \in {"cancel", "deleteShadow"}, r.doc = d, r.then = then,
         "SPOOLING" \in k.Status <=> "SPOOLING" \in j.Status,
         "DESPOOLING" \in k.Status => "DESPOOLING" \in j.Status,
         "PENDING_DELETION" \in j.Status => "PENDING_DELETION" \in k.Status,
         "PENDING_DELETION" \in k.Status \/ Calls(thread[t], d)
  PROVE  Remains(t, d, j, then, k, r)
<1>1. r.pc \notin WritePcs /\ Calls(r, d) /\ (then = "sent" => Attempting(r)) /\ then # "query"
  BY DEF Attempting, CallPcs, WritePcs, Calls, Returns
<1> QED BY <1>1 DEF Remains

\* or the job is gone.
LEMMA GoneLeft ==
  ASSUME StoreInv, NEW t \in Threads, NEW d \in Docs, NEW j, NEW then,
         NEW k, k.state = "gone", NEW pc \in {"removeShadow", "removeSpool"}, NEW id,
         SetJob(d, k),
         thread' = [thread EXCEPT ![t] = [pc |-> pc, doc |-> d, id |-> id, then |-> then]]
  PROVE  Left(t, d, j, then) /\ Unmarked(d, j)
<1> DEFINE r == [pc |-> pc, doc |-> d, id |-> id, then |-> then]
<1>1. r.pc = pc OBVIOUS
<1>2. thread' = [thread EXCEPT ![t] = r] OBVIOUS
<1> HIDE DEF r
<1>3. r.pc \notin CallPcs \cup WritePcs /\ ~ Attempting(r)
  BY <1>1 DEF Attempting, CallPcs, WritePcs, PortPcs
<1>4. Remains(t, d, j, then, k, r) BY <1>3 DEF Remains
<1>5. Left(t, d, j, then) /\ job'[d] = k
  BY ONLY StoreInv, t \in Threads, d \in Docs, SetJob(d, k), <1>2, <1>4, LeftBy
<1> QED BY <1>5 DEF Unmarked

LEMMA DeleteUnlessPrintingLeft ==
  ASSUME StoreInv, NEW t \in Threads, NEW d \in Docs, NEW j \in JobRecords, NEW then,
         Returns(t, d, then), "PENDING_DELETION" \in j.Status \/ Calls(thread[t], d),
         DeleteUnlessPrinting(t, d, j, then)
  PROVE  Left(t, d, j, then) /\ Unmarked(d, j)
<1>1. CASE j.cRef > 0
  <2> DEFINE s == j.Status \cup {"SHADOW_DELETED"}
             k == [j EXCEPT !.Status = s, !.cRef = @ + 1]
  <2>1. k.Status = s BY DEF JobRecords
  <2>2. /\ "SPOOLING" \in s <=> "SPOOLING" \in j.Status
        /\ "DESPOOLING" \in s <=> "DESPOOLING" \in j.Status
        /\ "PENDING_DELETION" \in s <=> "PENDING_DELETION" \in j.Status
    OBVIOUS
  <2> DEFINE r == [pc |-> "deleteShadow", doc |-> d, id |-> j.JobId, then |-> then]
  <2>3. /\ SetJob(d, k) /\ thread' = [thread EXCEPT ![t] = r]
        /\ r.pc = "deleteShadow" /\ r.doc = d /\ r.then = then
    BY <1>1 DEF DeleteUnlessPrinting
  <2> HIDE DEF s, k, r
  <2>4. /\ "SPOOLING" \in k.Status <=> "SPOOLING" \in j.Status
        /\ "DESPOOLING" \in k.Status => "DESPOOLING" \in j.Status
        /\ "PENDING_DELETION" \in j.Status => "PENDING_DELETION" \in k.Status
        /\ "PENDING_DELETION" \in k.Status \/ Calls(thread[t], d)
    BY <2>1, <2>2
  <2>5. Remains(t, d, j, then, k, r) BY <2>3, <2>4, CallRemains
  <2>6. SetJob(d, k) /\ thread' = [thread EXCEPT ![t] = r] BY <2>3
  <2>7. Left(t, d, j, then) /\ job'[d] = k
    BY ONLY StoreInv, t \in Threads, d \in Docs, <2>5, <2>6, LeftBy
  <2> QED BY <2>1, <2>2, <2>7 DEF Unmarked, Is
<1>2. CASE ~ (j.cRef > 0) /\ "SPOOLING" \in j.Status BY <1>2, ResumeLeft DEF DeleteUnlessPrinting
<1>3. CASE ~ (j.cRef > 0) /\ "SPOOLING" \notin j.Status
  <2> DEFINE k == [j EXCEPT !.state = "gone"]
  <2>1. k.state = "gone" BY DEF JobRecords
  <2>2. PICK pc \in {"removeShadow", "removeSpool"} :
          /\ SetJob(d, k)
          /\ thread' = [thread EXCEPT ![t] = [pc |-> pc, doc |-> d, id |-> j.JobId, then |-> then]]
    BY <1>3 DEF DeleteUnlessPrinting
  <2> HIDE DEF k
  <2> QED BY <2>1, <2>2, GoneLeft
<1> QED BY <1>1, <1>2, <1>3

LEMMA DeleteJobLeft ==
  ASSUME StoreInv, NEW t \in Threads, NEW d \in Docs, NEW j \in JobRecords, NEW then,
         Returns(t, d, then), DeleteJob(t, d, j, then)
  PROVE  Left(t, d, j, then)
<1> DEFINE s == j.Status \cup {"PENDING_DELETION"}
<1>0. /\ s \in SUBSET Flags /\ "PENDING_DELETION" \in s
      /\ "SPOOLING" \in s <=> "SPOOLING" \in j.Status
      /\ "DESPOOLING" \in s <=> "DESPOOLING" \in j.Status
      /\ "SHADOW_DELETED" \in s <=> "SHADOW_DELETED" \in j.Status
  BY DEF JobRecords, Flags
<1>1. CASE "RESTART" \in j.Status BY <1>1, ResumeLeft DEF DeleteJob
<1>2. CASE "RESTART" \notin j.Status /\ "PRINTING" \in j.Status /\ "PENDING_DELETION" \notin j.Status
  <2> DEFINE k == [j EXCEPT !.Status = s, !.cRef = @ + 1]
  <2>1. k.Status = s BY DEF JobRecords
  <2> DEFINE r == [pc |-> "cancel", doc |-> d, id |-> j.JobId, then |-> then]
  <2>2. /\ SetJob(d, k) /\ thread' = [thread EXCEPT ![t] = r]
        /\ r.pc = "cancel" /\ r.doc = d /\ r.then = then
    BY <1>2 DEF DeleteJob
  <2> HIDE DEF k, s, r
  <2>3. /\ "SPOOLING" \in k.Status <=> "SPOOLING" \in j.Status
        /\ "DESPOOLING" \in k.Status => "DESPOOLING" \in j.Status
        /\ "PENDING_DELETION" \in k.Status
    BY <1>0, <2>1
  <2>4. Remains(t, d, j, then, k, r) BY <2>2, <2>3, CallRemains
  <2>5. SetJob(d, k) /\ thread' = [thread EXCEPT ![t] = r] BY <2>2
  <2> QED BY ONLY StoreInv, t \in Threads, d \in Docs, <2>4, <2>5, LeftBy
<1>3. CASE "RESTART" \notin j.Status /\ ~ ("PRINTING" \in j.Status /\ "PENDING_DELETION" \notin j.Status)
  <2> DEFINE k == [j EXCEPT !.Status = s]
  <2>1. DeleteUnlessPrinting(t, d, k, then) BY <1>3 DEF DeleteJob
  <2> HIDE DEF s
  <2>2. k \in JobRecords /\ k.Status = s BY <1>0 DEF JobRecords
  <2> HIDE DEF k
  <2>3. Left(t, d, k, then) BY <1>0, <2>1, <2>2, DeleteUnlessPrintingLeft
  <2> QED BY <1>0, <2>2, <2>3 DEF Left, Remains
<1> QED BY <1>1, <1>2, <1>3

\* Those that call DeleteJob for a job that is marked.
LEMMA MarkedLeft ==
  ASSUME StoreInv, NEW t \in Threads, NEW d \in Docs, NEW j \in JobRecords, NEW then,
         Returns(t, d, then),
         \/ "PENDING_DELETION" \in j.Status /\ DeleteJob(t, d, j, then)
         \/ SetJob(d, j) /\ Resume(t, then)
  PROVE  Left(t, d, j, then) /\ Unmarked(d, j)
BY DeleteJobLeft, ResumeLeft DEF Unmarked

LEMMA EndDocRestLeft ==
  ASSUME StoreInv, NEW t \in Threads, NEW d \in Docs, NEW j \in JobRecords,
         EndDocPrinterRest(t, d, j)
  PROVE  Left(t, d, j, "endDoc") /\ Unmarked(d, j)
<1> DEFINE k == [j EXCEPT !.cRef = @ - 1]
<1>1. k \in JobRecords /\ k.Status = j.Status BY DEF JobRecords
<1>2. \/ "PENDING_DELETION" \in j.Status /\ DeleteJob(t, d, k, "idle")
      \/ SetJob(d, k) /\ Resume(t, "idle")
  BY DEF EndDocPrinterRest
<1> HIDE DEF k
<1>3. Left(t, d, k, "idle") /\ Unmarked(d, k) BY <1>1, <1>2, MarkedLeft DEF Returns
<1> QED BY <1>1, <1>3 DEF Left, Remains, Unmarked

LEMMA RemovePortLeft ==
  ASSUME StoreInv, NEW t \in Threads, NEW d \in Docs, NEW j \in JobRecords,
         RemoveIniPortFromIniJob(t, d, j)
  PROVE  Left(t, d, j, "kept") /\ Unmarked(d, j)
<1> DEFINE s == j.Status \ ({"DESPOOLING"} \cup IF "RESTART" \in j.Status
                                                 THEN {"PRINTED", "BLOCKED_DEVQ"} ELSE {})
           n == j.cRef - 1
           k == [j EXCEPT !.cRef = n, !.Status = s]
<1>1. /\ s \in SUBSET Flags
      /\ \A f \in {"SPOOLING", "PENDING_DELETION", "SHADOW_DELETED"} : f \in s <=> f \in j.Status
      /\ "DESPOOLING" \in s => "DESPOOLING" \in j.Status
  <2>1. j.Status \in SUBSET Flags BY DEF JobRecords
  <2>2. \A x : j.Status \ x \in SUBSET Flags BY <2>1
  <2> QED BY <2>2
<1>2. n \in Int BY DEF JobRecords
<1>3. DeleteJobCheck(t, d, k, "idle") BY DEF RemoveIniPortFromIniJob
<1> HIDE DEF s, n
<1>4. k \in JobRecords /\ k.Status = s BY <1>1, <1>2 DEF JobRecords
<1> HIDE DEF k
<1>5. Left(t, d, k, "idle") /\ Unmarked(d, k)
  BY <1>3, <1>4, MarkedLeft DEF DeleteJobCheck, Returns
<1> QED BY <1>1, <1>4, <1>5 DEF Left, Remains, Unmarked

LEMMA ShadowWrittenLeft ==
  ASSUME StoreInv, NEW t \in Threads, NEW d \in Docs, NEW j \in JobRecords,
         NEW then \in {"endDoc", "query", "kept"}, ShadowWritten(t, d, j, then)
  PROVE  Left(t, d, j, then) /\ Unmarked(d, j)
<1>1. CASE then = "endDoc" BY <1>1, EndDocRestLeft DEF ShadowWritten
<1>2. CASE then = "query"
  <2> DEFINE r == [Idle EXCEPT !.pc = "query", !.doc = d]
  <2>1. r.pc = "query" /\ r.doc = d BY DEF Idle
  <2>2. SetJob(d, j) /\ thread' = [thread EXCEPT ![t] = r] BY <1>2 DEF ShadowWritten
  <2> HIDE DEF r
  <2>3. r.pc \notin CallPcs \cup WritePcs /\ Attempting(r) /\ ~ Calls(r, d)
    BY <2>1 DEF CallPcs, WritePcs, PortPcs, Attempting, Calls
  <2>4. Remains(t, d, j, then, j, r) BY <2>1, <2>3 DEF Remains
  <2>5. Left(t, d, j, then) /\ job'[d] = j BY <2>2, <2>4, LeftBy
  <2> QED BY <2>5 DEF Unmarked, Is
<1>3. CASE then = "kept"
  <2> DEFINE k == [j EXCEPT !.cRef = @ - 1]
  <2>1. k \in JobRecords /\ k.Status = j.Status BY DEF JobRecords
  <2>2. RemoveIniPortFromIniJob(t, d, k) BY <1>3 DEF ShadowWritten
  <2> HIDE DEF k
  <2>3. Left(t, d, k, "kept") /\ Unmarked(d, k) BY <2>1, <2>2, RemovePortLeft
  <2> QED BY <1>3, <2>1, <2>3 DEF Left, Remains, Unmarked
<1> QED BY <1>1, <1>2, <1>3

LEMMA WriteShadowJobLeft ==
  ASSUME StoreInv, NEW t \in Threads, NEW d \in Docs, NEW j \in JobRecords,
         NEW then \in {"endDoc", "query", "kept"}, WriteShadowJob(t, d, j, then)
  PROVE  /\ Left(t, d, j, then) /\ Unmarked(d, j)
         /\ "SHADOW_DELETED" \in j.Status \/ Rewrites(thread'[t], d)
<1>1. CASE "SHADOW_DELETED" \in j.Status BY <1>1, ShadowWrittenLeft DEF WriteShadowJob
<1>2. CASE "SHADOW_DELETED" \notin j.Status
  <2> DEFINE r == [pc |-> "createFile", doc |-> d, id |-> j.JobId, then |-> then]
  <2>1. r.pc = "createFile" /\ r.doc = d /\ r.then = then OBVIOUS
  <2>2. SetJob(d, j) /\ thread' = [thread EXCEPT ![t] = r] BY <1>2 DEF WriteShadowJob
  <2> HIDE DEF r
  <2>3. (then = "query" => Attempting(r)) /\ ~ Calls(r, d)
    BY <2>1 DEF CallPcs, WritePcs, Attempting, Calls
  <2>4. Remains(t, d, j, then, j, r) BY <2>1, <2>3 DEF Remains
  <2>5. Left(t, d, j, then) /\ job'[d] = j /\ thread'[t] = r BY <2>2, <2>4, LeftBy
  <2> QED BY <2>1, <2>5 DEF Unmarked, Is, Rewrites
<1> QED BY <1>1, <1>2

\* Such a step spares the other documents, and does to its own what is asked of it when
\* j takes no mark back, and is not in the middle of being spooled.
LEMMA LeftSpares ==
  ASSUME StoreInv, CrashInv, NEW t \in Threads, NEW d \in Docs, NEW j, NEW then, Left(t, d, j, then),
         AtDoc(t, d), thread[t].pc \notin {"createFile", "write"},
         t = Port /\ Attempting(thread[t]) => thread[t].doc = d,
         NEW e \in Docs, e # d, job[e].state = "queued", asked[e] \subseteq asked'[e],
         \A c \in Clients : Spools(handle'[c], e) => Spools(handle[c], e)
  PROVE  job'[e] = job[e] /\ Step(t, e)
<1>1. job'[e] = job[e] /\ Survives(e) BY DEF Left, CrashInv, Queued
<1>2. /\ ~ Calls(thread'[t], e) /\ ~ Writes(thread'[t], e) /\ ~ Closes(thread'[t], e)
      /\ ~ Rewrites(thread[t], e)
  BY DEF Left, Remains, Calls, Writes, Closes, Rewrites, WritePcs
<1>3. Tried(e) => Tried(e)'
  <2>1. CASE t = Port BY <2>1 DEF Tried
  <2>2. CASE t # Port
    <3>1. thread'[Port] = thread[Port] BY <2>2 DEF Left, Threads
    <3> QED BY <3>1 DEF Tried
  <2> QED BY <2>1, <2>2
<1>4. Spared(t, e) BY <1>1, <1>2, <1>3 DEF Spared, Is, Despools
<1> QED BY <1>1, <1>4, SparedStep

LEMMA LeftStep ==
  ASSUME StoreInv, CrashInv, NEW t \in Threads, NEW d \in Docs, NEW j, NEW then, Left(t, d, j, then),
         thread[t].pc \notin {"createFile", "write"},
         job[d].state = "queued", job'[d].state = "queued",
         ToGo(d) => "PENDING_DELETION" \in j.Status \/ "DELETE" \in asked'[d],
         "SHADOW_DELETED" \in j.Status => Is(d, "SHADOW_DELETED"),
         Keep /\ Is(d, "PENDING_DELETION")' => Is(d, "PENDING_DELETION") \/ "DELETE" \in asked'[d],
         asked[d] \subseteq asked'[d],
         "SPOOLING" \in j.Status =>
           /\ Is(d, "SPOOLING") /\ then \in {"idle", "sent"}
           /\ "DESPOOLING" \in j.Status => Despools(d),
         Is(d, "SPOOLING") => \/ "SPOOLING" \in j.Status \/ "SHADOW_DELETED" \in j.Status
                              \/ Rewrites(thread'[t], d),
         \A c \in Clients : Spools(handle'[c], d) => Spools(handle[c], d),
         Keep => job'[d].dwReboots + One(Tried(d)) <= job[d].dwReboots + One(Tried(d)'),
         \/ job[d].dwReboots <= job'[d].dwReboots
         \/ "SHADOW_DELETED" \in j.Status \/ (Keep /\ Rewrites(thread'[Port], d))
  PROVE  Step(t, d)
<1>0. MarkOK(d) /\ SpooledOK(d) /\ Remains(t, d, j, then, job'[d], thread'[t])
  BY DEF CrashInv, Queued, Survives, Left
<1>1. ToGo(d) => ToGo(d)' BY <1>0 DEF Remains, ToGo, Is
<1>2. Is(d, "SHADOW_DELETED")' \/ Calls(thread'[t], d) => ToGo(d)'
  BY <1>0, <1>1 DEF Remains, MarkOK, ToGo, Is
<1>3. Keep /\ Is(d, "PENDING_DELETION")' => "DELETE" \in asked'[d] BY <1>0 DEF MarkOK
<1>4. Is(d, "SPOOLING")' => Is(d, "SPOOLING") /\ ~ Despools(d)' /\ ~ Writes(thread'[t], d)
  BY <1>0 DEF Remains, SpooledOK, Is, Despools, Writes
<1>5. "SHADOW_DELETED" \in j.Status => ToGo(d)' BY <1>0, <1>1 DEF MarkOK
<1>6. Is(d, "SPOOLING") /\ ~ Is(d, "SPOOLING")' => Rewrites(thread'[t], d) \/ ToGo(d)'
  BY <1>0, <1>5 DEF Remains, Is
<1>7. ~ Rewrites(thread[t], d) /\ ~ Closes(thread'[t], d)
  BY <1>0 DEF Remains, Rewrites, Closes, WritePcs
<1> QED BY <1>1, <1>2, <1>3, <1>4, <1>5, <1>6, <1>7 DEF Step

----------------------------------------------------------------------------
(* The steps in memory.                                                     *)

\* Handles only give up documents.
HandlesGive ==
  \A e \in Docs : \A c \in Clients : Spools(handle'[c], e) => Spools(handle[c], e)

LEMMA SameHandles == ASSUME UNCHANGED handle PROVE HandlesGive
BY DEF HandlesGive

LEMMA EndDocRestHandles ==
  ASSUME StoreInv, NEW t, NEW d, NEW j, EndDocPrinterRest(t, d, j)
  PROVE  HandlesGive
<1>1. handle \in [Clients -> HandleRecords] BY Known DEF CoreTypes
<1>2. PICK x : handle' = [handle EXCEPT ![t] = [handle[t] EXCEPT !.STARTDOC = FALSE, !.pIniJob = x]]
  <2>1. \A h \in HandleRecords : [h EXCEPT !.STARTDOC = FALSE]
                                   = [h EXCEPT !.STARTDOC = FALSE, !.pIniJob = h.pIniJob]
    BY DEF HandleRecords
  <2> QED BY <2>1 DEF EndDocPrinterRest
<1>3. \A c \in Clients : c # t => handle'[c] = handle[c] BY <1>1, <1>2
<1>4. t \in Clients => handle'[t].STARTDOC = FALSE
  <2>1. \A h \in HandleRecords : [h EXCEPT !.STARTDOC = FALSE, !.pIniJob = x].STARTDOC = FALSE
    BY DEF HandleRecords
  <2> QED BY <1>1, <1>2, <2>1
<1> QED BY <1>3, <1>4 DEF HandlesGive, Spools

LEMMA WritesHandles ==
  ASSUME StoreInv, NEW t, NEW d, NEW j, NEW then \in {"endDoc", "query", "kept"},
         ShadowWritten(t, d, j, then) \/ WriteShadowJob(t, d, j, then)
  PROVE  HandlesGive
<1>1. CASE ShadowWritten(t, d, j, then)
  <2>1. CASE then = "endDoc" BY <1>1, <2>1, EndDocRestHandles DEF ShadowWritten
  <2>2. CASE then # "endDoc" BY <1>1, <2>2, SameHandles DEF ShadowWritten, RemoveIniPortFromIniJob
  <2> QED BY <2>1, <2>2
<1>2. CASE ~ ShadowWritten(t, d, j, then) BY <1>2, SameHandles DEF WriteShadowJob
<1> QED BY <1>1, <1>2

\* A step of DeleteJob or WriteShadowJob keeps what a crash needs if it does as for its job.
LEMMA LeftSteps ==
  ASSUME StoreInv, StoreInv', CrashInv, NEW t \in Threads, NEW d \in Docs, NEW j, NEW then,
         Left(t, d, j, then), InMemory(t), HandlesGive,
         job[d].state = "queued", AtDoc(t, d), thread[t].pc \notin {"createFile", "write"},
         t = Port /\ Attempting(thread[t]) => thread[t].doc = d,
         \A e \in Docs : asked[e] \subseteq asked'[e],
         job'[d].state = "queued" => Step(t, d)
  PROVE  CrashInv'
<1>1. shadow' = shadow /\ Memory(t) BY DEF InMemory, disk
<1>2. /\ \A u \in Threads : u # t => thread'[u] = thread[u]
      /\ \A e \in Docs : job[e].state = "queued" /\ job'[e].state = "queued" =>
           job'[e].JobId = job[e].JobId
  BY <1>1, MemoryFacts
<1>3. ASSUME NEW e \in Docs, e # d, job'[e].state = "queued"
      PROVE  job[e].state = "queued" /\ Step(t, e)
  <2>1. job'[e] = job[e] BY <1>3 DEF Left
  <2> QED BY <1>3, <2>1, LeftSpares DEF HandlesGive
<1> QED BY <1>1, <1>2, <1>3, CrashKeeps

\* A step of DeleteJob or WriteShadowJob that takes no attempt from its job, where j is as
\* LeftStep asks.
LEMMA LeftCrash ==
  ASSUME StoreInv, StoreInv', CrashInv, NEW t \in Threads, NEW d \in Docs, NEW j, NEW then,
         Left(t, d, j, then), InMemory(t), HandlesGive, RebootsSame,
         job[d].state = "queued", AtDoc(t, d), thread[t].pc \notin {"createFile", "write"},
         t = Port /\ Attempting(thread[t]) => thread[t].doc = d /\ then \in {"sent", "query"},
         \A e \in Docs : asked[e] \subseteq asked'[e],
         Is(d, "PENDING_DELETION") => "PENDING_DELETION" \in j.Status,
         "SHADOW_DELETED" \in j.Status => Is(d, "SHADOW_DELETED"),
         Keep /\ job'[d].state = "queued" /\ Is(d, "PENDING_DELETION")' =>
           Is(d, "PENDING_DELETION") \/ "DELETE" \in asked'[d],
         "SPOOLING" \in j.Status =>
           /\ Is(d, "SPOOLING") /\ then \in {"idle", "sent"}
           /\ "DESPOOLING" \in j.Status => Despools(d),
         Is(d, "SPOOLING") => \/ "SPOOLING" \in j.Status \/ "SHADOW_DELETED" \in j.Status
                              \/ Rewrites(thread'[t], d)
  PROVE  CrashInv'
<1>1. ASSUME job'[d].state = "queued" PROVE Step(t, d)
  <2>1. job[d].dwReboots \in Int /\ job'[d].dwReboots = job[d].dwReboots
    BY DEF StoreInv, Types, JobRecords, RebootsSame
  <2>2. Tried(d) => Tried(d)'
    <3>1. CASE t = Port BY <1>1, <3>1 DEF Tried, Left, Remains
    <3>2. CASE t # Port
      <4>1. thread'[Port] = thread[Port] BY <3>2 DEF Left, Threads
      <4> QED BY <4>1 DEF Tried
    <3> QED BY <3>1, <3>2
  <2>3. job'[d].dwReboots + One(Tried(d)) <= job[d].dwReboots + One(Tried(d)')
    <3>1. One(Tried(d)) <= One(Tried(d)') /\ One(Tried(d)) \in Int /\ One(Tried(d)') \in Int
      BY <2>2 DEF One
    <3> QED BY <2>1, <3>1
  <2>4. ToGo(d) => "PENDING_DELETION" \in j.Status \/ "DELETE" \in asked'[d] BY DEF ToGo
  <2>5. job[d].dwReboots <= job'[d].dwReboots BY <2>1
  <2> QED BY <1>1, <2>3, <2>4, <2>5, LeftStep DEF HandlesGive
<1> QED BY <1>1, LeftSteps

\* DeleteJob after a call without SplSem,
LEMMA CallsCrash ==
  ASSUME StoreInv, StoreInv', CrashInv, NEW t \in Threads, Cancelled(t) \/ ShadowDeleted(t)
  PROVE  CrashInv'
<1>0. /\ thread[t].pc \in CallPcs /\ UNCHANGED <<handle, asked>>
      /\ thread[t].pc \notin {"createFile", "write"}
  BY DEF Cancelled, ShadowDeleted, At, CallPcs, history
<1>1. PICK d \in Docs : d = thread[t].doc BY <1>0, Known DEF ThreadOK, CallPcs
<1>2. /\ job[d] \in JobRecords /\ job[d].cRef - 1 \in Int /\ job[d].state = "queued"
      /\ thread[t].then \in {"idle", "sent"} /\ AtDoc(t, d) /\ Calls(thread[t], d)
      /\ Returns(t, d, thread[t].then)
  BY <1>0, <1>1, AtJobs, Known DEF Referring, ThreadOK, AtDoc, Calls, Returns
<1>3. InMemory(t) /\ HandlesGive BY <1>0, CallsInMemory, SameHandles
<1>4. RebootsSame BY FileReboots DEF FileStep
<1>5. t = Port /\ Attempting(thread[t]) => thread[t].doc = d /\ thread[t].then \in {"sent", "query"}
  BY <1>0, <1>1 DEF Attempting, CallPcs, WritePcs, PortPcs
<1>6. ASSUME NEW j, Left(t, d, j, thread[t].then), Unmarked(d, j),
             \A f \in {"PENDING_DELETION", "SPOOLING", "DESPOOLING"} : f \in j.Status <=> Is(d, f),
             "SHADOW_DELETED" \in j.Status => Is(d, "SHADOW_DELETED")
      PROVE  CrashInv'
  <2>1. Is(d, "PENDING_DELETION") => "PENDING_DELETION" \in j.Status BY <1>6
  <2>2. job'[d].state = "queued" /\ Is(d, "PENDING_DELETION")' => Is(d, "PENDING_DELETION")
    BY <1>6 DEF Unmarked
  <2>3. "SPOOLING" \in j.Status =>
          /\ Is(d, "SPOOLING") /\ thread[t].then \in {"idle", "sent"}
          /\ "DESPOOLING" \in j.Status => Despools(d)
    BY <1>2, <1>6 DEF Is, Despools
  <2>4. Is(d, "SPOOLING") => "SPOOLING" \in j.Status BY <1>6
  <2>5. \A e \in Docs : asked[e] \subseteq asked'[e] BY <1>0
  <2> QED BY <1>0, <1>2, <1>3, <1>4, <1>5, <1>6, <2>1, <2>2, <2>3, <2>4, <2>5, LeftCrash
<1>7. CASE Cancelled(t)
  <2> DEFINE n == job[d].cRef - 1
             j == [job[d] EXCEPT !.cRef = n]
  <2>1. DeleteUnlessPrinting(t, d, j, thread[t].then) BY <1>1, <1>7 DEF Cancelled
  <2>2. n \in Int BY <1>2
  <2> HIDE DEF n
  <2>3. j \in JobRecords /\ j.Status = job[d].Status BY <1>2, <2>2 DEF JobRecords
  <2> HIDE DEF j
  <2>4. Left(t, d, j, thread[t].then) /\ Unmarked(d, j)
    BY <1>2, <2>1, <2>3, DeleteUnlessPrintingLeft
  <2> QED BY <1>6, <2>3, <2>4 DEF Is
<1>8. CASE ShadowDeleted(t)
  <2> DEFINE n == job[d].cRef - 1
             s == IF At(t, "shadowKept") THEN job[d].Status \ {"SHADOW_DELETED"} ELSE job[d].Status
             j == [job[d] EXCEPT !.cRef = n, !.Status = s]
  <2>1. SetJob(d, j) /\ Resume(t, thread[t].then) BY <1>1, <1>8 DEF ShadowDeleted
  <2>2. /\ \A f \in {"PENDING_DELETION", "SPOOLING", "DESPOOLING"} : f \in s <=> Is(d, f)
        /\ "SHADOW_DELETED" \in s => Is(d, "SHADOW_DELETED")
    BY DEF Is
  <2> HIDE DEF n, s
  <2>3. j.Status = s BY <1>2 DEF JobRecords
  <2> HIDE DEF j
  <2>4. Left(t, d, j, thread[t].then) /\ Unmarked(d, j) BY <1>2, <2>1, ResumeLeft
  <2> QED BY <1>6, <2>2, <2>3, <2>4
<1> QED BY <1>7, <1>8

\* ... and what follows WriteShadowJob.
LEMMA ReenterCrash ==
  ASSUME StoreInv, StoreInv', CrashInv, NEW t \in Threads, Reenter(t)
  PROVE  CrashInv'
<1>0. /\ thread[t].pc \in WritePcs /\ thread[t].pc \notin {"createFile", "write"}
      /\ UNCHANGED asked
  BY DEF Reenter, WritePcs, history
<1>1. PICK d \in Docs : d = thread[t].doc BY <1>0, Known DEF ThreadOK, WritePcs
<1>2. /\ job[d] \in JobRecords /\ job[d].state = "queued" /\ AtDoc(t, d)
      /\ thread[t].then \in {"endDoc", "query", "kept"}
  BY <1>0, <1>1, AtJobs, Known DEF Referring, ThreadOK, AtDoc
<1>3. ~ Is(d, "SPOOLING")
  <2>1. SpooledOK(d) BY <1>2 DEF CrashInv, Survives, Queued
  <2> QED BY <1>0, <1>1, <2>1 DEF SpooledOK, Writes
<1> DEFINE s == IF At(t, "written") THEN job[d].Status \ {"SHADOW_DELETED"} ELSE job[d].Status
           j == [job[d] EXCEPT !.Status = s]
<1>4. ShadowWritten(t, d, j, thread[t].then) BY <1>1 DEF Reenter
<1>5. /\ s \in SUBSET Flags /\ "SPOOLING" \notin s
      /\ "PENDING_DELETION" \in s <=> Is(d, "PENDING_DELETION")
      /\ "SHADOW_DELETED" \in s => Is(d, "SHADOW_DELETED")
  BY <1>2, <1>3 DEF JobRecords, Is
<1> HIDE DEF s
<1>6. j \in JobRecords /\ j.Status = s BY <1>2, <1>5 DEF JobRecords
<1> HIDE DEF j
<1>7. InMemory(t) BY ReenterInMemory
<1>8. HandlesGive BY <1>2, <1>4, WritesHandles
<1>9. RebootsSame BY FileReboots DEF FileStep
<1>10. t = Port /\ Attempting(thread[t]) => thread[t].doc = d /\ thread[t].then \in {"sent", "query"}
  BY <1>0, <1>1 DEF Attempting, CallPcs, WritePcs, PortPcs
<1>11. Left(t, d, j, thread[t].then) /\ Unmarked(d, j) BY <1>2, <1>4, <1>6, ShadowWrittenLeft
<1>12. /\ Is(d, "PENDING_DELETION") => "PENDING_DELETION" \in j.Status
       /\ "SHADOW_DELETED" \in j.Status => Is(d, "SHADOW_DELETED")
       /\ "SPOOLING" \notin j.Status
  BY <1>5, <1>6
<1>13. job'[d].state = "queued" /\ Is(d, "PENDING_DELETION")' => Is(d, "PENDING_DELETION")
  BY <1>5, <1>6, <1>11 DEF Unmarked
<1>14. \A e \in Docs : asked[e] \subseteq asked'[e] BY <1>0
<1> QED BY <1>0, <1>2, <1>3, <1>7, <1>8, <1>9, <1>10, <1>11, <1>12, <1>13, <1>14, LeftCrash

\* EndDocPrinter writes the shadow file of a job that is spooled, unless the job is to go.
LEMMA EndDocCrash ==
  ASSUME StartDocOnly, StoreInv, StoreInv', CrashInv, NEW c \in Clients, ClientStep(c), EndDocPrinter(c)
  PROVE  CrashInv'
<1>0. c \in Threads /\ c # Port BY ConstantsAssumption DEF Threads
<1>1. /\ thread[c].pc = "idle" /\ UNCHANGED asked /\ handle[c].STARTDOC
  BY DEF EndDocPrinter, At, history
<1>2. PICK d \in Docs : d = handle[c].pIniJob /\ Spools(handle[c], d)
  BY <1>1, Known DEF HandleOK, Spools
<1>3. job[d].state = "queued" /\ job[d] \in JobRecords BY <1>0, <1>2, ReferredQueued, Known
<1> DEFINE s == job[d].Status \ {"SPOOLING"}
           j == [job[d] EXCEPT !.Status = s]
<1>4. WriteShadowJob(c, d, j, "endDoc") BY <1>2 DEF EndDocPrinter
<1>5. /\ s \in SUBSET Flags /\ "SPOOLING" \notin s
      /\ "PENDING_DELETION" \in s <=> Is(d, "PENDING_DELETION")
      /\ "SHADOW_DELETED" \in s => Is(d, "SHADOW_DELETED")
  BY <1>3 DEF JobRecords, Is
<1> HIDE DEF s
<1>6. j \in JobRecords /\ j.Status = s BY <1>3, <1>5 DEF JobRecords
<1> HIDE DEF j
<1>7. InMemory(c) /\ HandlesGive BY <1>4, EndDocInMemory, WritesHandles
<1>8. RebootsSame
  <2>1. ClientReboots BY EndDocPrinterReboots
  <2>2. \A e \in Docs : job[e].state = "submitted" => job'[e] = job[e]
    <3>1. Left(c, d, j, "endDoc") BY <1>0, <1>4, <1>6, WriteShadowJobLeft
    <3> QED BY <1>3, <3>1 DEF Left
  <2> QED BY <2>1, <2>2 DEF ClientReboots, RebootsSame
<1>9. /\ Left(c, d, j, "endDoc") /\ Unmarked(d, j)
      /\ "SHADOW_DELETED" \in j.Status \/ Rewrites(thread'[c], d)
  BY <1>0, <1>4, <1>6, WriteShadowJobLeft
<1>10. job'[d].state = "queued" /\ Is(d, "PENDING_DELETION")' => Is(d, "PENDING_DELETION")
  BY <1>5, <1>6, <1>9 DEF Unmarked
<1>11. /\ Is(d, "PENDING_DELETION") => "PENDING_DELETION" \in j.Status
       /\ "SHADOW_DELETED" \in j.Status => Is(d, "SHADOW_DELETED")
       /\ "SPOOLING" \notin j.Status
  BY <1>5, <1>6
<1>12. \A e \in Docs : asked[e] \subseteq asked'[e] BY <1>1
<1>13. AtDoc(c, d) BY <1>1 DEF AtDoc, CallPcs, WritePcs
<1> QED BY <1>0, <1>1, <1>3, <1>7, <1>8, <1>9, <1>10, <1>11, <1>12, <1>13, LeftCrash

\* A user who deletes a job is recorded.
LEMMA DeleteCrash ==
  ASSUME StartDocOnly, StoreInv, StoreInv', CrashInv, NEW c \in Clients, ClientStep(c),
         NEW d \in Docs, DeleteByUser(c, d)
  PROVE  CrashInv'
<1>0. c \in Threads /\ c # Port BY ConstantsAssumption DEF Threads
<1>1. /\ thread[c].pc = "idle" /\ UNCHANGED handle /\ job[d].state = "queued" /\ job[d] \in JobRecords
      /\ \A e \in Docs : asked[e] \in SUBSET {"DELETE", "RESTART"}
  BY Known DEF DeleteByUser, At, Queued, StoreInv, Types
<1>2. (\A e \in Docs : asked[e] \subseteq asked'[e]) /\ "DELETE" \in asked'[d]
  <2>1. asked \in [Docs -> SUBSET {"DELETE", "RESTART"}] BY DEF StoreInv, Types
  <2>2. asked' = [asked EXCEPT ![d] = asked[d] \cup {"DELETE"}] BY DEF DeleteByUser
  <2> QED BY <2>1, <2>2
<1> DEFINE s == job[d].Status \ {"RESTART"}
           j == [job[d] EXCEPT !.Status = s]
<1>4. DeleteJob(c, d, j, "idle") BY DEF DeleteByUser
<1>5. /\ s \in SUBSET Flags
      /\ \A f \in {"SPOOLING", "DESPOOLING", "PENDING_DELETION", "SHADOW_DELETED"} : f \in s <=> Is(d, f)
  BY <1>1 DEF JobRecords, Is
<1> HIDE DEF s
<1>6. j \in JobRecords /\ j.Status = s BY <1>1, <1>5 DEF JobRecords
<1> HIDE DEF j
<1>7. InMemory(c) /\ HandlesGive BY <1>1, DeleteInMemory, SameHandles
<1>8. Left(c, d, j, "idle") BY <1>0, <1>4, <1>6, DeleteJobLeft DEF Returns
<1>9. RebootsSame
  <2>1. ClientReboots BY UserReboots
  <2>2. \A e \in Docs : job[e].state = "submitted" => job'[e] = job[e]
    BY <1>1, <1>8 DEF Left
  <2> QED BY <2>1, <2>2 DEF ClientReboots, RebootsSame
<1>10. /\ Is(d, "PENDING_DELETION") => "PENDING_DELETION" \in j.Status
       /\ "SHADOW_DELETED" \in j.Status => Is(d, "SHADOW_DELETED")
       /\ Is(d, "SPOOLING") <=> "SPOOLING" \in j.Status
       /\ "DESPOOLING" \in j.Status => Despools(d)
  BY <1>5, <1>6 DEF Is, Despools
<1>11. AtDoc(c, d) BY <1>1 DEF AtDoc, CallPcs, WritePcs
<1> QED BY <1>0, <1>1, <1>2, <1>7, <1>8, <1>9, <1>10, <1>11, LeftCrash

\* A step that changes no shadow file and nothing that a crash may lose.
SameMarks(e) ==
  /\ \A f \in {"SPOOLING", "PENDING_DELETION", "SHADOW_DELETED"} : Is(e, f)' <=> Is(e, f)
  /\ Is(e, "SPOOLING") /\ Despools(e)' => Despools(e)
SameQueue ==
  \A e \in Docs : job'[e].state = "queued" =>
    /\ job[e].state = "queued" /\ job'[e].JobId = job[e].JobId
    /\ job'[e].dwReboots = job[e].dwReboots /\ SameMarks(e)

\* Where its thread goes.
Moderate(t) ==
  LET r == thread[t]
      q == thread'[t]
  IN /\ \A u \in Threads : u # t => thread'[u] = thread[u]
     /\ q.pc \in CallPcs => r.pc \in CallPcs /\ q.doc = r.doc
     /\ q.pc \in WritePcs => r.pc \in WritePcs /\ q.doc = r.doc
     /\ t = Port /\ Attempting(r) => Attempting(q) /\ q.doc = r.doc

LEMMA ModerateSpares ==
  ASSUME StoreInv, CrashInv, NEW t \in Threads, Moderate(t), HandlesGive, SameQueue,
         \A e \in Docs : asked[e] \subseteq asked'[e],
         NEW e \in Docs, job'[e].state = "queued",
         ~ Rewrites(thread[t], e), ~ Closes(thread'[t], e)
  PROVE  job[e].state = "queued" /\ job'[e].JobId = job[e].JobId /\ Step(t, e)
<1>1. /\ job[e].state = "queued" /\ job'[e].JobId = job[e].JobId
      /\ job'[e].dwReboots = job[e].dwReboots /\ SameMarks(e)
  BY DEF SameQueue
<1>2. Tried(e) => Tried(e)'
  <2>1. CASE t = Port BY <2>1 DEF Tried, Moderate
  <2>2. CASE t # Port
    <3>1. thread'[Port] = thread[Port] BY <2>2 DEF Moderate, Threads
    <3> QED BY <3>1 DEF Tried
  <2> QED BY <2>1, <2>2
<1>3. /\ Calls(thread'[t], e) => Calls(thread[t], e)
      /\ Writes(thread'[t], e) => Writes(thread[t], e)
  BY DEF Moderate, Calls, Writes
<1>4. Spared(t, e) BY <1>1, <1>2, <1>3 DEF Spared, SameMarks, HandlesGive
<1>5. Survives(e) BY <1>1 DEF CrashInv, Queued
<1> QED BY <1>1, <1>4, <1>5, SparedStep

LEMMA ModerateCrash ==
  ASSUME StoreInv, StoreInv', CrashInv, NEW t \in Threads, Moderate(t), HandlesGive, SameQueue,
         shadow' = shadow, \A e \in Docs : asked[e] \subseteq asked'[e],
         thread[t].pc \notin {"createFile", "write"}, thread'[t].pc # "closeFile"
  PROVE  CrashInv'
<1>1. \A e : ~ Rewrites(thread[t], e) /\ ~ Closes(thread'[t], e) BY DEF Rewrites, Closes
<1>2. \A u \in Threads : u # t => thread'[u] = thread[u] BY DEF Moderate
<1> QED BY <1>1, <1>2, ModerateSpares, CrashKeeps

\* The queue as it was.
LEMMA QueueSame == ASSUME UNCHANGED job PROVE SameQueue
BY DEF SameQueue, SameMarks, Is, Despools

\* One that goes on within a call.
LEMMA GoToModerate ==
  ASSUME StoreInv, NEW t \in Threads, NEW pc, GoTo(t, pc),
         pc \in CallPcs => thread[t].pc \in CallPcs, pc \in WritePcs => thread[t].pc \in WritePcs,
         t = Port /\ Attempting(thread[t]) =>
           \/ thread[t].pc \in CallPcs /\ pc \in CallPcs
           \/ thread[t].pc \in WritePcs /\ pc \in WritePcs
           \/ pc \in PortPcs \ {"assigned"}
  PROVE  /\ Moderate(t) /\ thread'[t].pc = pc
         /\ thread'[t].doc = thread[t].doc /\ thread'[t].then = thread[t].then
<1> DEFINE r == [thread[t] EXCEPT !.pc = pc]
<1>1. r.pc = pc /\ r.doc = thread[t].doc /\ r.then = thread[t].then BY Known DEF ThreadRecords
<1>2. thread' = [thread EXCEPT ![t] = r] BY DEF GoTo
<1> HIDE DEF r
<1>3. thread'[t] = r /\ \A u \in Threads : u # t => thread'[u] = thread[u]
  BY <1>2, Known DEF CoreTypes
<1>4. t = Port /\ Attempting(thread[t]) => Attempting(r)
  <2>1. SUFFICES ASSUME t = Port, Attempting(thread[t]) PROVE Attempting(r) OBVIOUS
  <2>2. CASE thread[t].pc \in CallPcs /\ pc \in CallPcs
    BY <1>1, <2>1, <2>2 DEF Attempting, CallPcs, WritePcs, PortPcs
  <2>3. CASE thread[t].pc \in WritePcs /\ pc \in WritePcs
    BY <1>1, <2>1, <2>3 DEF Attempting, CallPcs, WritePcs, PortPcs
  <2>4. CASE pc \in PortPcs \ {"assigned"} BY <1>1, <2>4 DEF Attempting
  <2> QED BY <2>1, <2>2, <2>3, <2>4
<1> QED BY <1>1, <1>3, <1>4 DEF Moderate

LEMMA RestsModerate ==
  ASSUME StoreInv, NEW t \in Threads, NEW pc \in {"idle", "close"}, Resume(t, pc),
         t = Port => ~ Attempting(thread[t])
  PROVE  Moderate(t) /\ thread'[t].pc = pc
<1> DEFINE r == [Idle EXCEPT !.pc = pc]
<1>1. r.pc = pc BY DEF Idle
<1>2. thread' = [thread EXCEPT ![t] = r] BY DEF Resume, Resumed
<1> HIDE DEF r
<1>3. thread'[t] = r /\ \A u \in Threads : u # t => thread'[u] = thread[u]
  BY <1>2, Known DEF CoreTypes
<1> QED BY <1>1, <1>3 DEF Moderate, CallPcs, WritePcs

\* The steps of DeleteJob and WriteShadowJob that change no shadow file.
LEMMA FileMoves ==
  ASSUME StoreInv, NEW t \in Threads, RemoveSpool(t) \/ FreeId(t) \/ CloseShadowFile(t)
  PROVE  /\ Moderate(t) /\ thread'[t].pc # "closeFile"
         /\ At(t, "closeFile") => thread'[t].pc = "written" /\ thread'[t].doc = thread[t].doc
<1>1. /\ thread[t].pc \in {"removeSpool", "freeId", "closeFile"}
      /\ thread[t].pc \in RemovePcs => thread[t].then = "idle"
  BY Known DEF RemoveSpool, FreeId, CloseShadowFile, At, ThreadOK
<1>2. CASE thread[t].pc = "closeFile"
  <2>1. GoTo(t, "written") BY <1>2 DEF RemoveSpool, FreeId, CloseShadowFile, At
  <2>2. thread[t].pc \in WritePcs /\ "written" \notin CallPcs BY <1>2 DEF WritePcs, CallPcs
  <2> QED BY <2>1, <2>2, GoToModerate DEF WritePcs
<1>3. CASE thread[t].pc # "closeFile"
  <2>1. thread[t].then = "idle" /\ ~ Attempting(thread[t])
    BY <1>1, <1>3 DEF RemovePcs, Attempting, CallPcs, WritePcs, PortPcs
  <2>2. GoTo(t, "freeId") \/ Resume(t, "idle")
    BY <1>3, <2>1 DEF RemoveSpool, FreeId, CloseShadowFile, At
  <2>3. CASE GoTo(t, "freeId") BY <1>3, <2>1, <2>3, GoToModerate DEF CallPcs, WritePcs, At
  <2>4. CASE Resume(t, "idle") BY <1>3, <2>1, <2>4, RestsModerate DEF At
  <2> QED BY <2>2, <2>3, <2>4
<1> QED BY <1>2, <1>3

LEMMA FileHandles ==
  ASSUME StoreInv, NEW t \in Threads, RemoveSpool(t) \/ FreeId(t) \/ CloseShadowFile(t)
  PROVE  HandlesGive
<1>1. CASE UNCHANGED handle BY <1>1, SameHandles
<1>2. CASE FreeId(t)
  <2>1. thread[t].id \in Ids BY Known DEF ThreadRecords
  <2>2. ASSUME NEW c \in Clients PROVE handle'[c] = handle[c]
    <3>1. handle[c].mapped[thread[t].id] # "plain" BY <2>1, Known DEF HandleOK
    <3> QED BY <1>2, <3>1 DEF FreeId
  <2> QED BY <2>2 DEF HandlesGive
<1> QED BY <1>1, <1>2 DEF RemoveSpool, CloseShadowFile

LEMMA FileCrash ==
  ASSUME StoreInv, StoreInv', CrashInv, NEW t \in Threads,
         RemoveSpool(t) \/ FreeId(t) \/ CloseShadowFile(t)
  PROVE  CrashInv'
<1>0. /\ UNCHANGED <<job, shadow, asked>> /\ thread[t].pc \in {"removeSpool", "freeId", "closeFile"}
      /\ thread[t].pc \in RemovePcs => thread[t].then = "idle"
  BY Known DEF RemoveSpool, FreeId, CloseShadowFile, disk, history, At, ThreadOK
<1>1. HandlesGive BY FileHandles
<1>2. Moderate(t) /\ thread'[t].pc # "closeFile" BY FileMoves
<1>3. SameQueue /\ \A e \in Docs : asked[e] \subseteq asked'[e] BY <1>0, QueueSame
<1>4. thread[t].pc \notin {"createFile", "write"} BY <1>0
<1> QED BY <1>0, <1>1, <1>2, <1>3, <1>4, ModerateCrash

\* A step at the shadow file of thread t, which is that of d, if of any job.
LEMMA ShadowCrash ==
  ASSUME StoreInv, StoreInv', CrashInv, NEW t \in Threads, Moderate(t),
         UNCHANGED <<job, handle, asked>>, NEW D \in SUBSET Docs,
         \A e \in Docs \ D : ~ Rewrites(thread[t], e) /\ ~ Closes(thread'[t], e),
         \A e \in Docs \ D : job[e].state = "queued" =>
           shadow'[job[e].JobId] = shadow[job[e].JobId],
         \A e \in D : job[e].state = "queued" => Survives(e)'
  PROVE  CrashInv'
<1> SUFFICES ASSUME NEW e \in Docs, job'[e].state = "queued" PROVE Survives(e)'
  BY DEF CrashInv, Queued
<1>0. job[e].state = "queued" OBVIOUS
<1>1. CASE e \in D BY <1>0, <1>1
<1>2. CASE e \notin D
  <2>1. ~ Rewrites(thread[t], e) /\ ~ Closes(thread'[t], e)
        /\ shadow'[job[e].JobId] = shadow[job[e].JobId]
    BY <1>0, <1>2
  <2>2. SameQueue /\ HandlesGive /\ \A x \in Docs : asked[x] \subseteq asked'[x]
    BY QueueSame, SameHandles
  <2>3. job'[e].JobId = job[e].JobId /\ Step(t, e) BY <2>1, <2>2, ModerateSpares
  <2>4. \A u \in Threads : u # t => thread'[u] = thread[u] BY DEF Moderate
  <2>5. Survives(e) BY <1>0 DEF CrashInv, Queued
  <2> QED BY <2>1, <2>3, <2>4, <2>5, StepKeeps
<1> QED BY <1>1, <1>2

\* The shadow file of a job that is gone,
LEMMA RemoveShadowCrash ==
  ASSUME StoreInv, StoreInv', CrashInv, NEW t \in Threads, RemoveShadow(t)
  PROVE  CrashInv'
<1>0. /\ thread[t].pc = "removeShadow" /\ GoTo(t, "removeSpool") /\ UNCHANGED <<job, handle, asked>>
      /\ thread[t].id \in Ids
  BY Known DEF RemoveShadow, At, history, ThreadRecords
<1>1. Moderate(t) /\ thread'[t].pc = "removeSpool"
  BY <1>0, GoToModerate DEF CallPcs, WritePcs, PortPcs, Attempting
<1>2. \A e : ~ Rewrites(thread[t], e) /\ ~ Closes(thread'[t], e)
  BY <1>0, <1>1 DEF Rewrites, Closes
<1>3. ASSUME NEW e \in Docs, job[e].state = "queued"
      PROVE  shadow'[job[e].JobId] = shadow[job[e].JobId]
  <2>1. HoldsId(t, thread[t].id) BY <1>0 DEF HoldsId
  <2>2. FindJob(thread[t].id) = {} BY <1>0, <2>1, Known DEF IdsOK
  <2>3. job[e].JobId # thread[t].id BY <1>3, <2>2 DEF FindJob, Queued
  <2>4. job[e].JobId \in Ids /\ shadow \in [Ids -> ShadowRecords]
    BY DEF StoreInv, Types, JobRecords
  <2>5. shadow' = shadow \/ shadow' = [shadow EXCEPT ![thread[t].id] = NoShadow]
    BY DEF RemoveShadow
  <2> QED BY <2>3, <2>4, <2>5
<1>4. {} \in SUBSET Docs /\ Docs \ {} = Docs OBVIOUS
<1> QED BY <1>0, <1>1, <1>2, <1>3, <1>4, ShadowCrash

\* and of one that is in the queue.
LEMMA AtShadow ==
  ASSUME StoreInv, OwnIds, NEW t \in Threads, thread[t].pc \in CallPcs \cup WritePcs,
         NEW d, d = thread[t].doc
  PROVE  /\ d \in Docs /\ job[d].state = "queued" /\ thread[t].id = job[d].JobId
         /\ job[d] \in JobRecords /\ job[d].JobId \in Ids /\ job[d].dwReboots \in Int
         /\ shadow \in [Ids -> ShadowRecords] /\ \A e \in Docs : job[e].JobId \in Ids
         /\ \A e \in Docs : e # d /\ job[e].state = "queued" => job[e].JobId # job[d].JobId
         /\ \A u \in Threads : thread[u].pc \in {"write", "closeFile"} /\ thread[u].id = thread[t].id =>
              thread[u].doc = d
<1>1. d \in Docs /\ job[d].state = "queued" /\ thread[t].id = job[d].JobId BY AtJobs DEF Referring, OwnIds
<1>2. \A e \in Docs : e # d /\ job[e].state = "queued" => job[e].JobId # job[d].JobId
  BY <1>1, Known DEF IdsOK, Queued
<1>3. \A e \in Docs : job[e] \in JobRecords /\ job[e].JobId \in Ids /\ job[e].dwReboots \in Int
  BY DEF StoreInv, Types, JobRecords
<1>4. shadow \in [Ids -> ShadowRecords] BY DEF StoreInv, Types
<1>5. ASSUME NEW u \in Threads, thread[u].pc \in {"write", "closeFile"}, thread[u].id = thread[t].id
      PROVE  thread[u].doc = d
  <2>1. thread[u].pc \in WritePcs BY <1>5 DEF WritePcs
  <2>2. thread[u].doc \in Docs /\ job[thread[u].doc].state = "queued" /\ thread[u].id = job[thread[u].doc].JobId
    BY <2>1, AtJobs DEF Referring, OwnIds
  <2> QED BY <1>1, <1>2, <1>5, <2>2
<1> QED BY <1>1, <1>2, <1>3, <1>4, <1>5

LEMMA OwnShadowCrash ==
  ASSUME StoreInv, StoreInv', CrashInv, OwnIds, NEW t \in Threads, Moderate(t),
         thread[t].pc \in CallPcs \cup WritePcs, UNCHANGED <<job, handle, asked>>,
         thread'[t].doc = thread[t].doc, NEW d, d = thread[t].doc,
         shadow' = shadow \/ \E x : shadow' = [shadow EXCEPT ![thread[t].id] = x],
         Survives(d)'
  PROVE  CrashInv'
<1>1. d \in Docs /\ \A e \in Docs : e # d /\ job[e].state = "queued" =>
                      shadow'[job[e].JobId] = shadow[job[e].JobId]
  BY AtShadow
<1> DEFINE E == {d}
<1>2. \A e \in Docs \ E : ~ Rewrites(thread[t], e) /\ ~ Closes(thread'[t], e)
  BY DEF Rewrites, Closes
<1>3. E \in SUBSET Docs /\ (\A e \in Docs \ E : e # d) BY <1>1
<1> HIDE DEF Survives
<1>4. \A e \in E : job[e].state = "queued" => Survives(e)' OBVIOUS
<1> HIDE DEF E
<1>5. \A e \in Docs \ E : job[e].state = "queued" => shadow'[job[e].JobId] = shadow[job[e].JobId]
  BY <1>1, <1>3
<1> QED BY ONLY StoreInv, StoreInv', CrashInv, t \in Threads, Moderate(t),
              UNCHANGED <<job, handle, asked>>, <1>2, <1>3, <1>4, <1>5, ShadowCrash

\* What such a step keeps by itself.
LEMMA SameOwn ==
  ASSUME StoreInv, CrashInv, OwnIds, NEW t \in Threads, Moderate(t),
         thread[t].pc \in CallPcs \cup WritePcs, UNCHANGED <<job, handle, asked>>,
         thread'[t].doc = thread[t].doc, NEW d, d = thread[t].doc
  PROVE  /\ MarkOK(d)' /\ SpooledOK(d)' /\ MarkOK(d) /\ SpooledOK(d) /\ WholeOK(d) /\ TriesOK(d)
         /\ (ToGo(d)' <=> ToGo(d)) /\ (Waits(d)' <=> Waits(d))
         /\ Spoolers(d)' = Spoolers(d) /\ (Tried(d) => Tried(d)')
         /\ job'[d] = job[d] /\ (File(d)' = File(d) \/ shadow' # shadow)
<1>0. MarkOK(d) /\ SpooledOK(d) /\ WholeOK(d) /\ TriesOK(d) /\ d \in Docs
  BY AtShadow DEF CrashInv, Queued, Survives
<1>1. \A u \in Threads : u = t \/ thread'[u] = thread[u] BY DEF Moderate
<1>2. (ToGo(d)' <=> ToGo(d)) /\ (Waits(d)' <=> Waits(d)) BY DEF ToGo, Waits, Is
<1>3. MarkOK(d)'
  <2>1. \A u \in Threads : Calls(thread'[u], d) => Calls(thread[u], d)
    BY <1>1 DEF Calls, Moderate
  <2> QED BY <1>0, <1>2, <2>1 DEF MarkOK, Is
<1>4. SpooledOK(d)'
  <2>1. \A u \in Threads : Writes(thread'[u], d) => Writes(thread[u], d)
    BY <1>1 DEF Writes, Moderate
  <2> QED BY <1>0, <2>1 DEF SpooledOK, Is, Despools
<1>5. Tried(d) => Tried(d)'
  <2>1. CASE t = Port BY <2>1 DEF Tried, Moderate
  <2>2. CASE t # Port
    <3>1. thread'[Port] = thread[Port] BY <1>1, <2>2 DEF Threads
    <3> QED BY <3>1 DEF Tried
  <2> QED BY <2>1, <2>2
<1> QED BY <1>0, <1>2, <1>3, <1>4, <1>5 DEF Spoolers, File

\* The attempts of the job, where it goes on as it was.
LEMMA SameTries ==
  ASSUME StoreInv, NEW d \in Docs, TriesOK(d), Spoolers(d)' = Spoolers(d), Tried(d) => Tried(d)',
         job'[d] = job[d]
  PROVE  Keep => job'[d].dwReboots <= One(Spoolers(d)' = {}) + One(Tried(d)')
<1>1. /\ One(Tried(d)) <= One(Tried(d)') /\ One(Tried(d)) \in Int /\ One(Tried(d)') \in Int
      /\ One(Spoolers(d) = {}) \in Int /\ job[d].dwReboots \in Int
  BY DEF One, StoreInv, Types, JobRecords
<1> HIDE DEF One
<1> QED BY <1>1 DEF TriesOK

LEMMA DeleteShadowCrash ==
  ASSUME StoreInv, StoreInv', CrashInv, OwnIds, NEW t \in Threads, DeleteShadow(t)
  PROVE  CrashInv'
<1>0. thread[t].pc = "deleteShadow" /\ UNCHANGED <<job, handle, asked>> /\ thread[t].pc \in CallPcs
  BY DEF DeleteShadow, At, history, CallPcs
<1>1. PICK pc \in {"shadowKept", "shadowDeleted"} : GoTo(t, pc) BY DEF DeleteShadow
<1>2. /\ Moderate(t) /\ thread'[t].pc = pc
      /\ thread'[t].doc = thread[t].doc /\ thread'[t].then = thread[t].then
  <2>1. pc \in CallPcs /\ pc \notin WritePcs BY DEF CallPcs, WritePcs
  <2> QED BY <1>0, <1>1, <2>1, GoToModerate
<1>3. CASE shadow' = shadow
  <2>1. SameQueue /\ HandlesGive /\ \A x \in Docs : asked[x] \subseteq asked'[x]
    BY <1>0, QueueSame, SameHandles
  <2>2. thread[t].pc \notin {"createFile", "write"} /\ thread'[t].pc # "closeFile" BY <1>0, <1>2
  <2> QED BY <1>2, <1>3, <2>1, <2>2, ModerateCrash
<1>4. CASE shadow' # shadow
  <2>1. shadow' = [shadow EXCEPT ![thread[t].id] = NoShadow] BY <1>4 DEF DeleteShadow
  <2>2. PICK d : d = thread[t].doc OBVIOUS
  <2>3. d \in Docs /\ File(d)' = NoShadow
    <3>1. d \in Docs /\ shadow'[job[d].JobId] = NoShadow BY <1>0, <2>1, <2>2, AtShadow
    <3> QED BY <1>0, <3>1 DEF File
  <2>4. ~ Good(d)' BY <2>3 DEF Good, NoShadow
  <2>5. /\ MarkOK(d)' /\ SpooledOK(d)' /\ MarkOK(d) /\ TriesOK(d)
        /\ (Waits(d)' <=> Waits(d)) /\ Spoolers(d)' = Spoolers(d)
        /\ (Tried(d) => Tried(d)') /\ job'[d] = job[d]
    BY <1>0, <1>2, <2>2, SameOwn
  <2>6. ~ Waits(d)' BY <1>0, <2>2, <2>5 DEF MarkOK, Waits, Calls
  <2>7. WholeOK(d)' BY <2>4, <2>6 DEF WholeOK
  <2>8. TriesOK(d)' BY <2>3, <2>4, <2>5, SameTries DEF TriesOK
  <2>9. Survives(d)' BY <2>5, <2>7, <2>8 DEF Survives
  <2> QED BY <1>0, <1>2, <2>1, <2>2, <2>9, OwnShadowCrash
<1> QED BY <1>3, <1>4

\* The file is empty until it is written, by the thread that has emptied it; one that
\* does not get it leaves that to the thread that has it.
LEMMA CreateShadowCrash ==
  ASSUME StoreInv, StoreInv', CrashInv, OwnIds, NEW t \in Threads, CreateShadowFile(t)
  PROVE  CrashInv'
<1>0. thread[t].pc = "createFile" /\ UNCHANGED <<job, handle, asked>> /\ thread[t].pc \in WritePcs
  BY DEF CreateShadowFile, At, history, WritePcs
<1>1. PICK pc \in {"write", "unwritten"} : GoTo(t, pc) BY DEF CreateShadowFile
<1>2. /\ Moderate(t) /\ thread'[t].pc = pc
      /\ thread'[t].doc = thread[t].doc /\ thread'[t].then = thread[t].then
  <2>1. pc \in WritePcs /\ pc \notin CallPcs BY DEF CallPcs, WritePcs
  <2> QED BY <1>0, <1>1, <2>1, GoToModerate
<1>3. PICK d : d = thread[t].doc OBVIOUS
<1>4. /\ d \in Docs /\ thread[t].id = job[d].JobId
      /\ \A u \in Threads : thread[u].pc \in {"write", "closeFile"} /\ thread[u].id = thread[t].id =>
           thread[u].doc = d
  BY <1>0, <1>3, AtShadow
<1>5. /\ MarkOK(d)' /\ SpooledOK(d)' /\ WholeOK(d) /\ TriesOK(d)
      /\ (ToGo(d)' <=> ToGo(d)) /\ (Waits(d)' <=> Waits(d)) /\ Spoolers(d)' = Spoolers(d)
      /\ (Tried(d) => Tried(d)') /\ job'[d] = job[d]
  BY <1>0, <1>2, <1>3, SameOwn
<1>6. \A u \in Threads : u = t \/ thread'[u] = thread[u] BY <1>2 DEF Moderate
<1>7. Keep => job'[d].dwReboots <= One(Spoolers(d)' = {}) + One(Tried(d)')
  BY <1>4, <1>5, SameTries
<1>8. CASE ~ ShadowInUse(thread[t].id)
  <2>1. pc = "write" /\ shadow' = [shadow EXCEPT ![thread[t].id] = Torn]
    <3>1. GoTo(t, "write") /\ shadow' = [shadow EXCEPT ![thread[t].id] = Torn]
      BY <1>8 DEF CreateShadowFile
    <3>2. thread'[t].pc = "write" BY <3>1, Known DEF GoTo, CoreTypes, ThreadRecords
    <3> QED BY <1>2, <3>1, <3>2
  <2>2. File(d)' = Torn
    <3>1. shadow'[job[d].JobId] = Torn BY <1>0, <1>3, <2>1, AtShadow
    <3> QED BY <1>0, <3>1 DEF File
  <2>3. ~ Good(d)' BY <2>2 DEF Good, Torn, NoShadow
  <2>4. Rewrites(thread'[t], d) BY <1>2, <1>3, <2>1 DEF Rewrites
  <2>5. ASSUME NEW u \in Threads, Closes(thread'[u], d) PROVE FALSE
    <3>1. u # t BY <1>2, <2>1, <2>5 DEF Closes
    <3>2. thread[u].pc = "closeFile" /\ thread[u].doc = d BY <1>6, <2>5, <3>1 DEF Closes
    <3>3. thread[u].pc \in WritePcs BY <3>2 DEF WritePcs
    <3>4. thread[u].id = thread[t].id BY <1>4, <3>2, <3>3 DEF OwnIds
    <3> QED BY <1>8, <3>2, <3>4 DEF ShadowInUse
  <2>6. WholeOK(d)' BY <2>3, <2>4, <2>5 DEF WholeOK
  <2>7. TriesOK(d)' BY <1>7, <2>3 DEF TriesOK
  <2>8. Survives(d)' BY <1>5, <2>6, <2>7 DEF Survives
  <2> QED BY <1>0, <1>2, <1>3, <2>1, <2>8, OwnShadowCrash
<1>9. CASE ShadowInUse(thread[t].id)
  <2>1. pc = "unwritten" /\ shadow' = shadow
    <3>1. GoTo(t, "unwritten") /\ shadow' = shadow BY <1>9 DEF CreateShadowFile
    <3>2. thread'[t].pc = "unwritten" BY <3>1, Known DEF GoTo, CoreTypes, ThreadRecords
    <3> QED BY <1>2, <3>1, <3>2
  <2>2. PICK u \in Threads : thread[u].pc \in {"write", "closeFile"} /\ thread[u].id = thread[t].id
    BY <1>9 DEF ShadowInUse
  <2>3. u # t /\ thread[u].doc = d /\ thread'[u] = thread[u] BY <1>0, <1>4, <1>6, <2>2
  <2>4. Rewrites(thread'[u], d) \/ Closes(thread[u], d) BY <2>2, <2>3 DEF Rewrites, Closes
  <2>5. File(d)' = File(d) /\ (Good(d)' <=> Good(d)) BY <1>0, <2>1 DEF File, Good
  <2>6. WholeOK(d)'
    <3>1. \A x \in Threads : Closes(thread'[x], d) => Closes(thread[x], d)
      BY <1>2, <1>6, <2>1 DEF Closes
    <3> QED BY <1>5, <2>4, <2>5, <3>1 DEF WholeOK
\* The port is not in each other's way.
  <2>7. t = Port => Spoolers(d) # {}
    <3>1. SUFFICES ASSUME t = Port PROVE Spoolers(d) # {} OBVIOUS
    <3>2. u \in Clients /\ thread[u].pc \in WritePcs BY <2>2, <2>3, <3>1 DEF Threads, WritePcs
    <3>3. Spools(handle[u], d) BY <2>3, <3>1, <3>2, Known DEF ThreadOK
    <3> QED BY <3>2, <3>3 DEF Spoolers
  <2>8. TriesOK(d)'
    <3>1. Keep /\ Good(d)' => File(d)'.dwReboots <= 1 \/ Spoolers(d)' = {}
      BY <1>5, <2>5 DEF TriesOK
    <3>2. ASSUME Good(d)', ~ ToGo(d)'
          PROVE  \/ File(d)'.dwReboots <= 1 \/ File(d)'.dwReboots <= job'[d].dwReboots
                 \/ Keep /\ Rewrites(thread'[Port], d)
      <4>1. CASE t = Port BY <1>5, <2>5, <2>7, <3>2, <4>1 DEF TriesOK
      <4>2. CASE t # Port
        <5>1. thread'[Port] = thread[Port] BY <1>6, <4>2 DEF Threads
        <5> QED BY <1>5, <2>5, <3>2, <5>1 DEF TriesOK
      <4> QED BY <4>1, <4>2
    <3> QED BY <1>7, <3>1, <3>2 DEF TriesOK
  <2>9. Survives(d)' BY <1>5, <2>6, <2>8 DEF Survives
  <2> QED BY <1>0, <1>2, <1>3, <2>1, <2>9, OwnShadowCrash
<1> QED BY <1>8, <1>9

\* It gets the status and the attempts that the job has when it is written.
LEMMA WriteShadowCrash ==
  ASSUME StoreInv, StoreInv', CrashInv, OwnIds, NEW t \in Threads, WriteShadowFile(t)
  PROVE  CrashInv'
<1>0. /\ thread[t].pc = "write" /\ UNCHANGED <<job, handle, asked>> /\ thread[t].pc \in WritePcs
      /\ GoTo(t, "closeFile")
  BY DEF WriteShadowFile, At, history, WritePcs
<1>1. /\ Moderate(t) /\ thread'[t].pc = "closeFile" /\ thread'[t].doc = thread[t].doc
  <2>1. "closeFile" \in WritePcs /\ "closeFile" \notin CallPcs BY DEF CallPcs, WritePcs
  <2> QED BY <1>0, <2>1, GoToModerate
<1>2. PICK d : d = thread[t].doc OBVIOUS
<1>3. /\ d \in Docs /\ thread[t].id = job[d].JobId /\ job[d].dwReboots \in Int
  BY <1>0, <1>2, AtShadow
<1>4. /\ MarkOK(d)' /\ SpooledOK(d)' /\ SpooledOK(d) /\ TriesOK(d)
      /\ (ToGo(d)' <=> ToGo(d)) /\ (Waits(d)' <=> Waits(d)) /\ Spoolers(d)' = Spoolers(d)
      /\ (Tried(d) => Tried(d)') /\ job'[d] = job[d]
  BY <1>0, <1>1, <1>2, SameOwn
<1>5. shadow' = [shadow EXCEPT ![thread[t].id] = Shadow(d, job[d])] BY <1>2 DEF WriteShadowFile
<1>6. File(d)' = Shadow(d, job[d])
  <2>1. shadow'[job[d].JobId] = Shadow(d, job[d]) BY <1>0, <1>2, <1>5, AtShadow
  <2> QED BY <1>0, <2>1 DEF File
<1>7. /\ Good(d)' /\ File(d)'.dwReboots = job[d].dwReboots
      /\ \A f \in {"SPOOLING", "PENDING_DELETION"} : f \in File(d)'.Status <=> Is(d, f)
  BY <1>6 DEF Good, Shadow, Is
<1>8. WholeOK(d)'
  <2>1. ~ Is(d, "SPOOLING") BY <1>0, <1>2, <1>4 DEF SpooledOK, Writes
  <2> QED BY <1>4, <1>7, <2>1 DEF WholeOK, ToGo
<1>9. TriesOK(d)'
  <2>1. Keep => job'[d].dwReboots <= One(Spoolers(d)' = {}) + One(Tried(d)')
    BY <1>3, <1>4, SameTries
  <2>2. Keep /\ Good(d)' => File(d)'.dwReboots <= 1 \/ Spoolers(d)' = {}
    <3>1. One(Tried(d)) \in 0 .. 1 /\ (Spoolers(d) # {} => One(Spoolers(d) = {}) = 0) BY DEF One
    <3>2. Keep => job[d].dwReboots <= One(Spoolers(d) = {}) + One(Tried(d)) BY <1>4 DEF TriesOK
    <3> HIDE DEF One
    <3> QED BY <1>3, <1>4, <1>7, <3>1, <3>2
  <2>3. File(d)'.dwReboots <= job'[d].dwReboots BY <1>3, <1>4, <1>7
  <2> QED BY <2>1, <2>2, <2>3 DEF TriesOK
<1>10. Survives(d)' BY <1>4, <1>8, <1>9 DEF Survives
<1> QED BY <1>0, <1>1, <1>2, <1>5, <1>10, OwnShadowCrash

\* One document changes: it leaves the queue, or does not come to it, or some of its status does.
LEMMA OneChanges ==
  ASSUME StoreInv, NEW d \in Docs, NEW k, SetJob(d, k),
         \/ k.state # "queued"
         \/ /\ job[d].state = "queued" /\ k.JobId = job[d].JobId /\ k.dwReboots = job[d].dwReboots
            /\ \A f \in {"SPOOLING", "PENDING_DELETION", "SHADOW_DELETED"} : f \in k.Status <=> Is(d, f)
            /\ "SPOOLING" \in k.Status /\ "DESPOOLING" \in k.Status => Despools(d)
  PROVE  SameQueue
<1>1. job'[d] = k /\ \A e \in Docs : e # d => job'[e] = job[e] BY Known DEF SetJob, CoreTypes
<1>2. ASSUME NEW e \in Docs, job'[e].state = "queued"
      PROVE  /\ job[e].state = "queued" /\ job'[e].JobId = job[e].JobId
             /\ job'[e].dwReboots = job[e].dwReboots /\ SameMarks(e)
  <2>1. CASE e # d BY <1>1, <1>2, <2>1 DEF SameMarks, Is, Despools
  <2>2. CASE e = d BY <1>1, <1>2, <2>2 DEF SameMarks, Is, Despools
  <2> QED BY <2>1, <2>2
<1> QED BY <1>2 DEF SameQueue

\* StartDocPrinter until the job is made, and ClosePrinter.
LEMMA RestsMove ==
  ASSUME StoreInv, NEW c \in Clients,
         \/ CreateSpoolFile(c) \/ SpoolThisJobFails(c) \/ ClosePrinter(c) \/ Closed(c)
         \/ \E d \in Docs : StartDocPrinter(c, d)
  PROVE  /\ Moderate(c) /\ thread'[c].pc # "closeFile"
         /\ \A e \in Docs : job'[e].state = "queued" => job'[e] = job[e]
<1>0. c \in Threads /\ c # Port BY ConstantsAssumption DEF Threads
<1>1. Moderate(c) /\ thread'[c].pc # "closeFile"
  <2>1. ASSUME NEW pc \in {"idle", "close"}, Resume(c, pc) PROVE Moderate(c) /\ thread'[c].pc # "closeFile"
    BY <1>0, <2>1, RestsModerate
  <2>2. CASE GoTo(c, "queue")
    <3>1. Moderate(c) /\ thread'[c].pc = "queue"
      BY <1>0, <2>2, GoToModerate DEF CallPcs, WritePcs
    <3> QED BY <3>1
  <2>3. ASSUME NEW d \in Docs, StartDocPrinter(c, d) PROVE Moderate(c) /\ thread'[c].pc # "closeFile"
    <3>1. PICK i : thread' = [thread EXCEPT ![c] = [pc |-> "create", doc |-> d, id |-> i, then |-> "idle"]]
      BY <2>3 DEF StartDocPrinter
    <3>2. thread'[c].pc = "create" /\ \A u \in Threads : u # c => thread'[u] = thread[u]
      BY <1>0, <3>1, Known DEF CoreTypes
    <3> QED BY <1>0, <3>2 DEF Moderate, CallPcs, WritePcs
  <2> QED BY <2>1, <2>2, <2>3 DEF CreateSpoolFile, SpoolThisJobFails, ClosePrinter, Closed
<1>2. \A e \in Docs : job'[e].state = "queued" => job'[e] = job[e]
  <2>1. ASSUME NEW d \in Docs, NEW x \in {"submitted", "gone"},
               SetJob(d, [job[d] EXCEPT !.state = x]), NEW e \in Docs, job'[e].state = "queued"
        PROVE  job'[e] = job[e]
    <3>1. [job[d] EXCEPT !.state = x].state # "queued" BY Known DEF JobRecords
    <3>2. job'[d] = [job[d] EXCEPT !.state = x] /\ (e # d => job'[e] = job[e])
      BY <2>1, Known DEF SetJob, CoreTypes
    <3> QED BY <2>1, <3>1, <3>2
  <2>2. CASE CreateSpoolFile(c) /\ ~ UNCHANGED job
    <3>1. thread[c].doc \in Docs BY <1>0, <2>2, Known DEF CreateSpoolFile, At, ThreadOK
    <3> QED BY <2>1, <2>2, <3>1 DEF CreateSpoolFile
  <2> QED BY <2>1, <2>2 DEF SpoolThisJobFails, ClosePrinter, Closed, StartDocPrinter
<1> QED BY <1>1, <1>2

LEMMA RestsHandles ==
  ASSUME StoreInv, NEW c \in Clients,
         \/ CreateSpoolFile(c) \/ SpoolThisJobFails(c) \/ ClosePrinter(c) \/ Closed(c)
         \/ \E d \in Docs : StartDocPrinter(c, d)
  PROVE  HandlesGive
<1>1. CASE UNCHANGED handle BY <1>1, SameHandles
<1>2. CASE ClosePrinter(c) \/ Closed(c)
  <2>0. handle \in [Clients -> HandleRecords] BY Known DEF CoreTypes
  <2>1. \A x \in Clients : x # c => handle'[x] = handle[x]
    BY <1>2, <2>0 DEF ClosePrinter, Closed
  <2>2. CASE Closed(c)
    <3>1. handle'[c] = NewHandle BY <2>0, <2>2 DEF Closed
    <3>2. \A e : ~ Spools(NewHandle, e) BY DEF NewHandle, Spools
    <3> QED BY <2>1, <3>1, <3>2 DEF HandlesGive
  <2>3. CASE ClosePrinter(c)
    <3>1. handle'[c] = [handle[c] EXCEPT !.closing = TRUE] BY <2>0, <2>3 DEF ClosePrinter
    <3>2. handle'[c].STARTDOC = handle[c].STARTDOC /\ handle'[c].pIniJob = handle[c].pIniJob
      BY <2>0, <3>1 DEF HandleRecords
    <3> QED BY <2>1, <3>2 DEF HandlesGive, Spools
  <2> QED BY <1>2, <2>2, <2>3
<1> QED BY <1>1, <1>2 DEF CreateSpoolFile, SpoolThisJobFails, StartDocPrinter

LEMMA RestsCrash ==
  ASSUME StoreInv, StoreInv', CrashInv, NEW c \in Clients,
         \/ CreateSpoolFile(c) \/ SpoolThisJobFails(c) \/ ClosePrinter(c) \/ Closed(c)
         \/ \E d \in Docs : StartDocPrinter(c, d)
  PROVE  CrashInv'
<1>0. /\ c \in Threads /\ c # Port /\ UNCHANGED <<shadow, asked>>
      /\ thread[c].pc \notin {"createFile", "write"}
  BY ConstantsAssumption DEF Threads, CreateSpoolFile, SpoolThisJobFails, ClosePrinter, Closed,
     StartDocPrinter, disk, history, At
<1>1. HandlesGive BY RestsHandles
<1>2. /\ Moderate(c) /\ thread'[c].pc # "closeFile"
      /\ \A e \in Docs : job'[e].state = "queued" => job'[e] = job[e]
  BY RestsMove
<1>3. SameQueue BY <1>2 DEF SameQueue, SameMarks, Is, Despools
<1> QED BY <1>0, <1>1, <1>2, <1>3, ModerateCrash

\* Restarts, and changes of form or device.
LEMMA UsersCrash ==
  ASSUME StoreInv, StoreInv', CrashInv, NEW c \in Clients,
         UnblockJobs(c) \/ \E d \in Docs : RestartJob(c, d)
  PROVE  CrashInv'
<1>0. /\ c \in Threads /\ c # Port /\ UNCHANGED <<handle, thread, shadow>>
      /\ thread[c].pc = "idle"
  BY ConstantsAssumption DEF Threads, UnblockJobs, RestartJob, disk, At
<1>1. /\ HandlesGive /\ Moderate(c)
      /\ thread[c].pc \notin {"createFile", "write"} /\ thread'[c].pc # "closeFile"
  BY <1>0, SameHandles DEF Moderate, CallPcs, WritePcs
<1>2. \A e \in Docs : asked[e] \subseteq asked'[e]
  <2>1. asked \in [Docs -> SUBSET {"DELETE", "RESTART"}] BY DEF StoreInv, Types
  <2>2. \/ asked' = asked \/ \E d \in Docs : asked' = [asked EXCEPT ![d] = asked[d] \cup {"RESTART"}]
    BY DEF UnblockJobs, RestartJob, history
  <2> QED BY <2>1, <2>2
<1>3. SameQueue
  <2>1. CASE UnblockJobs(c)
    <3>1. ASSUME NEW e \in Docs
          PROVE  /\ job'[e].state = job[e].state /\ job'[e].JobId = job[e].JobId
                 /\ job'[e].dwReboots = job[e].dwReboots
                 /\ job'[e].Status = job[e].Status \ {"BLOCKED_DEVQ"}
      <4>1. job'[e] = [job[e] EXCEPT !.Status = job[e].Status \ {"BLOCKED_DEVQ"}]
        BY <2>1 DEF UnblockJobs
      <4>2. job[e] \in JobRecords BY Known
      <4> QED BY <4>1, <4>2 DEF JobRecords
    <3> QED BY <3>1 DEF SameQueue, SameMarks, Is, Despools
  <2>2. ASSUME NEW d \in Docs, RestartJob(c, d) PROVE SameQueue
    <3>0. job[d] \in JobRecords /\ job[d].state = "queued" BY <2>2, Known DEF RestartJob, Queued
    <3> DEFINE x == IF "DESPOOLING" \in job[d].Status THEN {} ELSE {"PRINTED", "BLOCKED_DEVQ"}
               s == (job[d].Status \cup {"RESTART"}) \ x
               k == [job[d] EXCEPT !.Status = s]
    <3>1. SetJob(d, k) BY <2>2 DEF RestartJob
    <3>2. \A f \in {"SPOOLING", "PENDING_DELETION", "SHADOW_DELETED", "DESPOOLING"} : f \in s <=> Is(d, f)
      BY DEF Is
    <3> HIDE DEF s
    <3>3. k.Status = s /\ k.JobId = job[d].JobId /\ k.dwReboots = job[d].dwReboots
      BY <3>0 DEF JobRecords
    <3> HIDE DEF k
    <3>4. "DESPOOLING" \in k.Status => Despools(d) BY <3>2, <3>3 DEF Is, Despools
    <3> QED BY <3>0, <3>1, <3>2, <3>3, <3>4, OneChanges
  <2> QED BY <2>1, <2>2
<1> QED BY <1>0, <1>1, <1>2, <1>3, ModerateCrash

\* A job that is made has no shadow file, and only the handle that spools it.
LEMMA SpoolCrash ==
  ASSUME StoreInv, StoreInv', CrashInv, ShadowHeld, NEW c \in Clients, SpoolThisJob(c)
  PROVE  CrashInv'
<1>0. /\ c \in Threads /\ c # Port /\ thread[c].pc = "queue" /\ UNCHANGED <<shadow, asked>>
  BY ConstantsAssumption DEF Threads, SpoolThisJob, disk, history, At
<1>1. PICK d \in Docs : d = thread[c].doc /\ job[d].state = "submitted" /\ job[d] \in JobRecords
  BY <1>0, Known DEF ThreadOK, SubmitPcs
<1>2. PICK id \in Ids : thread[c].id = id BY <1>0, Known DEF ThreadRecords
<1>3. thread[c].pc \notin {"createFile", "write"} /\ \A e \in Docs : asked[e] \subseteq asked'[e]
  BY <1>0
<1>4. CASE SetJob(d, [job[d] EXCEPT !.state = "gone"]) /\ GoTo(c, "deleteFile") /\ UNCHANGED handle
  <2>1. Moderate(c) /\ thread'[c].pc = "deleteFile"
    BY <1>0, <1>4, GoToModerate DEF CallPcs, WritePcs
  <2>2. [job[d] EXCEPT !.state = "gone"].state = "gone" BY <1>1 DEF JobRecords
  <2>3. SameQueue BY <1>4, <2>2, OneChanges
  <2>4. thread'[c].pc # "closeFile" BY <2>1
  <2> QED BY <1>0, <1>3, <1>4, <2>1, <2>3, <2>4, SameHandles, ModerateCrash
<1>5. CASE /\ SetJob(d, NewJob(d, id, {"SPOOLING"})) /\ Resume(c, "idle")
           /\ handle' = [handle EXCEPT ![c].STARTDOC = TRUE, ![c].pIniJob = d]
  <2>1. Moderate(c) /\ thread'[c].pc = "idle" BY <1>0, <1>5, RestsModerate
  <2>2. \A u \in Threads : u = c \/ thread'[u] = thread[u] BY <2>1 DEF Moderate
  <2> DEFINE k == NewJob(d, id, {"SPOOLING"})
  <2>3. /\ k.state = "queued" /\ k.JobId = id /\ k.Status = {"SPOOLING"} /\ k.dwReboots = 0
        /\ SetJob(d, k)
    BY <1>5 DEF NewJob
  <2> HIDE DEF k
  <2>4. job'[d] = k /\ \A e \in Docs : e # d => job'[e] = job[e]
    BY <2>3, Known DEF SetJob, CoreTypes
\* The others,
  <2>5. ASSUME NEW e \in Docs, e # d, NEW x \in Clients, Spools(handle'[x], e) PROVE Spools(handle[x], e)
    <3>0. handle \in [Clients -> HandleRecords] BY Known DEF CoreTypes
    <3>1. handle' = [handle EXCEPT ![c] = [handle[c] EXCEPT !.STARTDOC = TRUE, !.pIniJob = d]]
      BY <1>5, <3>0
    <3>2. CASE x # c
      <4>1. handle'[x] = handle[x] BY <3>0, <3>1, <3>2
      <4> QED BY <2>5, <4>1
    <3>3. CASE x = c
      <4>1. handle'[c] = [handle[c] EXCEPT !.STARTDOC = TRUE, !.pIniJob = d] BY <3>0, <3>1
      <4>2. handle'[c].pIniJob = d BY <3>0, <4>1 DEF HandleRecords
      <4> QED BY <2>5, <3>3, <4>2 DEF Spools
    <3> QED BY <3>2, <3>3
  <2>6. ASSUME NEW e \in Docs, e # d, job'[e].state = "queued" PROVE Survives(e)'
    <3>1. job'[e] = job[e] /\ job[e].state = "queued" BY <2>4, <2>6
    <3>2. Survives(e) BY <3>1 DEF CrashInv, Queued
    <3>3. Tried(e) => Tried(e)'
      <4>1. thread'[Port] = thread[Port] BY <1>0, <2>2 DEF Threads
      <4> QED BY <4>1 DEF Tried
    <3>4. /\ ~ Calls(thread'[c], e) /\ ~ Writes(thread'[c], e) /\ ~ Rewrites(thread[c], e)
          /\ ~ Closes(thread'[c], e)
      BY <1>0, <2>1 DEF Calls, Writes, Rewrites, Closes, CallPcs, WritePcs
    <3>5. Spared(c, e) BY <1>3, <2>5, <2>6, <3>1, <3>3, <3>4 DEF Spared, Is, Despools
    <3>6. Step(c, e) BY <1>0, <3>2, <3>5, SparedStep
    <3>7. \A u \in Threads : u # c => thread'[u] = thread[u] BY <2>2
    <3>8. job'[e].JobId = job[e].JobId /\ shadow'[job[e].JobId] = shadow[job[e].JobId]
      BY <1>0, <3>1
    <3> HIDE DEF Survives, Step
    <3> QED BY <1>0, <3>2, <3>6, <3>7, <3>8, StepKeeps
\* and the new one.
  <2>7. ASSUME NEW u \in Threads, thread'[u].doc = d PROVE thread'[u].pc \notin CallPcs \cup WritePcs
    <3>1. CASE u = c BY <2>1, <3>1 DEF CallPcs, WritePcs
    <3>2. CASE u # c
      <4>1. thread'[u] = thread[u] BY <2>2, <3>2
      <4> QED BY <1>1, <2>7, <4>1, AtJobs DEF Referring
    <3> QED BY <3>1, <3>2
  <2>8. ~ Good(d)'
    <3>1. HoldsId(c, id) BY <1>0, <1>2 DEF HoldsId
    <3>2. FindJob(id) = {} /\ \A u \in Threads : HoldsId(u, id) => u = c BY <1>0, <3>1, Known DEF IdsOK
    <3>3. shadow[id].file = "none" BY <1>0, <3>2, NoShadowHeld DEF At
    <3>4. shadow'[id].file = "none" BY <1>0, <3>3
    <3>5. job'[d].JobId = id BY <2>3, <2>4
    <3> QED BY <3>4, <3>5 DEF Good, File
  <2>9. /\ Is(d, "SPOOLING")' /\ ~ Is(d, "SHADOW_DELETED")' /\ ~ Is(d, "PENDING_DELETION")'
        /\ ~ Despools(d)' /\ job'[d].dwReboots = 0
    BY <2>3, <2>4 DEF Is, Despools
  <2>10. MarkOK(d)' BY <2>7, <2>9 DEF MarkOK, Calls
  <2>11. SpooledOK(d)' BY <2>7, <2>9 DEF SpooledOK, Writes
  <2>12. WholeOK(d)' BY <2>8, <2>9 DEF WholeOK, Waits
  <2>13. TriesOK(d)' BY <2>8, <2>9 DEF TriesOK, One
  <2>14. Survives(d)' BY <2>10, <2>11, <2>12, <2>13 DEF Survives
  <2>15. \A e \in Docs : job'[e].state = "queued" => Survives(e)' BY <2>6, <2>14
  <2> QED BY <2>15 DEF CrashInv, Queued
<1> QED BY <1>1, <1>2, <1>4, <1>5 DEF SpoolThisJob

LEMMA ClientCrash ==
  ASSUME StartDocOnly, StoreInv, StoreInv', CrashInv, ShadowHeld, NEW c \in Clients, ClientStep(c)
  PROVE  CrashInv'
<1>1. CASE CreateSpoolFile(c) \/ SpoolThisJobFails(c) \/ ClosePrinter(c) \/ Closed(c)
           \/ \E d \in Docs : StartDocPrinter(c, d)
  BY <1>1, RestsCrash
<1>2. CASE UnblockJobs(c) \/ \E d \in Docs : RestartJob(c, d) BY <1>2, UsersCrash
<1>3. CASE SpoolThisJob(c) BY <1>3, SpoolCrash
<1>4. CASE EndDocPrinter(c) BY <1>4, EndDocCrash
<1>5. CASE \E d \in Docs : DeleteByUser(c, d) BY <1>5, DeleteCrash
<1> QED BY <1>1, <1>2, <1>3, <1>4, <1>5, ClientCases

\* The steps of the port thread that leave the attempts alone.
LEMMA PortPlainCrash ==
  ASSUME StoreInv, StoreInv', CrashInv, AssignJobs \/ PortQueries \/ PortSends \/ PortStops
  PROVE  CrashInv'
<1>0. /\ Port \in Threads /\ UNCHANGED <<handle, shadow, asked>> /\ HandlesGive
      /\ thread[Port].pc \in {"idle"} \cup PortPcs
      /\ thread[Port].pc \notin {"createFile", "write"} /\ \A e \in Docs : asked[e] \subseteq asked'[e]
  BY SameHandles DEF Threads, AssignJobs, AssignJob, PortQueries, PortSends, PortStops, disk, history, At,
                     PortPcs
<1>1. ASSUME Moderate(Port), SameQueue, thread'[Port].pc # "closeFile" PROVE CrashInv'
  BY <1>0, <1>1, ModerateCrash
<1>2. ASSUME NEW pc \in PortPcs \ {"assigned"}, GoTo(Port, pc)
      PROVE  Moderate(Port) /\ thread'[Port].pc # "closeFile"
  <2>1. pc \notin CallPcs \cup WritePcs /\ pc # "closeFile" BY DEF PortPcs, CallPcs, WritePcs
  <2> QED BY <1>0, <1>2, <2>1, GoToModerate
\* Some of the status of the job changes.
<1>3. ASSUME NEW d \in Docs, job[d].state = "queued", NEW s, SetJob(d, [job[d] EXCEPT !.Status = s]),
             \A f \in {"SPOOLING", "PENDING_DELETION", "SHADOW_DELETED", "DESPOOLING"} :
               f \in s <=> Is(d, f)
      PROVE  SameQueue
  <2> DEFINE k == [job[d] EXCEPT !.Status = s]
  <2>1. k.Status = s /\ k.JobId = job[d].JobId /\ k.dwReboots = job[d].dwReboots
    BY Known DEF JobRecords
  <2>2. SetJob(d, k) BY <1>3
  <2> HIDE DEF k
  <2>3. "DESPOOLING" \in k.Status => Despools(d) BY <1>3, <2>1 DEF Is, Despools
  <2> QED BY <1>3, <2>1, <2>2, <2>3, OneChanges
<1>4. ASSUME thread[Port].pc \in PortPcs
      PROVE  \E d \in Docs : /\ d = thread[Port].doc /\ job[d].state = "queued" /\ job[d] \in JobRecords
                             /\ AtDoc(Port, d)
  BY <1>4, PortBusyKnown
<1>5. CASE AssignJobs
  <2>1. PICK d \in Docs : AssignJob(d) BY <1>5 DEF AssignJobs
  <2>2. job[d].state = "queued" /\ job[d] \in JobRecords /\ ~ Is(d, "SPOOLING") /\ thread[Port].pc = "idle"
    <3>1. "SPOOLING" \in Flags \ {"SCHEDULE_JOB", "RESTART", "SHADOW_DELETED"} BY DEF Flags
    <3> QED BY <2>1, <3>1, Known DEF AssignJob, Queued, Is, At
  <2> DEFINE s == job[d].Status \cup {"DESPOOLING"}
             n == job[d].cRef + 1
             k == [job[d] EXCEPT !.Status = s, !.cRef = n]
             r == [Idle EXCEPT !.pc = "assigned", !.doc = d]
  <2>3. SetJob(d, k) /\ thread' = [thread EXCEPT ![Port] = r] BY <2>1 DEF AssignJob
  <2>4. /\ \A f \in {"SPOOLING", "PENDING_DELETION", "SHADOW_DELETED"} : f \in s <=> Is(d, f)
        /\ r.pc = "assigned"
    BY DEF Is, Idle
  <2> HIDE DEF s, n, r
  <2>5. k.Status = s /\ k.JobId = job[d].JobId /\ k.dwReboots = job[d].dwReboots
    BY <2>2 DEF JobRecords
  <2> HIDE DEF k
  <2>6. SameQueue BY <2>2, <2>3, <2>4, <2>5, OneChanges
  <2>7. thread'[Port] = r /\ \A u \in Threads : u # Port => thread'[u] = thread[u]
    BY <1>0, <2>3, Known DEF CoreTypes
  <2>8. Moderate(Port) /\ thread'[Port].pc # "closeFile"
    BY <2>2, <2>4, <2>7 DEF Moderate, CallPcs, WritePcs, PortPcs, Attempting
  <2> QED BY <1>1, <2>6, <2>8
<1>6. CASE PortQueries
  <2>1. PICK d \in Docs : d = thread[Port].doc /\ job[d].state = "queued"
    BY <1>4, <1>6 DEF PortQueries, At, PortPcs
  <2> DEFINE s == job[d].Status \cup {"PRINTING"}
  <2>2. \A f \in {"SPOOLING", "PENDING_DELETION", "SHADOW_DELETED", "DESPOOLING"} : f \in s <=> Is(d, f)
    BY DEF Is
  <2>3. /\ UNCHANGED job \/ SetJob(d, [job[d] EXCEPT !.Status = s])
        /\ \E pc \in PortPcs \ {"assigned"} : GoTo(Port, pc)
    BY <1>6, <2>1 DEF PortQueries, PortPcs
  <2> HIDE DEF s
  <2>4. SameQueue BY <1>3, <2>1, <2>2, <2>3, QueueSame
  <2> QED BY <1>1, <1>2, <2>3, <2>4
<1>7. CASE PortStops
  <2>1. PICK d \in Docs : d = thread[Port].doc /\ job[d].state = "queued"
    BY <1>4, <1>7 DEF PortStops, At, PortPcs
  <2> DEFINE s == job[d].Status \ {"PRINTING"}
  <2>2. \A f \in {"SPOOLING", "PENDING_DELETION", "SHADOW_DELETED", "DESPOOLING"} : f \in s <=> Is(d, f)
    BY DEF Is
  <2>3. /\ SetJob(d, [job[d] EXCEPT !.Status = s]) /\ "end" \in PortPcs \ {"assigned"}
        /\ GoTo(Port, "end")
    BY <1>7, <2>1 DEF PortStops, PortPcs
  <2> HIDE DEF s
  <2>4. SameQueue BY <1>3, <2>1, <2>2, <2>3
  <2> QED BY <1>1, <1>2, <2>3, <2>4
<1>8. CASE PortSends
  <2>1. PICK d \in Docs : /\ d = thread[Port].doc /\ job[d].state = "queued" /\ job[d] \in JobRecords
                          /\ AtDoc(Port, d)
    BY <1>4, <1>8 DEF PortSends, At, PortPcs
  <2> DEFINE s == job[d].Status \cup {"PRINTED"}
             j == [job[d] EXCEPT !.Status = s]
  <2>2. /\ \A f \in {"SPOOLING", "PENDING_DELETION", "SHADOW_DELETED", "DESPOOLING"} : f \in s <=> Is(d, f)
        /\ s \in SUBSET Flags
    BY <2>1 DEF Is, JobRecords, Flags
  <2>3. \/ ~ Keep /\ DeleteJob(Port, d, j, "sent")
        \/ /\ "sent" \in PortPcs \ {"assigned"} /\ GoTo(Port, "sent")
           /\ UNCHANGED job \/ SetJob(d, j)
    BY <1>8, <2>1 DEF PortSends, PortPcs
  <2> HIDE DEF s
  <2>4. CASE /\ "sent" \in PortPcs \ {"assigned"} /\ GoTo(Port, "sent")
             /\ UNCHANGED job \/ SetJob(d, j)
    <3>1. SameQueue BY <1>3, <2>1, <2>2, <2>4, QueueSame
    <3> QED BY <1>1, <1>2, <2>4, <3>1
  <2>5. CASE ~ Keep /\ DeleteJob(Port, d, j, "sent")
    <3>1. j \in JobRecords /\ j.Status = s BY <2>1, <2>2 DEF JobRecords
    <3> HIDE DEF j
    <3>2. Left(Port, d, j, "sent") BY <1>0, <2>1, <2>5, <3>1, DeleteJobLeft DEF Returns
    <3>3. InMemory(Port) /\ RebootsSame BY <1>8, PortInMemory, PortKeepsReboots DEF PortStep
    <3>4. /\ Is(d, "PENDING_DELETION") => "PENDING_DELETION" \in j.Status
          /\ "SHADOW_DELETED" \in j.Status => Is(d, "SHADOW_DELETED")
          /\ Is(d, "SPOOLING") <=> "SPOOLING" \in j.Status
          /\ "DESPOOLING" \in j.Status => Despools(d)
      BY <2>2, <3>1 DEF Is, Despools
    <3> QED BY <1>0, <2>1, <2>5, <3>2, <3>3, <3>4, LeftCrash
  <2> QED BY <2>3, <2>4, <2>5
<1> QED BY <1>5, <1>6, <1>7, <1>8

\* What the port finds of its job when it begins and ends.
LEMMA PortFinds ==
  ASSUME StoreInv, CrashInv, thread[Port].pc \in PortPcs, NEW d, d = thread[Port].doc
  PROVE  /\ Port \in Threads /\ d \in Docs /\ job[d].state = "queued" /\ job[d] \in JobRecords
         /\ job[d].dwReboots \in Int
         /\ AtDoc(Port, d) /\ ~ Is(d, "SPOOLING") /\ MarkOK(d)
         /\ thread[Port].pc \notin {"createFile", "write"}
<1>1. /\ Port \in Threads /\ d \in Docs /\ job[d].state = "queued" /\ job[d] \in JobRecords
      /\ AtDoc(Port, d) /\ Despools(d) /\ thread[Port].pc \notin {"createFile", "write"}
  BY PortBusyKnown DEF PortPcs
<1>2. SpooledOK(d) /\ MarkOK(d) BY <1>1 DEF CrashInv, Queued, Survives
<1> QED BY <1>1, <1>2 DEF SpooledOK, JobRecords

\* An attempt counts one at most.
LEMMA AttemptCounts ==
  ASSUME NEW d \in Docs, NEW j \in JobRecords
  PROVE  /\ Attempt(d, j).dwReboots \in {j.dwReboots, j.dwReboots + 1}
         /\ d \notin Emf => Attempt(d, j).dwReboots = j.dwReboots
<1> DEFINE s == j.Status \ {"RESTART"}
           m == IF "RESTART" \in j.Status /\ j.dwReboots > 0 THEN j.dwReboots ELSE j.dwReboots + 1
           n == IF d \in Emf THEN m ELSE j.dwReboots
<1>1. Attempt(d, j) = [j EXCEPT !.Status = s, !.dwReboots = n] BY DEF Attempt, JobRecords
<1>2. n \in {j.dwReboots, j.dwReboots + 1} /\ (d \notin Emf => n = j.dwReboots) OBVIOUS
<1> HIDE DEF s, n
<1>3. [j EXCEPT !.Status = s, !.dwReboots = n].dwReboots = n BY DEF JobRecords
<1> QED BY <1>1, <1>2, <1>3

\* An attempt is counted before it is begun,
LEMMA PortBeginsCrash ==
  ASSUME StoreInv, StoreInv', CrashInv, PortBegins
  PROVE  CrashInv'
<1>0. thread[Port].pc = "assigned" /\ thread[Port].pc \in PortPcs /\ UNCHANGED asked
  BY DEF PortBegins, At, PortPcs, history
<1>1. PICK d : d = thread[Port].doc OBVIOUS
<1>2. /\ Port \in Threads /\ d \in Docs /\ job[d].state = "queued" /\ job[d] \in JobRecords
      /\ job[d].dwReboots \in Int /\ AtDoc(Port, d) /\ ~ Is(d, "SPOOLING")
      /\ thread[Port].pc \notin {"createFile", "write"}
  BY <1>0, <1>1, PortFinds
<1> DEFINE j == Attempt(d, job[d])
<1>3. /\ j \in JobRecords /\ j.Status = job[d].Status \ {"RESTART"}
      /\ j.dwReboots \in {job[d].dwReboots, job[d].dwReboots + 1}
      /\ d \notin Emf => j.dwReboots = job[d].dwReboots
  BY <1>2, AttemptJob, AttemptCounts
<1>4. WriteShadowJob(Port, d, j, "query") \/ ShadowWritten(Port, d, j, "query")
  BY <1>1 DEF PortBegins
<1> HIDE DEF j
<1>5. Left(Port, d, j, "query") /\ Unmarked(d, j)
  BY <1>2, <1>3, <1>4, WriteShadowJobLeft, ShadowWrittenLeft
<1>6. Reboots(d, j.dwReboots) BY <1>2, <1>3, <1>4, WritesReboots
<1>7. InMemory(Port) /\ HandlesGive
  BY <1>2, <1>4, PortInMemory, WritesHandles DEF PortStep
<1>8. ASSUME job'[d].state = "queued" PROVE Step(Port, d)
  <2>1. job'[d].dwReboots = j.dwReboots BY <1>2, <1>6 DEF Reboots
  <2>2. ~ Attempting(thread[Port]) /\ ~ Tried(d)
    BY <1>0 DEF Tried, Attempting, PortPcs, CallPcs, WritePcs
  <2>3. Attempting(thread'[Port]) /\ thread'[Port].doc = d BY <1>5, <1>8 DEF Left, Remains
  <2>4. Keep => job'[d].dwReboots + One(Tried(d)) <= job[d].dwReboots + One(Tried(d)')
    <3>1. One(Tried(d)) = 0 /\ One(Tried(d)') \in 0 .. 1 /\ (d \in Emf => One(Tried(d)') = 1)
      BY <2>2, <2>3 DEF One, Tried
    <3> QED BY <1>2, <1>3, <2>1, <3>1
  <2>5. job[d].dwReboots <= job'[d].dwReboots BY <1>2, <1>3, <2>1
  <2>6. "SPOOLING" \notin j.Status /\ ("SHADOW_DELETED" \in j.Status => Is(d, "SHADOW_DELETED"))
        /\ (ToGo(d) => "PENDING_DELETION" \in j.Status \/ "DELETE" \in asked'[d])
    BY <1>0, <1>2, <1>3 DEF ToGo, Is
  <2>7. Is(d, "PENDING_DELETION")' => Is(d, "PENDING_DELETION") BY <1>3, <1>5, <1>8 DEF Unmarked, Is
  <2>8. asked[d] \subseteq asked'[d] BY <1>0
  <2> QED BY <1>2, <1>5, <1>7, <1>8, <2>4, <2>5, <2>6, <2>7, <2>8, LeftStep DEF HandlesGive
<1>9. ~ Attempting(thread[Port]) BY <1>0 DEF Attempting, PortPcs, CallPcs, WritePcs
<1>10. \A e \in Docs : asked[e] \subseteq asked'[e] BY <1>0
<1> QED BY <1>2, <1>5, <1>7, <1>8, <1>9, <1>10, LeftSteps

\* The count of a job that is kept, and the mark that is taken from it.
LEMMA KeptCounts ==
  ASSUME NEW d \in Docs, NEW j \in JobRecords
  PROVE  Kept(d, j).dwReboots = IF d \in Emf THEN j.dwReboots - 1 ELSE j.dwReboots
<1> DEFINE s == (j.Status \ {"PENDING_DELETION"}) \cup {"PRINTED"}
           m == j.cRef + 1
           n == IF d \in Emf THEN j.dwReboots - 1 ELSE j.dwReboots
<1>1. Kept(d, j) = [j EXCEPT !.Status = s, !.cRef = m, !.dwReboots = n] BY DEF Kept, JobRecords
<1> HIDE DEF s, m, n
<1>2. [j EXCEPT !.Status = s, !.cRef = m, !.dwReboots = n].dwReboots = n BY DEF JobRecords
<1> QED BY <1>1, <1>2 DEF n

\* and taken back when the job is kept, whose shadow file is written then.
LEMMA PortEndsCrash ==
  ASSUME StoreInv, StoreInv', CrashInv, PortEnds
  PROVE  CrashInv'
<1>0. /\ thread[Port].pc \in {"end", "refused"} /\ thread[Port].pc \in PortPcs
      /\ Attempting(thread[Port]) /\ UNCHANGED asked
  BY DEF PortEnds, At, PortPcs, history, Attempting
<1>1. PICK d : d = thread[Port].doc OBVIOUS
<1>2. /\ Port \in Threads /\ d \in Docs /\ job[d].state = "queued" /\ job[d] \in JobRecords
      /\ job[d].dwReboots \in Int /\ AtDoc(Port, d) /\ ~ Is(d, "SPOOLING") /\ MarkOK(d)
      /\ thread[Port].pc \notin {"createFile", "write"}
  BY <1>0, <1>1, PortFinds
<1> DEFINE x == IF At(Port, "refused") THEN {"BLOCKED_DEVQ"}
                ELSE IF "RESTART" \in job[d].Status THEN {} ELSE {"PRINTED"}
           s == job[d].Status \cup x
           j == [job[d] EXCEPT !.Status = s]
<1>3. IF Keep THEN WriteShadowJob(Port, d, Kept(d, j), "kept") ELSE RemoveIniPortFromIniJob(Port, d, j)
  BY <1>1 DEF PortEnds
<1>4. /\ s \in SUBSET Flags
      /\ \A f \in {"SPOOLING", "PENDING_DELETION", "SHADOW_DELETED", "DESPOOLING"} : f \in s <=> Is(d, f)
  BY <1>2 DEF Is, JobRecords, Flags
<1> HIDE DEF s
<1>5. j \in JobRecords /\ j.Status = s /\ j.dwReboots = job[d].dwReboots BY <1>2, <1>4 DEF JobRecords
<1> HIDE DEF j
<1>6. InMemory(Port) BY PortInMemory DEF PortStep
<1>7. HandlesGive
  BY <1>2, <1>3, WritesHandles, SameHandles DEF RemoveIniPortFromIniJob
<1>8. /\ \A e \in Docs : asked[e] \subseteq asked'[e]
      /\ One(Tried(d)) \in 0 .. 1 /\ One(Tried(d)') \in 0 .. 1
      /\ d \in Emf => One(Tried(d)) = 1
      /\ d \notin Emf => One(Tried(d)) = 0 /\ One(Tried(d)') = 0
  BY <1>0, <1>1 DEF One, Tried
<1>9. CASE Keep
  <2> DEFINE k == Kept(d, j)
  <2>1. /\ k \in JobRecords /\ k.Status = (j.Status \ {"PENDING_DELETION"}) \cup {"PRINTED"}
        /\ k.dwReboots = IF d \in Emf THEN j.dwReboots - 1 ELSE j.dwReboots
    BY <1>2, <1>5, KeptJob, KeptCounts
  <2>2. WriteShadowJob(Port, d, k, "kept") BY <1>3, <1>9
  <2> HIDE DEF k
  <2>3. /\ Left(Port, d, k, "kept") /\ Unmarked(d, k)
        /\ "SHADOW_DELETED" \in k.Status \/ Rewrites(thread'[Port], d)
    BY <1>2, <2>1, <2>2, WriteShadowJobLeft
  <2>4. Reboots(d, k.dwReboots) BY <1>2, <2>1, <2>2, WritesReboots
  <2>5. ASSUME job'[d].state = "queued" PROVE Step(Port, d)
    <3>1. job'[d].dwReboots = k.dwReboots BY <1>2, <2>4 DEF Reboots
    <3>2. Keep => job'[d].dwReboots + One(Tried(d)) <= job[d].dwReboots + One(Tried(d)')
      BY <1>2, <1>5, <1>8, <2>1, <3>1
    <3>3. "SPOOLING" \notin k.Status /\ ("SHADOW_DELETED" \in k.Status => Is(d, "SHADOW_DELETED"))
      BY <1>2, <1>4, <1>5, <2>1
    <3>4. ToGo(d) => "PENDING_DELETION" \in k.Status \/ "DELETE" \in asked'[d]
      BY <1>0, <1>2, <1>9 DEF ToGo, MarkOK
    <3>5. Is(d, "PENDING_DELETION")' => Is(d, "PENDING_DELETION") BY <2>1, <2>3, <2>5 DEF Unmarked
    <3>6. asked[d] \subseteq asked'[d] BY <1>0
    <3>7. \/ job[d].dwReboots <= job'[d].dwReboots
          \/ "SHADOW_DELETED" \in k.Status \/ (Keep /\ Rewrites(thread'[Port], d))
      BY <1>9, <2>3
    <3> QED BY <1>2, <1>7, <2>3, <2>5, <3>2, <3>3, <3>4, <3>5, <3>6, <3>7, LeftStep DEF HandlesGive
  <2> QED BY <1>0, <1>1, <1>2, <1>6, <1>7, <1>8, <2>3, <2>5, LeftSteps
<1>10. CASE ~ Keep
  <2>1. RemoveIniPortFromIniJob(Port, d, j) BY <1>3, <1>10
  <2>2. Left(Port, d, j, "kept") /\ Unmarked(d, j) BY <1>2, <1>5, <2>1, RemovePortLeft
  <2>3. Reboots(d, j.dwReboots) BY <1>2, <1>5, <2>1, RemovePortReboots
  <2>4. ASSUME job'[d].state = "queued" PROVE Step(Port, d)
    <3>1. job[d].dwReboots <= job'[d].dwReboots BY <1>2, <1>5, <2>3 DEF Reboots
    <3>2. "SPOOLING" \notin j.Status /\ ("SHADOW_DELETED" \in j.Status => Is(d, "SHADOW_DELETED"))
          /\ (ToGo(d) => "PENDING_DELETION" \in j.Status \/ "DELETE" \in asked'[d])
      BY <1>0, <1>2, <1>4, <1>5 DEF ToGo
    <3>3. asked[d] \subseteq asked'[d] BY <1>0
    <3> QED BY <1>2, <1>7, <1>10, <2>2, <2>4, <3>1, <3>2, <3>3, LeftStep DEF HandlesGive
  <2> QED BY <1>0, <1>1, <1>2, <1>6, <1>7, <1>8, <2>2, <2>4, LeftSteps
<1> QED BY <1>9, <1>10

----------------------------------------------------------------------------
(* The crash.                                                               *)

\* ReadShadowJob takes the files of a job that was acknowledged,
LEMMA AcknowledgedReadable ==
  ASSUME StoreInv, FileInv, CrashInv, NEW d \in Docs, Acknowledged(d)
  PROVE  /\ job[d].JobId \in Ids /\ Readable(job[d].JobId)
         /\ shadow[job[d].JobId].doc = d
<1>0. /\ d \in Queued /\ ~ Is(d, "SPOOLING") /\ ~ Is(d, "PENDING_DELETION") /\ "DELETE" \notin asked[d]
      /\ job[d].dwReboots <= 1 /\ job[d].dwReboots \in Int /\ job[d].JobId \in Ids
  BY DEF Acknowledged, StoreInv, Types, JobRecords
<1>1. WholeOK(d) /\ TriesOK(d) BY <1>0 DEF CrashInv, Survives
<1>2. Waits(d) /\ ~ ToGo(d) BY <1>0 DEF Waits, ToGo
<1>3. \A t \in Threads : ~ Rewrites(thread[t], d) BY DEF Acknowledged, Writing, Rewrites
<1>4. Good(d) /\ File(d).Status \cap {"SPOOLING", "PENDING_DELETION"} = {}
  BY <1>1, <1>2, <1>3 DEF WholeOK
<1>5. File(d).dwReboots <= 1
  <2>1. File(d).dwReboots \in Int BY <1>0 DEF File, StoreInv, Types, ShadowRecords
  <2>2. ~ Rewrites(thread[Port], d) BY <1>3 DEF Threads
  <2> QED BY <1>0, <1>1, <1>2, <1>4, <2>1, <2>2 DEF TriesOK
<1>6. /\ spool[job[d].JobId] = d /\ d # NoDoc
  BY <1>0, ConstantsAssumption DEF FileInv, SpoolFiles
<1>7. shadow[job[d].JobId].doc = d BY <1>0, <1>4, <1>6 DEF Good, File, FileInv, ShadowOf
<1> QED BY <1>0, <1>4, <1>5, <1>6, <1>7 DEF Good, File, Readable

\* and a job whose files are taken is in the queue again, as they say.
LEMMA ReadAgain ==
  ASSUME Restart, NEW d \in Docs
  PROVE  /\ (\E i \in Ids : Readable(i) /\ shadow[i].doc = d) => job'[d].state = "queued"
         /\ job'[d].state = "queued" =>
              \E i \in Ids : /\ Readable(i) /\ job'[d] = ReadShadowJob(i)
                             /\ shadow'[i] = shadow[i] /\ shadow[i].doc = d
<1> DEFINE read == {i \in Ids : Readable(i)}
           id(e) == CHOOSE i \in read : shadow[i].doc = e
           Found(e) == \E i \in read : shadow[i].doc = e
<1>1. job'[d] = IF Found(d) THEN ReadShadowJob(id(d))
                ELSE IF job[d].state = "new" THEN NoJob ELSE [NoJob EXCEPT !.state = "gone"]
  BY DEF Restart
<1>2. NoJob.state # "queued" /\ [NoJob EXCEPT !.state = "gone"].state # "queued" BY DEF NoJob
<1>3. Found(d) => id(d) \in read /\ shadow[id(d)].doc = d OBVIOUS
<1>4. \A i \in read : i \in Ids /\ Readable(i) /\ shadow'[i] = shadow[i] BY DEF Restart
<1>5. (\E i \in Ids : Readable(i) /\ shadow[i].doc = d) => Found(d) OBVIOUS
<1> HIDE DEF read, id, Found
<1>6. \A i : ReadShadowJob(i).state = "queued" BY DEF ReadShadowJob
<1> QED BY <1>1, <1>2, <1>3, <1>4, <1>5, <1>6

LEMMA CrashCrash ==
  ASSUME StoreInv, Crash
  PROVE  CrashInv'
<1>0. /\ Restart /\ \A t \in Threads : thread'[t].pc = "idle"
      /\ \A c \in Clients : ~ handle'[c].STARTDOC
  BY DEF Crash, Restart, Idle, NewHandle
<1> SUFFICES ASSUME NEW d \in Docs, job'[d].state = "queued" PROVE Survives(d)'
  BY DEF CrashInv, Queued
<1>1. PICK i \in Ids : Readable(i) /\ job'[d] = ReadShadowJob(i) /\ shadow'[i] = shadow[i]
  BY <1>0, ReadAgain
<1>2. /\ job'[d].JobId = i /\ job'[d].Status \subseteq {"PRINTED"}
      /\ job'[d].dwReboots = shadow[i].dwReboots /\ shadow[i].dwReboots \in Int
  BY <1>1 DEF ReadShadowJob, StoreInv, Types, ShadowRecords
<1>3. File(d)' = shadow[i] /\ Good(d)' BY <1>1, <1>2 DEF File, Good, Readable
<1>4. /\ ~ Is(d, "SPOOLING")' /\ ~ Is(d, "SHADOW_DELETED")' /\ ~ Is(d, "PENDING_DELETION")'
  BY <1>2 DEF Is
<1>5. \A t \in Threads : ~ Calls(thread'[t], d) /\ ~ Closes(thread'[t], d)
  BY <1>0 DEF Calls, CallPcs, Closes
<1>6. MarkOK(d)' /\ SpooledOK(d)' BY <1>4, <1>5 DEF MarkOK, SpooledOK
<1>7. WholeOK(d)' BY <1>1, <1>3, <1>5 DEF WholeOK, Readable
<1>8. TriesOK(d)'
  <2>1. Spoolers(d)' = {} BY <1>0 DEF Spoolers, Spools
  <2>2. One(Spoolers(d)' = {}) = 1 /\ One(Tried(d)') \in 0 .. 1 BY <2>1 DEF One
  <2>3. job'[d].dwReboots <= 1 /\ File(d)'.dwReboots <= 1 BY <1>1, <1>2, <1>3 DEF Readable
  <2> HIDE DEF One
  <2> QED BY <1>2, <2>2, <2>3 DEF TriesOK
<1> QED BY <1>6, <1>7, <1>8 DEF Survives

----------------------------------------------------------------------------
(* Every step.                                                              *)

\* The invariant is inductive, with that of the ids and that of the files.
LEMMA CrashStep ==
  ASSUME StartDocOnly, StoreInv, FileInv, CrashInv, [Next]_vars
  PROVE  CrashInv'
<1>0. StoreInv' /\ OwnIds /\ ShadowHeld BY StoreStep DEF FileInv
<1>1. ASSUME NEW t \in Threads, FileStep(t) PROVE CrashInv'
  <2>1. CASE Cancelled(t) \/ ShadowDeleted(t) BY <1>0, <2>1, CallsCrash
  <2>2. CASE Reenter(t) BY <1>0, <2>2, ReenterCrash
  <2>3. CASE RemoveSpool(t) \/ FreeId(t) \/ CloseShadowFile(t) BY <1>0, <2>3, FileCrash
  <2>4. CASE DeleteShadow(t) BY <1>0, <2>4, DeleteShadowCrash
  <2>5. CASE RemoveShadow(t) BY <1>0, <2>5, RemoveShadowCrash
  <2>6. CASE CreateShadowFile(t) BY <1>0, <2>6, CreateShadowCrash
  <2>7. CASE WriteShadowFile(t) BY <1>0, <2>7, WriteShadowCrash
  <2> QED BY <1>1, <2>1, <2>2, <2>3, <2>4, <2>5, <2>6, <2>7 DEF FileStep
<1>2. ASSUME NEW c \in Clients, ClientStep(c) PROVE CrashInv' BY <1>0, <1>2, ClientCrash
<1>3. CASE PortStep
  <2>1. CASE AssignJobs \/ PortQueries \/ PortSends \/ PortStops BY <1>0, <2>1, PortPlainCrash
  <2>2. CASE PortBegins BY <1>0, <2>2, PortBeginsCrash
  <2>3. CASE PortEnds BY <1>0, <2>3, PortEndsCrash
  <2> QED BY <1>3, <2>1, <2>2, <2>3 DEF PortStep, AssignJobs
<1>4. CASE Crash BY <1>4, CrashCrash
<1>5. CASE UNCHANGED vars
  <2>1. job' = job /\ thread' = thread /\ handle' = handle /\ shadow' = shadow /\ asked' = asked
    BY <1>5 DEF vars, disk, history
  <2> QED BY <2>1 DEF CrashInv, Survives, MarkOK, SpooledOK, WholeOK, TriesOK, Queued, Is, ToGo,
                      Waits, Good, File, Tried, Spoolers, Despools
<1> QED BY <1>1, <1>2, <1>3, <1>4, <1>5 DEF Next

LEMMA InitCrash == Init => CrashInv
BY DEF Init, CrashInv, Queued, NoJob

\* Only a crash counts as one.
LEMMA OnlyCrashes ==
  ASSUME StartDocOnly, StoreInv, [Next]_vars, crashes' # crashes
  PROVE  Crash
<1>1. \A t \in Threads : ~ FileStep(t)
  BY DEF FileStep, Cancelled, DeleteShadow, ShadowDeleted, RemoveShadow, RemoveSpool, FreeId,
         CreateShadowFile, WriteShadowFile, CloseShadowFile, Reenter, history
<1>2. ~ PortStep
  BY DEF PortStep, AssignJob, PortBegins, PortQueries, PortSends, PortStops, PortEnds, history
<1>3. ASSUME NEW c \in Clients, ClientStep(c) PROVE FALSE
  <2>1. \A d \in Docs : ~ StartDocPrinter(c, d) /\ ~ DeleteByUser(c, d) /\ ~ RestartJob(c, d)
    BY DEF StartDocPrinter, DeleteByUser, RestartJob, history
  <2>2. /\ ~ CreateSpoolFile(c) /\ ~ SpoolThisJob(c) /\ ~ SpoolThisJobFails(c)
        /\ ~ EndDocPrinter(c) /\ ~ ClosePrinter(c) /\ ~ Closed(c) /\ ~ UnblockJobs(c)
    BY DEF CreateSpoolFile, SpoolThisJob, SpoolThisJobFails, EndDocPrinter, ClosePrinter, Closed,
           UnblockJobs, history
  <2> QED BY <1>3, <2>1, <2>2, ClientCases
<1> QED BY <1>1, <1>2, <1>3 DEF Next, vars, history

LEMMA CrashSurvived ==
  ASSUME StartDocOnly, StoreInv, FileInv, CrashInv, [Next]_vars
  PROVE  [crashes' # crashes => \A d \in Docs : Acknowledged(d) => d \in Queued']_vars
<1> SUFFICES ASSUME crashes' # crashes, NEW d \in Docs, Acknowledged(d) PROVE d \in Queued'
  OBVIOUS
<1>1. Restart BY OnlyCrashes DEF Crash
<1> QED BY <1>1, AcknowledgedReadable, ReadAgain DEF Queued

\* A document whose EndDocPrinter has returned is in the queue again after a crash, whatever
\* other jobs, users and the port thread do to it and its shadow file meanwhile (WriteShadowJob
\* and DeleteJob give SplSem up around the file), and whatever failed; where documents come by
\* StartDocPrinter and the bitmap can grow.
THEOREM NothingAcknowledgedLost ==
  ASSUME StartDocOnly
  PROVE  Spec => AcknowledgedSurvives
<1>1. Init => StoreInv /\ FileInv /\ CrashInv BY InitStore, InitFiles, InitCrash
<1>2. StoreInv /\ FileInv /\ CrashInv /\ [Next]_vars => (StoreInv /\ FileInv /\ CrashInv)'
  BY StoreStep, FilesStep, CrashStep
<1>3. StoreInv /\ FileInv /\ CrashInv /\ [Next]_vars =>
        [crashes' # crashes => \A d \in Docs : Acknowledged(d) => d \in Queued']_vars
  BY CrashSurvived
<1> QED BY <1>1, <1>2, <1>3, PTL DEF Spec, AcknowledgedSurvives


----------------------------------------------------------------------------
(* A deletion is final where the port thread writes no shadow file: no       *)
(* document is rendered, and the printer does not keep its printed jobs.     *)
(* What the shadow file of a deleted job says is then up to its DeleteJob,   *)
(* and to the EndDocPrinter that comes to DeleteJob next.                    *)

PortOnlyReads == Emf = {} /\ ~ Keep

\* ReadShadowJob does not take the shadow file, or thread r deletes it, or writes it.
Unreadable(d) == ~ Good(d) \/ "PENDING_DELETION" \in File(d).Status
Handles(r, d) == r.doc = d /\ r.pc \in {"cancel", "deleteShadow"} \cup WritePcs

DeletedOK(d) ==
  Is(d, "PENDING_DELETION") =>
    /\ ~ Is(d, "RESTART")
    /\ Is(d, "SPOOLING") \/ Unreadable(d) \/ \E t \in Threads : Handles(thread[t], d)
DeletionInv == thread[Port].pc \notin WritePcs /\ \A d \in Queued : DeletedOK(d)

\* What a step in memory does to one document: it leaves one that is deleted as it was, or
\* has it in hand.
DeletionStays(t, e) ==
  Is(e, "PENDING_DELETION")' =>
    /\ ~ Is(e, "RESTART")'
    /\ \/ Is(e, "SPOOLING")' \/ Handles(thread'[t], e)
       \/ /\ Is(e, "PENDING_DELETION") /\ (Is(e, "SPOOLING") => Is(e, "SPOOLING")')
          /\ Handles(thread[t], e) => Handles(thread'[t], e)

LEMMA DeletionKeeps ==
  ASSUME DeletionInv, NEW t \in Threads, shadow' = shadow, thread'[Port].pc \notin WritePcs,
         \A u \in Threads : u # t => thread'[u] = thread[u],
         \A e \in Docs : job'[e].state = "queued" =>
           /\ DeletionStays(t, e)
           /\ Is(e, "SPOOLING")' \/ (job[e].state = "queued" /\ job'[e].JobId = job[e].JobId)
  PROVE  DeletionInv'
<1>1. ASSUME NEW e \in Docs, job'[e].state = "queued" PROVE DeletedOK(e)'
  <2>1. DeletionStays(t, e) BY <1>1
  <2>2. CASE Is(e, "SPOOLING")' BY <2>1, <2>2 DEF DeletionStays, DeletedOK
  <2>3. CASE ~ Is(e, "SPOOLING")'
    <3>1. job[e].state = "queued" /\ job'[e].JobId = job[e].JobId BY <1>1, <2>3
    <3>2. DeletedOK(e) BY <3>1 DEF DeletionInv, Queued
    <3>3. Unreadable(e)' <=> Unreadable(e) BY <3>1 DEF Unreadable, Good, File
    <3>4. \A u \in Threads : u = t \/ thread'[u] = thread[u] OBVIOUS
    <3> QED BY <2>1, <2>3, <3>2, <3>3, <3>4 DEF DeletionStays, DeletedOK
  <2> QED BY <2>2, <2>3
<1> QED BY <1>1 DEF DeletionInv, Queued

\* A step that leaves the marks of the queue, and what its thread has in hand.
SameDeletes ==
  \A e \in Docs : job'[e].state = "queued" =>
    /\ job[e].state = "queued" /\ job'[e].JobId = job[e].JobId
    /\ Is(e, "PENDING_DELETION")' =>
         Is(e, "PENDING_DELETION") /\ (Is(e, "RESTART")' => Is(e, "RESTART"))
    /\ Is(e, "SPOOLING") => Is(e, "SPOOLING")'

LEMMA QuietDeletion ==
  ASSUME DeletionInv, NEW t \in Threads, shadow' = shadow, Moderate(t),
         \A e \in Docs : Handles(thread[t], e) => Handles(thread'[t], e), SameDeletes
  PROVE  DeletionInv'
<1>1. ASSUME NEW e \in Docs, job'[e].state = "queued"
      PROVE  DeletionStays(t, e) /\ job[e].state = "queued" /\ job'[e].JobId = job[e].JobId
  BY <1>1 DEF SameDeletes, DeletionStays, DeletionInv, Queued, DeletedOK
<1>2. thread'[Port].pc \notin WritePcs
  <2>1. Port \in Threads /\ thread[Port].pc \notin WritePcs BY DEF Threads, DeletionInv
  <2> QED BY <2>1 DEF Moderate
<1>3. \A u \in Threads : u # t => thread'[u] = thread[u] BY DEF Moderate
<1> QED BY <1>1, <1>2, <1>3, DeletionKeeps

LEMMA JobsDelete == ASSUME UNCHANGED job PROVE SameDeletes
BY DEF SameDeletes, Is

LEMMA OneDeletes ==
  ASSUME StoreInv, NEW d \in Docs, NEW k, SetJob(d, k),
         k.state = "queued" =>
           /\ job[d].state = "queued" /\ k.JobId = job[d].JobId
           /\ "PENDING_DELETION" \in k.Status =>
                Is(d, "PENDING_DELETION") /\ ("RESTART" \in k.Status => Is(d, "RESTART"))
           /\ Is(d, "SPOOLING") => "SPOOLING" \in k.Status
  PROVE  SameDeletes
<1>1. job'[d] = k /\ \A e \in Docs : e # d => job'[e] = job[e] BY Known DEF SetJob, CoreTypes
<1>2. ASSUME NEW e \in Docs, job'[e].state = "queued"
      PROVE  /\ job[e].state = "queued" /\ job'[e].JobId = job[e].JobId
             /\ Is(e, "PENDING_DELETION")' =>
                  Is(e, "PENDING_DELETION") /\ (Is(e, "RESTART")' => Is(e, "RESTART"))
             /\ Is(e, "SPOOLING") => Is(e, "SPOOLING")'
  <2>1. CASE e # d BY <1>1, <1>2, <2>1 DEF Is
  <2>2. CASE e = d BY <1>1, <1>2, <2>2 DEF Is
  <2> QED BY <2>1, <2>2
<1> QED BY <1>2 DEF SameDeletes

\* DeleteJob has the job in hand,
Taken(t, d) ==
  job'[d].state = "queued" /\ Is(d, "PENDING_DELETION")' =>
    ~ Is(d, "RESTART")' /\ (Is(d, "SPOOLING")' \/ Handles(thread'[t], d))

LEMMA TakenBy ==
  ASSUME StoreInv, NEW t \in Threads, NEW d \in Docs, NEW k, NEW r,
         SetJob(d, k), thread' = [thread EXCEPT ![t] = r],
         k.state = "queued" /\ "PENDING_DELETION" \in k.Status =>
           "RESTART" \notin k.Status /\ ("SPOOLING" \in k.Status \/ Handles(r, d))
  PROVE  Taken(t, d)
<1>1. job'[d] = k /\ thread'[t] = r BY Known DEF SetJob, CoreTypes
<1> QED BY <1>1 DEF Taken, Is

LEMMA UnlessPrintingTakes ==
  ASSUME StoreInv, NEW t \in Threads, NEW d \in Docs, NEW j \in JobRecords, NEW then,
         "PENDING_DELETION" \in j.Status => "RESTART" \notin j.Status,
         DeleteUnlessPrinting(t, d, j, then)
  PROVE  Taken(t, d)
<1>1. CASE j.cRef > 0
  <2> DEFINE s == j.Status \cup {"SHADOW_DELETED"}
             k == [j EXCEPT !.Status = s, !.cRef = @ + 1]
             r == [pc |-> "deleteShadow", doc |-> d, id |-> j.JobId, then |-> then]
  <2>1. SetJob(d, k) /\ thread' = [thread EXCEPT ![t] = r]
    BY <1>1 DEF DeleteUnlessPrinting
  <2>2. k.Status = s BY DEF JobRecords
  <2>3. Handles(r, d) BY DEF Handles
  <2>4. "PENDING_DELETION" \in s => "RESTART" \notin s OBVIOUS
  <2> HIDE DEF s, k, r
  <2> QED BY <2>1, <2>2, <2>3, <2>4, TakenBy
<1>2. CASE ~ (j.cRef > 0) /\ "SPOOLING" \in j.Status
  <2> DEFINE r == Resumed(t, then)
  <2>1. SetJob(d, j) /\ thread' = [thread EXCEPT ![t] = r]
    BY <1>2 DEF DeleteUnlessPrinting, Resume
  <2> HIDE DEF r
  <2> QED BY <1>2, <2>1, TakenBy
<1>3. CASE ~ (j.cRef > 0) /\ "SPOOLING" \notin j.Status
  <2> DEFINE k == [j EXCEPT !.state = "gone"]
  <2>1. k.state = "gone" BY DEF JobRecords
  <2>2. SetJob(d, k) BY <1>3 DEF DeleteUnlessPrinting
  <2> HIDE DEF k
  <2>3. job'[d] = k BY <2>2, Known DEF SetJob, CoreTypes
  <2> QED BY <2>1, <2>3 DEF Taken
<1> QED BY <1>1, <1>2, <1>3

LEMMA DeleteJobTakes ==
  ASSUME StoreInv, NEW t \in Threads, NEW d \in Docs, NEW j \in JobRecords, NEW then,
         "PENDING_DELETION" \in j.Status => "RESTART" \notin j.Status,
         DeleteJob(t, d, j, then)
  PROVE  Taken(t, d)
<1> DEFINE s == j.Status \cup {"PENDING_DELETION"}
<1>0. s \in SUBSET Flags /\ ("RESTART" \in s <=> "RESTART" \in j.Status)
  BY DEF JobRecords, Flags
<1>1. CASE "RESTART" \in j.Status
  <2> DEFINE r == Resumed(t, then)
  <2>1. SetJob(d, j) /\ thread' = [thread EXCEPT ![t] = r] BY <1>1 DEF DeleteJob, Resume
  <2> HIDE DEF r
  <2> QED BY <1>1, <2>1, TakenBy
<1>2. CASE "RESTART" \notin j.Status /\ "PRINTING" \in j.Status /\ "PENDING_DELETION" \notin j.Status
  <2> DEFINE k == [j EXCEPT !.Status = s, !.cRef = @ + 1]
             r == [pc |-> "cancel", doc |-> d, id |-> j.JobId, then |-> then]
  <2>1. SetJob(d, k) /\ thread' = [thread EXCEPT ![t] = r] BY <1>2 DEF DeleteJob
  <2>2. k.Status = s BY DEF JobRecords
  <2>3. Handles(r, d) BY DEF Handles
  <2> HIDE DEF s, k, r
  <2> QED BY <1>0, <1>2, <2>1, <2>2, <2>3, TakenBy
<1>3. CASE "RESTART" \notin j.Status /\ ~ ("PRINTING" \in j.Status /\ "PENDING_DELETION" \notin j.Status)
  <2> DEFINE k == [j EXCEPT !.Status = s]
  <2>1. DeleteUnlessPrinting(t, d, k, then) BY <1>3 DEF DeleteJob
  <2> HIDE DEF s
  <2>2. k \in JobRecords /\ k.Status = s BY <1>0 DEF JobRecords
  <2> HIDE DEF k
  <2> QED BY <1>0, <1>3, <2>1, <2>2, UnlessPrintingTakes
<1> QED BY <1>1, <1>2, <1>3

\* or the job is left.
LEMMA LeftDeletes ==
  ASSUME StoreInv, StoreInv', DeletionInv, NEW t \in Threads, NEW d \in Docs, NEW j, NEW then,
         Left(t, d, j, then), InMemory(t), job[d].state = "queued", AtDoc(t, d),
         t = Port => thread'[Port].pc \notin WritePcs,
         job'[d].state = "queued" => DeletionStays(t, d)
  PROVE  DeletionInv'
<1>1. shadow' = shadow /\ Memory(t) BY DEF InMemory, disk
<1>2. /\ \A u \in Threads : u # t => thread'[u] = thread[u]
      /\ \A e \in Docs : job[e].state = "queued" /\ job'[e].state = "queued" =>
           job'[e].JobId = job[e].JobId
  BY <1>1, MemoryFacts
<1>3. ASSUME NEW e \in Docs, e # d, job'[e].state = "queued"
      PROVE  job[e].state = "queued" /\ DeletionStays(t, e)
  <2>1. job'[e] = job[e] BY <1>3 DEF Left
  <2>2. DeletedOK(e) BY <1>3, <2>1 DEF DeletionInv, Queued
  <2>3. ~ Handles(thread[t], e) BY <1>3 DEF AtDoc, Handles, CallPcs, WritePcs
  <2> QED BY <1>3, <2>1, <2>2, <2>3 DEF DeletionStays, DeletedOK, Is
<1>4. thread'[Port].pc \notin WritePcs BY <1>2 DEF DeletionInv, Threads
<1> QED BY <1>1, <1>2, <1>3, <1>4, DeletionKeeps

LEMMA TakenDeletes ==
  ASSUME NEW t, NEW d, Taken(t, d), job'[d].state = "queued"
  PROVE  DeletionStays(t, d)
BY DEF Taken, DeletionStays

\* EndDocPrinter, its shadow file written, comes to DeleteJob.
LEMMA EndDocRestTakes ==
  ASSUME StoreInv, NEW t \in Threads, NEW d \in Docs, NEW j \in JobRecords,
         "PENDING_DELETION" \in j.Status => "RESTART" \notin j.Status, EndDocPrinterRest(t, d, j)
  PROVE  Taken(t, d)
<1> DEFINE n == j.cRef - 1
           k == [j EXCEPT !.cRef = n]
           r == Resumed(t, "idle")
<1>1. n \in Int BY DEF JobRecords
<1>2. IF "PENDING_DELETION" \in j.Status THEN DeleteJob(t, d, k, "idle")
      ELSE SetJob(d, k) /\ thread' = [thread EXCEPT ![t] = r]
  BY DEF EndDocPrinterRest, Resume
<1> HIDE DEF n, r
<1>3. k \in JobRecords /\ k.Status = j.Status BY <1>1 DEF JobRecords
<1> HIDE DEF k
<1>4. CASE "PENDING_DELETION" \in j.Status BY <1>2, <1>3, <1>4, DeleteJobTakes
<1>5. CASE "PENDING_DELETION" \notin j.Status BY <1>2, <1>3, <1>5, TakenBy
<1> QED BY <1>4, <1>5

LEMMA WriteShadowJobTakes ==
  ASSUME StoreInv, NEW t \in Threads, NEW d \in Docs, NEW j \in JobRecords,
         "PENDING_DELETION" \in j.Status => "RESTART" \notin j.Status,
         WriteShadowJob(t, d, j, "endDoc")
  PROVE  Taken(t, d)
<1>1. CASE "SHADOW_DELETED" \in j.Status
  BY <1>1, EndDocRestTakes DEF WriteShadowJob, ShadowWritten
<1>2. CASE "SHADOW_DELETED" \notin j.Status
  <2> DEFINE r == [pc |-> "createFile", doc |-> d, id |-> j.JobId, then |-> "endDoc"]
  <2>1. SetJob(d, j) /\ thread' = [thread EXCEPT ![t] = r] BY <1>2 DEF WriteShadowJob
  <2>2. Handles(r, d) BY DEF Handles, WritePcs
  <2> HIDE DEF r
  <2> QED BY <2>1, <2>2, TakenBy
<1> QED BY <1>1, <1>2

----------------------------------------------------------------------------
(* The steps in memory.                                                     *)

\* DeleteJob after a call without SplSem,
LEMMA CallsDelete ==
  ASSUME StoreInv, StoreInv', DeletionInv, NEW t \in Threads, Cancelled(t) \/ ShadowDeleted(t)
  PROVE  DeletionInv'
<1>0. thread[t].pc \in CallPcs BY DEF Cancelled, ShadowDeleted, At, CallPcs
<1>1. PICK d \in Docs : d = thread[t].doc BY <1>0, Known DEF ThreadOK, CallPcs
<1>2. /\ job[d] \in JobRecords /\ job[d].cRef - 1 \in Int /\ job[d].state = "queued"
      /\ thread[t].then \in {"idle", "sent"} /\ AtDoc(t, d) /\ Calls(thread[t], d)
      /\ Returns(t, d, thread[t].then)
  BY <1>0, <1>1, AtJobs, Known DEF Referring, ThreadOK, AtDoc, Calls, Returns
<1>3. InMemory(t) BY CallsInMemory
<1>4. DeletedOK(d) BY <1>2 DEF DeletionInv, Queued
<1>5. ASSUME NEW j, Left(t, d, j, thread[t].then), job'[d].state = "queued" => DeletionStays(t, d)
      PROVE  DeletionInv'
  <2>1. thread'[t].pc \notin WritePcs BY <1>2, <1>5 DEF Left, Remains
  <2> QED BY <1>2, <1>3, <1>5, <2>1, LeftDeletes
<1>6. CASE Cancelled(t)
  <2> DEFINE n == job[d].cRef - 1
             j == [job[d] EXCEPT !.cRef = n]
  <2>1. DeleteUnlessPrinting(t, d, j, thread[t].then) BY <1>1, <1>6 DEF Cancelled
  <2>2. n \in Int BY <1>2
  <2> HIDE DEF n
  <2>3. j \in JobRecords /\ j.Status = job[d].Status BY <1>2, <2>2 DEF JobRecords
  <2> HIDE DEF j
  <2>4. Left(t, d, j, thread[t].then) BY <1>2, <2>1, <2>3, DeleteUnlessPrintingLeft
  <2>5. "PENDING_DELETION" \in j.Status => "RESTART" \notin j.Status
    BY <1>4, <2>3 DEF DeletedOK, Is
  <2>6. Taken(t, d) BY <2>1, <2>3, <2>5, UnlessPrintingTakes
  <2> QED BY <1>5, <2>4, <2>6, TakenDeletes
<1>7. CASE ShadowDeleted(t)
  <2> DEFINE n == job[d].cRef - 1
             s == IF At(t, "shadowKept") THEN job[d].Status \ {"SHADOW_DELETED"} ELSE job[d].Status
             j == [job[d] EXCEPT !.cRef = n, !.Status = s]
  <2>1. SetJob(d, j) /\ Resume(t, thread[t].then) BY <1>1, <1>7 DEF ShadowDeleted
  <2>2. \A f \in {"PENDING_DELETION", "SPOOLING", "RESTART"} : f \in s <=> Is(d, f) BY DEF Is
  <2> HIDE DEF n, s
  <2>3. j.Status = s BY <1>2 DEF JobRecords
  <2> HIDE DEF j
  <2>4. Left(t, d, j, thread[t].then) BY <1>2, <2>1, ResumeLeft
  <2>5. job'[d] = j BY <2>1, Known DEF SetJob, CoreTypes
  <2>6. ~ Handles(thread[t], d) BY <1>7 DEF ShadowDeleted, At, Handles, WritePcs
  <2>7. DeletionStays(t, d) BY <1>4, <2>2, <2>3, <2>5, <2>6 DEF DeletionStays, DeletedOK, Is
  <2> QED BY <1>5, <2>4, <2>7
<1> QED BY <1>6, <1>7

\* and what follows WriteShadowJob.
LEMMA ReenterDelete ==
  ASSUME StoreInv, StoreInv', DeletionInv, NEW t \in Threads, Reenter(t)
  PROVE  DeletionInv'
<1>0. thread[t].pc \in WritePcs /\ t # Port BY DEF Reenter, WritePcs, DeletionInv
<1>1. PICK d \in Docs : d = thread[t].doc BY <1>0, Known DEF ThreadOK, WritePcs
<1>2. /\ job[d] \in JobRecords /\ job[d].state = "queued" /\ AtDoc(t, d)
      /\ thread[t].then = "endDoc"
  BY <1>0, <1>1, AtJobs, Known DEF Referring, ThreadOK, AtDoc
<1>3. DeletedOK(d) BY <1>2 DEF DeletionInv, Queued
<1> DEFINE s == IF At(t, "written") THEN job[d].Status \ {"SHADOW_DELETED"} ELSE job[d].Status
           j == [job[d] EXCEPT !.Status = s]
<1>4. EndDocPrinterRest(t, d, j) BY <1>1, <1>2 DEF Reenter, ShadowWritten
<1>5. s \in SUBSET Flags /\ \A f \in {"PENDING_DELETION", "RESTART"} : f \in s <=> Is(d, f)
  BY <1>2 DEF JobRecords, Is
<1> HIDE DEF s
<1>6. j \in JobRecords /\ j.Status = s BY <1>2, <1>5 DEF JobRecords
<1> HIDE DEF j
<1>7. InMemory(t) BY ReenterInMemory
<1>8. Left(t, d, j, "endDoc") BY <1>4, <1>6, EndDocRestLeft
<1>9. "PENDING_DELETION" \in j.Status => "RESTART" \notin j.Status
  BY <1>3, <1>5, <1>6 DEF DeletedOK
<1>10. Taken(t, d) BY <1>4, <1>6, <1>9, EndDocRestTakes
<1> QED BY <1>0, <1>2, <1>7, <1>8, <1>10, TakenDeletes, LeftDeletes

LEMMA FileDelete ==
  ASSUME StoreInv, DeletionInv, NEW t \in Threads, RemoveSpool(t) \/ FreeId(t) \/ CloseShadowFile(t)
  PROVE  DeletionInv'
<1>1. UNCHANGED <<job, shadow>> /\ thread[t].pc \in {"removeSpool", "freeId", "closeFile"}
  BY DEF RemoveSpool, FreeId, CloseShadowFile, disk, At
<1>2. /\ Moderate(t)
      /\ thread[t].pc = "closeFile" => thread'[t].pc = "written" /\ thread'[t].doc = thread[t].doc
  BY FileMoves DEF At
<1>3. \A e \in Docs : Handles(thread[t], e) => Handles(thread'[t], e)
  BY <1>1, <1>2 DEF Handles, WritePcs
<1> QED BY <1>1, <1>2, <1>3, JobsDelete, QuietDeletion

\* A step of a thread that has nothing in hand.
LEMMA IdleDelete ==
  ASSUME DeletionInv, NEW t \in Threads, shadow' = shadow, Moderate(t), SameDeletes,
         thread[t].pc \notin {"cancel", "deleteShadow"} \cup WritePcs
  PROVE  DeletionInv'
<1>1. \A e \in Docs : ~ Handles(thread[t], e) BY DEF Handles
<1> QED BY <1>1, QuietDeletion

\* A restart is refused to a job that is deleted.
LEMMA UsersDelete ==
  ASSUME StoreInv, DeletionInv, NEW c \in Clients, UnblockJobs(c) \/ \E d \in Docs : RestartJob(c, d)
  PROVE  DeletionInv'
<1>0. /\ c \in Threads /\ c # Port /\ UNCHANGED <<thread, shadow>> /\ thread[c].pc = "idle"
  BY ConstantsAssumption DEF Threads, UnblockJobs, RestartJob, disk, At
<1>1. Moderate(c) /\ thread[c].pc \notin {"cancel", "deleteShadow"} \cup WritePcs
  BY <1>0 DEF Moderate, CallPcs, WritePcs
<1>2. SameDeletes
  <2>1. CASE UnblockJobs(c)
    <3>1. ASSUME NEW e \in Docs
          PROVE  /\ job'[e].state = job[e].state /\ job'[e].JobId = job[e].JobId
                 /\ job'[e].Status = job[e].Status \ {"BLOCKED_DEVQ"}
      <4>1. job'[e] = [job[e] EXCEPT !.Status = job[e].Status \ {"BLOCKED_DEVQ"}]
        BY <2>1 DEF UnblockJobs
      <4>2. job[e] \in JobRecords BY Known
      <4> QED BY <4>1, <4>2 DEF JobRecords
    <3> QED BY <3>1 DEF SameDeletes, Is
  <2>2. ASSUME NEW d \in Docs, RestartJob(c, d) PROVE SameDeletes
    <3>0. job[d] \in JobRecords /\ job[d].state = "queued" /\ ~ Is(d, "PENDING_DELETION")
      BY <2>2, Known DEF RestartJob, Queued
    <3> DEFINE x == IF "DESPOOLING" \in job[d].Status THEN {} ELSE {"PRINTED", "BLOCKED_DEVQ"}
               s == (job[d].Status \cup {"RESTART"}) \ x
               k == [job[d] EXCEPT !.Status = s]
    <3>1. SetJob(d, k) BY <2>2 DEF RestartJob
    <3>2. \A f \in {"SPOOLING", "PENDING_DELETION"} : f \in s <=> Is(d, f) BY DEF Is
    <3> HIDE DEF s
    <3>3. k.Status = s /\ k.JobId = job[d].JobId BY <3>0 DEF JobRecords
    <3> HIDE DEF k
    <3> QED BY <3>0, <3>1, <3>2, <3>3, OneDeletes
  <2> QED BY <2>1, <2>2
<1> QED BY <1>0, <1>1, <1>2, IdleDelete

LEMMA RestsDelete ==
  ASSUME StoreInv, DeletionInv, NEW c \in Clients,
         \/ CreateSpoolFile(c) \/ SpoolThisJobFails(c) \/ ClosePrinter(c) \/ Closed(c)
         \/ \E d \in Docs : StartDocPrinter(c, d)
  PROVE  DeletionInv'
<1>1. /\ c \in Threads /\ UNCHANGED shadow
      /\ thread[c].pc \notin {"cancel", "deleteShadow"} \cup WritePcs
  BY DEF Threads, CreateSpoolFile, SpoolThisJobFails, ClosePrinter, Closed, StartDocPrinter, disk,
         At, WritePcs
<1>2. Moderate(c) /\ \A e \in Docs : job'[e].state = "queued" => job'[e] = job[e] BY RestsMove
<1>3. SameDeletes BY <1>2 DEF SameDeletes, Is
<1> QED BY <1>1, <1>2, <1>3, IdleDelete

\* A job that is made is being spooled.
LEMMA SpoolDelete ==
  ASSUME StoreInv, DeletionInv, NEW c \in Clients, SpoolThisJob(c)
  PROVE  DeletionInv'
<1>0. /\ c \in Threads /\ c # Port /\ thread[c].pc = "queue" /\ UNCHANGED shadow
      /\ thread[c].pc \notin {"cancel", "deleteShadow"} \cup WritePcs
  BY ConstantsAssumption DEF Threads, SpoolThisJob, disk, At, WritePcs
<1>1. PICK d \in Docs : d = thread[c].doc /\ job[d] \in JobRecords
  BY <1>0, Known DEF ThreadOK, SubmitPcs
<1>2. PICK id : thread[c].id = id OBVIOUS
<1>3. CASE SetJob(d, [job[d] EXCEPT !.state = "gone"]) /\ GoTo(c, "deleteFile")
  <2> DEFINE k == [job[d] EXCEPT !.state = "gone"]
  <2>1. Moderate(c) BY <1>0, <1>3, GoToModerate DEF CallPcs, WritePcs
  <2>2. SetJob(d, k) /\ k.state # "queued" BY <1>1, <1>3 DEF JobRecords
  <2> HIDE DEF k
  <2>3. SameDeletes BY <2>2, OneDeletes
  <2> QED BY <1>0, <2>1, <2>3, IdleDelete
<1>4. CASE SetJob(d, NewJob(d, id, {"SPOOLING"})) /\ Resume(c, "idle")
  <2> DEFINE k == NewJob(d, id, {"SPOOLING"})
  <2>1. k.Status = {"SPOOLING"} /\ SetJob(d, k) BY <1>4 DEF NewJob
  <2> HIDE DEF k
  <2>2. job'[d] = k /\ \A e \in Docs : e # d => job'[e] = job[e]
    BY <2>1, Known DEF SetJob, CoreTypes
  <2>3. Moderate(c) BY <1>0, <1>4, RestsModerate
  <2>4. /\ \A u \in Threads : u # c => thread'[u] = thread[u]
        /\ thread'[Port].pc \notin WritePcs
    BY <1>0, <2>3 DEF Moderate, DeletionInv, Threads
  <2>5. ASSUME NEW e \in Docs, job'[e].state = "queued"
        PROVE  /\ DeletionStays(c, e)
               /\ Is(e, "SPOOLING")' \/ (job[e].state = "queued" /\ job'[e].JobId = job[e].JobId)
    <3>1. CASE e = d BY <2>1, <2>2, <3>1 DEF DeletionStays, Is
    <3>2. CASE e # d
      <4>1. job'[e] = job[e] BY <2>2, <3>2
      <4>2. DeletedOK(e) BY <2>5, <4>1 DEF DeletionInv, Queued
      <4>3. ~ Handles(thread[c], e) BY <1>0 DEF Handles
      <4> QED BY <2>5, <4>1, <4>2, <4>3 DEF DeletionStays, DeletedOK, Is
    <3> QED BY <3>1, <3>2
  <2> QED BY <1>0, <2>4, <2>5, DeletionKeeps
<1> QED BY <1>1, <1>2, <1>3, <1>4 DEF SpoolThisJob

\* EndDocPrinter of a job that was deleted while it was spooled has it in hand,
LEMMA EndDocDelete ==
  ASSUME StoreInv, StoreInv', DeletionInv, NEW c \in Clients, EndDocPrinter(c), InMemory(c)
  PROVE  DeletionInv'
<1>0. c \in Threads /\ c # Port BY ConstantsAssumption DEF Threads
<1>1. thread[c].pc = "idle" /\ handle[c].STARTDOC BY DEF EndDocPrinter, At
<1>2. PICK d \in Docs : d = handle[c].pIniJob /\ Spools(handle[c], d)
  BY <1>1, Known DEF HandleOK, Spools
<1>3. job[d].state = "queued" /\ job[d] \in JobRecords BY <1>0, <1>2, ReferredQueued, Known
<1> DEFINE s == job[d].Status \ {"SPOOLING"}
           j == [job[d] EXCEPT !.Status = s]
<1>4. WriteShadowJob(c, d, j, "endDoc") BY <1>2 DEF EndDocPrinter
<1>5. s \in SUBSET Flags /\ \A f \in {"PENDING_DELETION", "RESTART"} : f \in s <=> Is(d, f)
  BY <1>3 DEF JobRecords, Is
<1> HIDE DEF s
<1>6. j \in JobRecords /\ j.Status = s BY <1>3, <1>5 DEF JobRecords
<1> HIDE DEF j
<1>7. Left(c, d, j, "endDoc") BY <1>0, <1>4, <1>6, WriteShadowJobLeft
<1>8. "PENDING_DELETION" \in j.Status => "RESTART" \notin j.Status
  BY <1>3, <1>5, <1>6 DEF DeletionInv, DeletedOK, Queued
<1>9. Taken(c, d) BY <1>0, <1>4, <1>6, <1>8, WriteShadowJobTakes
<1>10. AtDoc(c, d) BY <1>1 DEF AtDoc, CallPcs, WritePcs
<1> QED BY <1>0, <1>3, <1>7, <1>9, <1>10, TakenDeletes, LeftDeletes

\* and so has a user, who takes a restart back.
LEMMA DeleteDelete ==
  ASSUME StoreInv, StoreInv', DeletionInv, NEW c \in Clients, NEW d \in Docs, DeleteByUser(c, d),
         InMemory(c)
  PROVE  DeletionInv'
<1>0. c \in Threads /\ c # Port BY ConstantsAssumption DEF Threads
<1>1. thread[c].pc = "idle" /\ job[d].state = "queued" /\ job[d] \in JobRecords
  BY Known DEF DeleteByUser, At, Queued
<1> DEFINE s == job[d].Status \ {"RESTART"}
           j == [job[d] EXCEPT !.Status = s]
<1>2. DeleteJob(c, d, j, "idle") BY DEF DeleteByUser
<1>3. s \in SUBSET Flags /\ "RESTART" \notin s BY <1>1 DEF JobRecords
<1> HIDE DEF s
<1>4. j \in JobRecords /\ j.Status = s BY <1>1, <1>3 DEF JobRecords
<1> HIDE DEF j
<1>5. Left(c, d, j, "idle") BY <1>0, <1>2, <1>4, DeleteJobLeft DEF Returns
<1>6. Taken(c, d) BY <1>0, <1>2, <1>3, <1>4, DeleteJobTakes
<1>7. AtDoc(c, d) BY <1>1 DEF AtDoc, CallPcs, WritePcs
<1> QED BY <1>0, <1>1, <1>5, <1>6, <1>7, TakenDeletes, LeftDeletes

LEMMA ClientDelete ==
  ASSUME StartDocOnly, StoreInv, StoreInv', DeletionInv, NEW c \in Clients, ClientStep(c)
  PROVE  DeletionInv'
<1>1. CASE CreateSpoolFile(c) \/ SpoolThisJobFails(c) \/ ClosePrinter(c) \/ Closed(c)
           \/ \E d \in Docs : StartDocPrinter(c, d)
  BY <1>1, RestsDelete
<1>2. CASE UnblockJobs(c) \/ \E d \in Docs : RestartJob(c, d) BY <1>2, UsersDelete
<1>3. CASE SpoolThisJob(c) BY <1>3, SpoolDelete
<1>4. CASE EndDocPrinter(c) BY <1>4, EndDocInMemory, EndDocDelete
<1>5. CASE \E d \in Docs : DeleteByUser(c, d) BY <1>5, DeleteInMemory, DeleteDelete
<1> QED BY <1>1, <1>2, <1>3, <1>4, <1>5, ClientCases

\* The port thread.
LEMMA PortDelete ==
  ASSUME PortOnlyReads, StoreInv, StoreInv', DeletionInv, PortStep
  PROVE  DeletionInv'
<1>0. /\ Port \in Threads /\ UNCHANGED shadow /\ InMemory(Port)
      /\ thread[Port].pc \in {"idle"} \cup PortPcs
      /\ thread[Port].pc \notin {"cancel", "deleteShadow"} \cup WritePcs
  BY PortInMemory DEF Threads, PortStep, AssignJob, PortQueries, PortSends, PortStops, PortBegins,
                      PortEnds, disk, At, PortPcs, WritePcs
<1>1. ASSUME Moderate(Port), SameDeletes PROVE DeletionInv' BY <1>0, <1>1, IdleDelete
<1>2. ASSUME NEW pc \in PortPcs \ {"assigned"}, GoTo(Port, pc) PROVE Moderate(Port)
  <2>1. pc \notin CallPcs \cup WritePcs BY DEF PortPcs, CallPcs, WritePcs
  <2> QED BY <1>0, <1>2, <2>1, GoToModerate
\* Some of the status of the job changes.
<1>3. ASSUME NEW d \in Docs, job[d].state = "queued", NEW k, SetJob(d, k), k.JobId = job[d].JobId,
             \A f \in {"SPOOLING", "PENDING_DELETION"} : f \in k.Status <=> Is(d, f),
             "RESTART" \in k.Status => Is(d, "RESTART")
      PROVE  SameDeletes
  BY <1>3, OneDeletes
<1>4. ASSUME thread[Port].pc \in PortPcs
      PROVE  \E d \in Docs : /\ d = thread[Port].doc /\ job[d].state = "queued" /\ job[d] \in JobRecords
                             /\ AtDoc(Port, d)
  BY <1>4, PortBusyKnown
<1>5. ASSUME NEW d \in Docs, job[d].state = "queued", AtDoc(Port, d), NEW j, NEW then \in {"idle", "sent"},
             Left(Port, d, j, then), job'[d].state = "queued" => DeletionStays(Port, d)
      PROVE  DeletionInv'
  <2>1. thread'[Port].pc \notin WritePcs BY <1>5 DEF Left, Remains
  <2> QED BY <1>0, <1>5, <2>1, LeftDeletes
<1>6. ASSUME NEW d \in Docs, AssignJob(d) PROVE DeletionInv'
  <2> DEFINE s == job[d].Status \cup {"DESPOOLING"}
             n == job[d].cRef + 1
             k == [job[d] EXCEPT !.Status = s, !.cRef = n]
             r == [Idle EXCEPT !.pc = "assigned", !.doc = d]
  <2>1. job[d].state = "queued" /\ job[d] \in JobRecords /\ thread[Port].pc = "idle"
    BY <1>6, Known DEF AssignJob, Queued, At
  <2>2. SetJob(d, k) /\ thread' = [thread EXCEPT ![Port] = r] BY <1>6 DEF AssignJob
  <2>3. r.pc = "assigned" /\ \A f \in {"SPOOLING", "PENDING_DELETION", "RESTART"} : f \in s <=> Is(d, f)
    BY DEF Is, Idle
  <2> HIDE DEF s, n, r
  <2>4. k.Status = s /\ k.JobId = job[d].JobId BY <2>1 DEF JobRecords
  <2> HIDE DEF k
  <2>5. SameDeletes BY <1>3, <2>1, <2>2, <2>3, <2>4
  <2>6. thread'[Port] = r /\ \A u \in Threads : u # Port => thread'[u] = thread[u]
    BY <1>0, <2>2, Known DEF CoreTypes
  <2>7. Moderate(Port) BY <2>1, <2>3, <2>6 DEF Moderate, CallPcs, WritePcs, PortPcs, Attempting
  <2> QED BY <1>1, <2>5, <2>7
<1>7. CASE PortBegins
  <2>0. PICK d \in Docs : d = thread[Port].doc /\ job[d].state = "queued" /\ job[d] \in JobRecords
    BY <1>4, <1>7 DEF PortBegins, At, PortPcs
  <2> DEFINE k == Attempt(d, job[d])
             r == [Idle EXCEPT !.pc = "query", !.doc = d]
  <2>1. SetJob(d, k) /\ thread' = [thread EXCEPT ![Port] = r]
    BY <1>7, <2>0 DEF PortBegins, PortOnlyReads, ShadowWritten
  <2>2. k.Status = job[d].Status \ {"RESTART"} /\ k.JobId = job[d].JobId BY <2>0, AttemptJob
  <2>3. r.pc = "query" BY DEF Idle
  <2> HIDE DEF k, r
  <2>4. SameDeletes BY <1>3, <2>0, <2>1, <2>2 DEF Is
  <2>5. thread'[Port] = r /\ \A u \in Threads : u # Port => thread'[u] = thread[u]
    BY <1>0, <2>1, Known DEF CoreTypes
  <2>6. ~ Attempting(thread[Port])
    BY <1>7 DEF PortBegins, At, Attempting, PortPcs, CallPcs, WritePcs
  <2>7. Moderate(Port) BY <2>3, <2>5, <2>6 DEF Moderate, CallPcs, WritePcs
  <2> QED BY <1>1, <2>4, <2>7
<1>8. CASE PortQueries
  <2>1. PICK d \in Docs : d = thread[Port].doc /\ job[d].state = "queued" /\ job[d] \in JobRecords
    BY <1>4, <1>8 DEF PortQueries, At, PortPcs
  <2> DEFINE s == job[d].Status \cup {"PRINTING"}
             k == [job[d] EXCEPT !.Status = s]
  <2>2. \A f \in {"SPOOLING", "PENDING_DELETION", "RESTART"} : f \in s <=> Is(d, f) BY DEF Is
  <2>3. UNCHANGED job \/ SetJob(d, k) BY <1>8, <2>1 DEF PortQueries
  <2>4. \E pc \in PortPcs \ {"assigned"} : GoTo(Port, pc) BY <1>8 DEF PortQueries, PortPcs
  <2> HIDE DEF s
  <2>5. k.Status = s /\ k.JobId = job[d].JobId BY <2>1 DEF JobRecords
  <2> HIDE DEF k
  <2>6. SameDeletes BY <1>3, <2>1, <2>2, <2>3, <2>5, JobsDelete
  <2> QED BY <1>1, <1>2, <2>4, <2>6
<1>9. CASE PortStops
  <2>1. PICK d \in Docs : d = thread[Port].doc /\ job[d].state = "queued" /\ job[d] \in JobRecords
    BY <1>4, <1>9 DEF PortStops, At, PortPcs
  <2> DEFINE s == job[d].Status \ {"PRINTING"}
             k == [job[d] EXCEPT !.Status = s]
  <2>2. \A f \in {"SPOOLING", "PENDING_DELETION", "RESTART"} : f \in s <=> Is(d, f) BY DEF Is
  <2>3. SetJob(d, k) BY <1>9, <2>1 DEF PortStops
  <2>4. "end" \in PortPcs \ {"assigned"} /\ GoTo(Port, "end") BY <1>9 DEF PortStops, PortPcs
  <2> HIDE DEF s
  <2>5. k.Status = s /\ k.JobId = job[d].JobId BY <2>1 DEF JobRecords
  <2> HIDE DEF k
  <2>6. SameDeletes BY <1>3, <2>1, <2>2, <2>3, <2>5
  <2> QED BY <1>1, <1>2, <2>4, <2>6
\* A job that was sent to the printer is deleted, unless it is to be printed again.
<1>10. CASE PortSends
  <2>1. PICK d \in Docs : /\ d = thread[Port].doc /\ job[d].state = "queued" /\ job[d] \in JobRecords
                          /\ AtDoc(Port, d)
    BY <1>4, <1>10 DEF PortSends, At, PortPcs
  <2> DEFINE s == job[d].Status \cup {"PRINTED"}
             j == [job[d] EXCEPT !.Status = s]
  <2>2. /\ \A f \in {"PENDING_DELETION", "RESTART"} : f \in s <=> Is(d, f)
        /\ s \in SUBSET Flags
    BY <2>1 DEF Is, JobRecords, Flags
  <2>3. \/ DeleteJob(Port, d, j, "sent")
        \/ "sent" \in PortPcs \ {"assigned"} /\ GoTo(Port, "sent") /\ UNCHANGED job
    BY <1>10, <2>1 DEF PortSends, PortPcs, PortOnlyReads
  <2> HIDE DEF s
  <2>4. j \in JobRecords /\ j.Status = s BY <2>1, <2>2 DEF JobRecords
  <2> HIDE DEF j
  <2>5. CASE "sent" \in PortPcs \ {"assigned"} /\ GoTo(Port, "sent") /\ UNCHANGED job
    BY <1>1, <1>2, <2>5, JobsDelete
  <2>6. CASE DeleteJob(Port, d, j, "sent")
    <3>1. Left(Port, d, j, "sent") BY <1>0, <2>1, <2>4, <2>6, DeleteJobLeft DEF Returns
    <3>2. "PENDING_DELETION" \in j.Status => "RESTART" \notin j.Status
      BY <2>1, <2>2, <2>4 DEF DeletionInv, DeletedOK, Queued
    <3>3. Taken(Port, d) BY <1>0, <2>4, <2>6, <3>2, DeleteJobTakes
    <3> QED BY <1>5, <2>1, <3>1, <3>3, TakenDeletes
  <2> QED BY <2>3, <2>5, <2>6
\* RemoveIniPortFromIniJob leaves it, or comes to DeleteJob.
<1>11. CASE PortEnds
  <2>1. PICK d \in Docs : /\ d = thread[Port].doc /\ job[d].state = "queued" /\ job[d] \in JobRecords
                          /\ AtDoc(Port, d)
    BY <1>4, <1>11 DEF PortEnds, At, PortPcs
  <2> DEFINE x == IF At(Port, "refused") THEN {"BLOCKED_DEVQ"}
                  ELSE IF "RESTART" \in job[d].Status THEN {} ELSE {"PRINTED"}
             a == job[d].Status \cup x
             j == [job[d] EXCEPT !.Status = a]
             s == a \ ({"DESPOOLING"} \cup IF "RESTART" \in a THEN {"PRINTED", "BLOCKED_DEVQ"} ELSE {})
             n == job[d].cRef - 1
             k == [j EXCEPT !.cRef = n, !.Status = s]
  <2>2. RemoveIniPortFromIniJob(Port, d, j) BY <1>11, <2>1 DEF PortEnds, PortOnlyReads
  <2>3. /\ a \in SUBSET Flags /\ n \in Int
        /\ \A f \in {"SPOOLING", "PENDING_DELETION", "RESTART"} : f \in a <=> Is(d, f)
    BY <2>1, Known DEF Is, JobRecords, Flags
  <2> HIDE DEF a
  <2>4. j \in JobRecords /\ j.Status = a /\ j.cRef = job[d].cRef BY <2>1, <2>3 DEF JobRecords
  <2>5. DeleteJobCheck(Port, d, k, "idle") BY <2>2, <2>4 DEF RemoveIniPortFromIniJob
  <2> HIDE DEF j
  <2>6. s \in SUBSET Flags /\ \A f \in {"SPOOLING", "PENDING_DELETION", "RESTART"} : f \in s <=> Is(d, f)
    BY <2>3
  <2> HIDE DEF s, n
  <2>7. k \in JobRecords /\ k.Status = s BY <2>3, <2>4, <2>6 DEF JobRecords
  <2> HIDE DEF k
  <2>8. Left(Port, d, k, "idle")
    BY <1>0, <2>5, <2>7, MarkedLeft DEF DeleteJobCheck, Returns
  <2>9. DeletedOK(d) BY <2>1 DEF DeletionInv, Queued
  <2>10. DeletionStays(Port, d) \/ job'[d].state # "queued"
    <3>1. CASE DeleteJob(Port, d, k, "idle")
      <4>1. "PENDING_DELETION" \in k.Status => "RESTART" \notin k.Status
        BY <2>6, <2>7, <2>9 DEF DeletedOK
      <4>2. Taken(Port, d) BY <1>0, <2>7, <3>1, <4>1, DeleteJobTakes
      <4> QED BY <4>2, TakenDeletes
    <3>2. CASE SetJob(d, k)
      <4>1. job'[d] = k BY <3>2, Known DEF SetJob, CoreTypes
      <4>2. ~ Handles(thread[Port], d) BY <1>0 DEF Handles
      <4> QED BY <2>6, <2>7, <2>9, <4>1, <4>2 DEF DeletionStays, DeletedOK, Is
    <3> QED BY <2>5, <3>1, <3>2 DEF DeleteJobCheck
  <2> QED BY <1>5, <2>1, <2>8, <2>10
<1> QED BY <1>6, <1>7, <1>8, <1>9, <1>10, <1>11 DEF PortStep

----------------------------------------------------------------------------
(* The steps at the shadow files, and the crash.                            *)

\* A file that says a job is deleted, or is in hand, goes on saying so or being in hand.
LEMMA HandedDelete ==
  ASSUME DeletionInv, NEW t \in Threads, Moderate(t), UNCHANGED job,
         \A e \in Docs : job[e].state = "queued" /\ (Unreadable(e) \/ Handles(thread[t], e)) =>
           Unreadable(e)' \/ \E u \in Threads : Handles(thread'[u], e)
  PROVE  DeletionInv'
<1>1. thread'[Port].pc \notin WritePcs
  <2>1. Port \in Threads /\ thread[Port].pc \notin WritePcs BY DEF Threads, DeletionInv
  <2> QED BY <2>1 DEF Moderate
<1>2. ASSUME NEW e \in Docs, job'[e].state = "queued" PROVE DeletedOK(e)'
  <2>1. DeletedOK(e) /\ job[e].state = "queued" BY <1>2 DEF DeletionInv, Queued
  <2>2. \A u \in Threads : u = t \/ thread'[u] = thread[u] BY DEF Moderate
  <2>3. (\E u \in Threads : Handles(thread[u], e)) =>
          Handles(thread[t], e) \/ \E u \in Threads : Handles(thread'[u], e)
    BY <2>2
  <2>4. Unreadable(e) \/ (\E u \in Threads : Handles(thread[u], e)) =>
          Unreadable(e)' \/ \E u \in Threads : Handles(thread'[u], e)
    BY <2>1, <2>3
  <2> QED BY <2>1, <2>4 DEF DeletedOK, Is
<1> QED BY <1>1, <1>2 DEF DeletionInv, Queued

\* The file of another job,
LEMMA OtherFile ==
  ASSUME UNCHANGED job, NEW e \in Docs, shadow'[job[e].JobId] = shadow[job[e].JobId], Unreadable(e)
  PROVE  Unreadable(e)'
BY DEF Unreadable, Good, File

\* and of one that is gone.
LEMMA RemoveShadowDelete ==
  ASSUME StoreInv, DeletionInv, NEW t \in Threads, RemoveShadow(t)
  PROVE  DeletionInv'
<1>0. /\ thread[t].pc = "removeShadow" /\ GoTo(t, "removeSpool") /\ UNCHANGED job
      /\ thread[t].id \in Ids
  BY Known DEF RemoveShadow, At, ThreadRecords
<1>1. Moderate(t)
  BY <1>0, GoToModerate DEF CallPcs, WritePcs, PortPcs, Attempting
<1>2. \A e : ~ Handles(thread[t], e) BY <1>0 DEF Handles, WritePcs
<1>3. ASSUME NEW e \in Docs, job[e].state = "queued"
      PROVE  shadow'[job[e].JobId] = shadow[job[e].JobId]
  <2>1. HoldsId(t, thread[t].id) BY <1>0 DEF HoldsId
  <2>2. FindJob(thread[t].id) = {} BY <1>0, <2>1, Known DEF IdsOK
  <2>3. job[e].JobId # thread[t].id BY <1>3, <2>2 DEF FindJob, Queued
  <2>4. job[e].JobId \in Ids /\ shadow \in [Ids -> ShadowRecords]
    BY DEF StoreInv, Types, JobRecords
  <2>5. shadow' = shadow \/ shadow' = [shadow EXCEPT ![thread[t].id] = NoShadow]
    BY DEF RemoveShadow
  <2> QED BY <2>3, <2>4, <2>5
<1>4. \A e \in Docs : job[e].state = "queued" /\ Unreadable(e) => Unreadable(e)'
  BY <1>0, <1>3, OtherFile
<1> QED BY <1>0, <1>1, <1>2, <1>4, HandedDelete

\* DeleteJob leaves a file to the thread that writes it,
LEMMA DeleteShadowDelete ==
  ASSUME StoreInv, OwnIds, DeletionInv, NEW t \in Threads, DeleteShadow(t)
  PROVE  DeletionInv'
<1>0. thread[t].pc = "deleteShadow" /\ UNCHANGED job /\ thread[t].pc \in CallPcs
  BY DEF DeleteShadow, At, CallPcs
<1>1. PICK pc \in {"shadowKept", "shadowDeleted"} : GoTo(t, pc) BY DEF DeleteShadow
<1>2. Moderate(t)
  <2>1. pc \in CallPcs /\ pc \notin WritePcs BY DEF CallPcs, WritePcs
  <2> QED BY <1>0, <1>1, <2>1, GoToModerate
<1>3. PICK d : d = thread[t].doc OBVIOUS
<1>4. /\ d \in Docs /\ job[d].state = "queued" /\ thread[t].id = job[d].JobId
      /\ job[d].JobId \in Ids /\ shadow \in [Ids -> ShadowRecords]
      /\ \A e \in Docs : job[e].JobId \in Ids
      /\ \A e \in Docs : e # d /\ job[e].state = "queued" => job[e].JobId # job[d].JobId
      /\ \A u \in Threads : thread[u].pc \in {"write", "closeFile"} /\ thread[u].id = thread[t].id =>
           thread[u].doc = d
  BY <1>0, <1>3, AtShadow
<1>5. shadow' = shadow \/ shadow' = [shadow EXCEPT ![job[d].JobId] = NoShadow]
  BY <1>4 DEF DeleteShadow
<1>6. \A e \in Docs : e # d /\ job[e].state = "queued" => shadow'[job[e].JobId] = shadow[job[e].JobId]
  BY <1>4, <1>5
<1>7. Unreadable(d)' \/ \E u \in Threads : Handles(thread'[u], d)
  <2>1. CASE ShadowInUse(thread[t].id)
    <3>1. PICK u \in Threads : thread[u].pc \in {"write", "closeFile"} /\ thread[u].id = thread[t].id
      BY <2>1 DEF ShadowInUse
    <3>2. thread'[u] = thread[u] /\ thread[u].doc = d BY <1>0, <1>2, <1>4, <3>1 DEF Moderate
    <3>3. Handles(thread'[u], d) BY <3>1, <3>2 DEF Handles, WritePcs
    <3> QED BY <3>3
  <2>2. CASE ~ ShadowInUse(thread[t].id)
    <3>1. shadow'[job[d].JobId].file = "none"
      <4>1. CASE shadow[thread[t].id].file = "none" BY <1>4, <4>1 DEF DeleteShadow
      <4>2. CASE shadow[thread[t].id].file # "none"
        <5>1. shadow' = [shadow EXCEPT ![thread[t].id] = NoShadow] BY <2>2, <4>2 DEF DeleteShadow
        <5> QED BY <1>4, <5>1 DEF NoShadow
      <4> QED BY <4>1, <4>2
    <3>2. ~ Good(d)' BY <1>0, <3>1 DEF Good, File
    <3> QED BY <3>2 DEF Unreadable
  <2> QED BY <2>1, <2>2
<1>8. \A e \in Docs : e # d => ~ Handles(thread[t], e) BY <1>3 DEF Handles
<1>9. ASSUME NEW e \in Docs, job[e].state = "queued", Unreadable(e) \/ Handles(thread[t], e)
      PROVE  Unreadable(e)' \/ \E u \in Threads : Handles(thread'[u], e)
  <2>1. CASE e = d BY <1>7, <2>1
  <2>2. CASE e # d BY <1>0, <1>6, <1>8, <1>9, <2>2, OtherFile
  <2> QED BY <2>1, <2>2
<1> QED BY <1>0, <1>2, <1>9, HandedDelete

\* who has the job in hand until it comes to DeleteJob itself.
LEMMA WriteShadowDelete ==
  ASSUME StoreInv, OwnIds, DeletionInv, NEW t \in Threads, CreateShadowFile(t) \/ WriteShadowFile(t)
  PROVE  DeletionInv'
<1>0. thread[t].pc \in {"createFile", "write"} /\ UNCHANGED job /\ thread[t].pc \in WritePcs
  BY DEF CreateShadowFile, WriteShadowFile, At, WritePcs
<1>1. PICK pc \in {"write", "unwritten", "closeFile"} : GoTo(t, pc)
  BY DEF CreateShadowFile, WriteShadowFile
<1>2. pc \in WritePcs /\ pc \notin CallPcs BY DEF CallPcs, WritePcs
<1>3. Moderate(t) /\ thread'[t].pc = pc /\ thread'[t].doc = thread[t].doc
  BY <1>0, <1>1, <1>2, GoToModerate
<1>4. PICK d : d = thread[t].doc OBVIOUS
<1>5. /\ d \in Docs /\ thread[t].id = job[d].JobId
      /\ job[d].JobId \in Ids /\ shadow \in [Ids -> ShadowRecords]
      /\ \A e \in Docs : job[e].JobId \in Ids
      /\ \A e \in Docs : e # d /\ job[e].state = "queued" => job[e].JobId # job[d].JobId
  BY <1>0, <1>4, AtShadow
<1>6. shadow' = shadow \/ \E x : shadow' = [shadow EXCEPT ![job[d].JobId] = x]
  BY <1>5 DEF CreateShadowFile, WriteShadowFile
<1>7. \A e \in Docs : e # d /\ job[e].state = "queued" => shadow'[job[e].JobId] = shadow[job[e].JobId]
  BY <1>5, <1>6
<1>8. Handles(thread'[t], d) BY <1>2, <1>3, <1>4 DEF Handles
<1>9. \A e \in Docs : e # d => ~ Handles(thread[t], e) BY <1>4 DEF Handles
<1>10. ASSUME NEW e \in Docs, job[e].state = "queued", Unreadable(e) \/ Handles(thread[t], e)
       PROVE  Unreadable(e)' \/ \E u \in Threads : Handles(thread'[u], e)
  <2>1. CASE e = d BY <1>8, <2>1
  <2>2. CASE e # d BY <1>0, <1>7, <1>9, <1>10, <2>2, OtherFile
  <2> QED BY <2>1, <2>2
<1> QED BY <1>0, <1>3, <1>10, HandedDelete

\* A job that is read again is not deleted.
LEMMA CrashDelete == ASSUME Crash PROVE DeletionInv'
<1>1. Restart /\ thread'[Port].pc = "idle" BY DEF Crash, Restart, Idle, Threads
<1>2. ASSUME NEW d \in Docs, job'[d].state = "queued" PROVE ~ Is(d, "PENDING_DELETION")'
  <2>1. PICK i \in Ids : job'[d] = ReadShadowJob(i) BY <1>1, <1>2, ReadAgain
  <2>2. job'[d].Status \subseteq {"PRINTED"} BY <2>1 DEF ReadShadowJob
  <2> QED BY <2>2 DEF Is
<1> QED BY <1>1, <1>2 DEF DeletionInv, DeletedOK, Queued, WritePcs

----------------------------------------------------------------------------
(* Every step.                                                              *)

LEMMA DeletionStep ==
  ASSUME StartDocOnly, PortOnlyReads, StoreInv, FileInv, DeletionInv, [Next]_vars
  PROVE  DeletionInv'
<1>0. StoreInv' /\ OwnIds BY StoreStep DEF FileInv
<1>1. ASSUME NEW t \in Threads, FileStep(t) PROVE DeletionInv'
  <2>1. CASE Cancelled(t) \/ ShadowDeleted(t) BY <1>0, <2>1, CallsDelete
  <2>2. CASE Reenter(t) BY <1>0, <2>2, ReenterDelete
  <2>3. CASE RemoveSpool(t) \/ FreeId(t) \/ CloseShadowFile(t) BY <2>3, FileDelete
  <2>4. CASE DeleteShadow(t) BY <1>0, <2>4, DeleteShadowDelete
  <2>5. CASE RemoveShadow(t) BY <2>5, RemoveShadowDelete
  <2>6. CASE CreateShadowFile(t) \/ WriteShadowFile(t) BY <1>0, <2>6, WriteShadowDelete
  <2> QED BY <1>1, <2>1, <2>2, <2>3, <2>4, <2>5, <2>6 DEF FileStep
<1>2. ASSUME NEW c \in Clients, ClientStep(c) PROVE DeletionInv' BY <1>0, <1>2, ClientDelete
<1>3. CASE PortStep BY <1>0, <1>3, PortDelete
<1>4. CASE Crash BY <1>4, CrashDelete
<1>5. CASE UNCHANGED vars
  <2>1. job' = job /\ thread' = thread /\ shadow' = shadow BY <1>5 DEF vars, disk
  <2> QED BY <2>1 DEF DeletionInv, DeletedOK, Queued, Is, Unreadable, Good, File
<1> QED BY <1>1, <1>2, <1>3, <1>4, <1>5 DEF Next

LEMMA InitDeletion == Init => DeletionInv
BY DEF Init, DeletionInv, Queued, NoJob, Threads, Idle, WritePcs

\* Only SpoolThisJob brings a job to the queue, while the spooler is up.
LEMMA QueuedBefore ==
  ASSUME StartDocOnly, StoreInv, FileInv, [Next]_vars, ~ Crash, NEW d \in Docs,
         \A t \in Threads : thread[t].doc # d, job'[d].state = "queued"
  PROVE  job[d].state = "queued"
<1>0. ASSUME NEW t \in Threads, InMemory(t) PROVE job[d].state = "queued"
  BY <1>0 DEF InMemory, Memory, JobsMove
<1>1. ASSUME UNCHANGED job PROVE job[d].state = "queued" BY <1>1
<1>2. ASSUME NEW t \in Threads, FileStep(t) PROVE job[d].state = "queued"
  <2>1. CASE Cancelled(t) \/ ShadowDeleted(t) BY <1>0, <2>1, CallsInMemory
  <2>2. CASE Reenter(t) BY <1>0, <2>2, ReenterInMemory
  <2>3. CASE UNCHANGED job BY <2>3
  <2> QED BY <1>2, <2>1, <2>2, <2>3
       DEF FileStep, DeleteShadow, RemoveShadow, RemoveSpool, FreeId, CreateShadowFile, WriteShadowFile,
           CloseShadowFile
<1>3. ASSUME NEW c \in Clients, ClientStep(c) PROVE job[d].state = "queued"
  <2>0. c \in Threads BY DEF Threads
  <2>1. CASE CreateSpoolFile(c) \/ SpoolThisJobFails(c) \/ ClosePrinter(c) \/ Closed(c)
             \/ \E e \in Docs : StartDocPrinter(c, e)
    <3>1. job'[d] = job[d] BY <2>1, RestsMove
    <3> QED BY <3>1
  <2>2. CASE SpoolThisJob(c) BY <1>0, <1>3, <2>0, <2>2, SpoolInMemory
  <2>3. CASE EndDocPrinter(c) BY <1>0, <1>3, <2>0, <2>3, EndDocInMemory
  <2>4. CASE UnblockJobs(c) \/ \E e \in Docs : RestartJob(c, e)
    BY <1>0, <1>3, <2>0, <2>4, UsersInMemory
  <2>5. CASE \E e \in Docs : DeleteByUser(c, e) BY <1>0, <1>3, <2>0, <2>5, DeleteInMemory
  <2> QED BY <1>3, <2>1, <2>2, <2>3, <2>4, <2>5, ClientCases
<1>4. CASE PortStep BY <1>0, <1>4, PortInMemory DEF Threads
<1> QED BY <1>1, <1>2, <1>3, <1>4 DEF Next, vars

\* A job that left the queue left no files, when no thread is at it,
LEMMA GoneUnread ==
  ASSUME StoreInv, FileInv, NEW d \in Docs, job[d].state = "gone",
         \A t \in Threads : thread[t].doc # d, NEW i \in Ids, Readable(i)
  PROVE  shadow[i].doc # d
<1> SUFFICES ASSUME shadow[i].doc = d PROVE FALSE OBVIOUS
<1>1. spool[i] = d /\ shadow[i].file # "none" BY DEF Readable, FileInv, ShadowOf
<1>2. CASE FindJob(i) # {}
  <2>1. PICK e \in Docs : job[e].state = "queued" /\ job[e].JobId = i BY <1>2 DEF FindJob, Queued
  <2>2. spool[i] = e BY <2>1 DEF FileInv, SpoolFiles, Queued
  <2> QED BY <1>1, <2>1, <2>2
<1>3. ASSUME NEW t \in Threads, At(t, "removeShadow"), thread[t].id = i PROVE FALSE
  <2>1. spool[thread[t].id] = thread[t].doc BY <1>3 DEF FileInv, SpoolFiles, At
  <2> QED BY <1>1, <1>3, <2>1
<1> QED BY <1>1, <1>2, <1>3 DEF FileInv, ShadowHeld

\* and that of a job that is deleted is not read, when none has it in hand.
LEMMA DeletedUnread ==
  ASSUME StoreInv, FileInv, DeletionInv, NEW d \in Docs, job[d].state = "queued",
         Is(d, "PENDING_DELETION"), ~ Is(d, "SPOOLING"), ~ Writing(d), ~ Deleting(d),
         NEW i \in Ids, Readable(i)
  PROVE  shadow[i].doc # d
<1> SUFFICES ASSUME shadow[i].doc = d PROVE FALSE OBVIOUS
<1>1. spool[i] = d /\ spool[i] # NoDoc BY DEF Readable, FileInv, ShadowOf
<1>2. spool[job[d].JobId] = d /\ job[d].JobId \in Ids
  BY DEF FileInv, SpoolFiles, Queued, StoreInv, Types, JobRecords
<1>3. job[d].JobId = i BY <1>1, <1>2 DEF FileInv, SpoolOnce
<1>4. \A t \in Threads : ~ Handles(thread[t], d)
  BY DEF Handles, WritePcs, Writing, Deleting
<1>5. Unreadable(d) BY <1>4 DEF DeletionInv, DeletedOK, Queued
<1> QED BY <1>3, <1>5 DEF Unreadable, Good, File, Readable

LEMMA DeletionHolds ==
  ASSUME StartDocOnly, StoreInv, FileInv, DeletionInv, [Next]_vars, NEW d \in Docs,
         \/ job[d].state = "gone" /\ (\A t \in Threads : thread[t].doc # d)
         \/ /\ crashes' # crashes /\ d \in Queued
            /\ Is(d, "PENDING_DELETION") /\ ~ Is(d, "SPOOLING") /\ ~ Writing(d) /\ ~ Deleting(d)
  PROVE  d \notin Queued'
<1> SUFFICES ASSUME job'[d].state = "queued" PROVE FALSE BY DEF Queued
<1>1. CASE Crash
  <2>1. Restart BY <1>1 DEF Crash
  <2>2. PICK i \in Ids : Readable(i) /\ job'[d] = ReadShadowJob(i) /\ shadow[i].doc = d
    BY <2>1, ReadAgain
  <2> QED BY <2>2, GoneUnread, DeletedUnread DEF Queued
<1>2. CASE ~ Crash
  <2>1. job[d].state = "gone" /\ \A t \in Threads : thread[t].doc # d BY <1>2, OnlyCrashes
  <2> QED BY <1>2, <2>1, QueuedBefore
<1> QED BY <1>1, <1>2

\* A deletion is final: a job that was deleted does not come back when the spooler starts again,
\* whether it was still in use when the spooler died or had left the queue long before, where
\* documents come by StartDocPrinter, the bitmap can grow, and the port thread writes no shadow
\* files; whichever of DeleteJob and WriteShadowJob comes to the file first (job.c, DeleteJob;
\* spooler.c, EndDocPrinter; init.c, ReadShadowJob).
THEOREM DeletedJobsStayDeleted ==
  ASSUME StartDocOnly, PortOnlyReads
  PROVE  Spec => DeletedStaysDeleted
<1> DEFINE Deleted ==
  \A d \in Docs :
    \/ job[d].state = "gone" /\ (\A t \in Threads : thread[t].doc # d)
    \/ /\ crashes' # crashes /\ d \in Queued
       /\ Is(d, "PENDING_DELETION") /\ ~ Is(d, "SPOOLING") /\ ~ Writing(d) /\ ~ Deleting(d)
    => d \notin Queued'
<1>1. Init => StoreInv /\ FileInv /\ DeletionInv BY InitStore, InitFiles, InitDeletion
<1>2. StoreInv /\ FileInv /\ DeletionInv /\ [Next]_vars => (StoreInv /\ FileInv /\ DeletionInv)'
  BY StoreStep, FilesStep, DeletionStep
<1>3. StoreInv /\ FileInv /\ DeletionInv /\ [Next]_vars => [Deleted]_vars BY DeletionHolds
<1> QED BY <1>1, <1>2, <1>3, PTL DEF Spec, DeletedStaysDeleted

(***************************************************************************)
(* A document that takes the spooler down is given up: the attempts that   *)
(* its job, or its shadow file, counts are no fewer than the crashes it    *)
(* was being printed in, but for one, and ReadShadowJob accepts one        *)
(* attempt.                                                                *)
(***************************************************************************)

\* A rendered document that no user has deleted or restarted.
Untouched(d) == d \in Emf /\ asked[d] = {}

\* What the port thread does at document d: it has it, it has counted an attempt at it,
\* and the shadow file has that attempt, unless it is still to be written.
Assigned(r, d) == r.doc = d /\ r.pc = "assigned"
Counted(r, d)  == r.doc = d /\ \/ r.pc \in {"query", "printing"}
                               \/ r.pc \in WritePcs /\ r.then = "query"
Recorded(r, d) == Counted(r, d) /\ r.pc \notin {"createFile", "write"}

\* A document was not printed before it was spooled to its end.
Fresh(d) ==
  \/ job[d].state = "new" \/ Spoolers(d) # {}
  \/ \E t \in Threads : thread[t].pc \in SubmitPcs /\ thread[t].doc = d
FreshOK == \A d \in Docs : Fresh(d) => died[d] = 0

\* What the job in the queue counts, and a shadow file, and what both count in an attempt.
QueueCounts(d) ==
  d \in Queued => /\ ~ Is(d, "RESTART") /\ died[d] <= 2
                  /\ Is(d, "PRINTED") \/ died[d] <= job[d].dwReboots + 1
FilesCount(d) ==
  \A i \in Ids : shadow[i].file = "good" /\ shadow[i].doc = d =>
    \/ "PRINTED" \in shadow[i].Status /\ died[d] <= 2
    \/ died[d] <= shadow[i].dwReboots + 1
PortCounts(d) ==
  /\ Assigned(thread[Port], d) => ~ Is(d, "PENDING_DELETION") /\ died[d] <= job[d].dwReboots + 1
  /\ Counted(thread[Port], d) => died[d] <= job[d].dwReboots
  /\ Recorded(thread[Port], d) /\ Good(d) => died[d] <= File(d).dwReboots

Limited(d) == died[d] <= 3 /\ QueueCounts(d) /\ FilesCount(d) /\ PortCounts(d)
LimitedOK == \A d \in Docs : Untouched(d) => Limited(d)

\* What DeleteJob and WriteShadowJob leave of a job that is not to be restarted: it is not then
\* either, and not taken for one that was not printed.
Marks(d, j) ==
  /\ "RESTART" \notin job'[d].Status
  /\ "PRINTED" \in j.Status => "PRINTED" \in job'[d].Status

LEMMA MarksBy ==
  ASSUME StoreInv, NEW d \in Docs, NEW j, NEW k, SetJob(d, k), "RESTART" \notin k.Status,
         "PRINTED" \in j.Status => "PRINTED" \in k.Status
  PROVE  Marks(d, j)
<1>1. job'[d] = k BY Known DEF SetJob, CoreTypes
<1> QED BY <1>1 DEF Marks

LEMMA UnlessPrintingMarks ==
  ASSUME StoreInv, NEW t \in Threads, NEW d \in Docs, NEW j \in JobRecords, NEW then,
         "RESTART" \notin j.Status, DeleteUnlessPrinting(t, d, j, then)
  PROVE  Marks(d, j)
<1>1. CASE j.cRef > 0
  <2> DEFINE s == j.Status \cup {"SHADOW_DELETED"}
             n == j.cRef + 1
             k == [j EXCEPT !.Status = s, !.cRef = n]
  <2>1. SetJob(d, k) BY <1>1 DEF DeleteUnlessPrinting
  <2>2. "RESTART" \notin s /\ ("PRINTED" \in j.Status => "PRINTED" \in s) OBVIOUS
  <2> HIDE DEF s, n
  <2>3. k.Status = s BY DEF JobRecords
  <2> HIDE DEF k
  <2> QED BY <2>1, <2>2, <2>3, MarksBy
<1>2. CASE ~ (j.cRef > 0) /\ "SPOOLING" \in j.Status
  <2>1. SetJob(d, j) BY <1>2 DEF DeleteUnlessPrinting
  <2> QED BY <2>1, MarksBy
<1>3. CASE ~ (j.cRef > 0) /\ "SPOOLING" \notin j.Status
  <2> DEFINE k == [j EXCEPT !.state = "gone"]
  <2>1. SetJob(d, k) BY <1>3 DEF DeleteUnlessPrinting
  <2>2. k.Status = j.Status BY DEF JobRecords
  <2> HIDE DEF k
  <2> QED BY <2>1, <2>2, MarksBy
<1> QED BY <1>1, <1>2, <1>3

LEMMA DeleteJobMarks ==
  ASSUME StoreInv, NEW t \in Threads, NEW d \in Docs, NEW j \in JobRecords, NEW then,
         "RESTART" \notin j.Status, DeleteJob(t, d, j, then)
  PROVE  Marks(d, j)
<1> DEFINE s == j.Status \cup {"PENDING_DELETION"}
<1>0. /\ s \in SUBSET Flags /\ "RESTART" \notin s
      /\ "PRINTED" \in j.Status => "PRINTED" \in s
  BY DEF JobRecords, Flags
<1>1. CASE "PRINTING" \in j.Status /\ "PENDING_DELETION" \notin j.Status
  <2> DEFINE n == j.cRef + 1
             k == [j EXCEPT !.Status = s, !.cRef = n]
  <2>1. SetJob(d, k) BY <1>1 DEF DeleteJob
  <2> HIDE DEF s, n
  <2>2. k.Status = s BY DEF JobRecords
  <2> HIDE DEF k
  <2> QED BY <1>0, <2>1, <2>2, MarksBy
<1>2. CASE ~ ("PRINTING" \in j.Status /\ "PENDING_DELETION" \notin j.Status)
  <2> DEFINE k == [j EXCEPT !.Status = s]
  <2>1. DeleteUnlessPrinting(t, d, k, then) BY <1>2 DEF DeleteJob
  <2> HIDE DEF s
  <2>2. k \in JobRecords /\ k.Status = s BY <1>0 DEF JobRecords
  <2> HIDE DEF k
  <2>3. Marks(d, k) BY <1>0, <2>1, <2>2, UnlessPrintingMarks
  <2> QED BY <1>0, <2>2, <2>3 DEF Marks
<1> QED BY <1>1, <1>2

LEMMA EndDocRestMarks ==
  ASSUME StoreInv, NEW t \in Threads, NEW d \in Docs, NEW j \in JobRecords,
         "RESTART" \notin j.Status, EndDocPrinterRest(t, d, j)
  PROVE  Marks(d, j)
<1> DEFINE n == j.cRef - 1
           k == [j EXCEPT !.cRef = n]
<1>1. n \in Int BY DEF JobRecords
<1>2. DeleteJob(t, d, k, "idle") \/ SetJob(d, k) BY DEF EndDocPrinterRest
<1> HIDE DEF n
<1>3. k \in JobRecords /\ k.Status = j.Status BY <1>1 DEF JobRecords
<1> HIDE DEF k
<1>4. Marks(d, k) BY <1>2, <1>3, DeleteJobMarks, MarksBy
<1> QED BY <1>3, <1>4 DEF Marks

LEMMA RemovePortMarks ==
  ASSUME StoreInv, NEW t \in Threads, NEW d \in Docs, NEW j \in JobRecords,
         "RESTART" \notin j.Status, RemoveIniPortFromIniJob(t, d, j)
  PROVE  Marks(d, j)
<1> DEFINE s == j.Status \ ({"DESPOOLING"} \cup IF "RESTART" \in j.Status
                                                 THEN {"PRINTED", "BLOCKED_DEVQ"} ELSE {})
           n == j.cRef - 1
           k == [j EXCEPT !.cRef = n, !.Status = s]
<1>1. /\ s \in SUBSET Flags /\ n \in Int
      /\ "RESTART" \notin s /\ ("PRINTED" \in j.Status => "PRINTED" \in s)
  <2>1. j.Status \in SUBSET Flags /\ j.cRef \in Int BY DEF JobRecords
  <2>2. \A x : j.Status \ x \in SUBSET Flags BY <2>1
  <2> QED BY <2>1, <2>2
<1>2. DeleteJobCheck(t, d, k, "idle") BY DEF RemoveIniPortFromIniJob
<1> HIDE DEF s, n
<1>3. k \in JobRecords /\ k.Status = s BY <1>1 DEF JobRecords
<1> HIDE DEF k
<1>4. DeleteJob(t, d, k, "idle") \/ SetJob(d, k) BY <1>2 DEF DeleteJobCheck
<1>5. Marks(d, k) BY <1>1, <1>3, <1>4, DeleteJobMarks, MarksBy
<1> QED BY <1>1, <1>3, <1>5 DEF Marks

LEMMA ShadowWrittenMarks ==
  ASSUME StoreInv, NEW t \in Threads, NEW d \in Docs, NEW j \in JobRecords,
         NEW then \in {"endDoc", "query", "kept"}, "RESTART" \notin j.Status,
         ShadowWritten(t, d, j, then)
  PROVE  Marks(d, j)
<1>1. CASE then = "endDoc" BY <1>1, EndDocRestMarks DEF ShadowWritten
<1>2. CASE then = "query"
  <2>1. SetJob(d, j) BY <1>2 DEF ShadowWritten
  <2> QED BY <2>1, MarksBy
<1>3. CASE then = "kept"
  <2> DEFINE n == j.cRef - 1
             k == [j EXCEPT !.cRef = n]
  <2>1. n \in Int BY DEF JobRecords
  <2>2. RemoveIniPortFromIniJob(t, d, k) BY <1>3 DEF ShadowWritten
  <2> HIDE DEF n
  <2>3. k \in JobRecords /\ k.Status = j.Status BY <2>1 DEF JobRecords
  <2> HIDE DEF k
  <2>4. Marks(d, k) BY <2>2, <2>3, RemovePortMarks
  <2> QED BY <2>3, <2>4 DEF Marks
<1> QED BY <1>1, <1>2, <1>3

LEMMA WriteShadowJobMarks ==
  ASSUME StoreInv, NEW t \in Threads, NEW d \in Docs, NEW j \in JobRecords,
         NEW then \in {"endDoc", "query", "kept"}, "RESTART" \notin j.Status,
         WriteShadowJob(t, d, j, then)
  PROVE  Marks(d, j)
<1>1. CASE "SHADOW_DELETED" \in j.Status BY <1>1, ShadowWrittenMarks DEF WriteShadowJob
<1>2. CASE "SHADOW_DELETED" \notin j.Status
  <2>1. SetJob(d, j) BY <1>2 DEF WriteShadowJob
  <2> QED BY <2>1, MarksBy
<1> QED BY <1>1, <1>2

\* A port thread that is done with a document, or has it to keep, is at no attempt.
Rests(r) == r.pc \notin {"assigned", "query", "printing"} /\ (r.pc \in WritePcs => r.then # "query")

LEMMA RestsNowhere ==
  ASSUME NEW r, Rests(r), NEW e
  PROVE  ~ Assigned(r, e) /\ ~ Counted(r, e) /\ ~ Recorded(r, e)
BY DEF Rests, Assigned, Counted, Recorded

LEMMA DeletesRest ==
  ASSUME StoreInv, NEW t \in Threads, NEW d \in Docs, NEW j \in JobRecords,
         NEW then \in {"idle", "sent"}, Deletes(t, d, j, then)
  PROVE  Rests(thread'[t])
<1>1. \/ thread'[t] = Resumed(t, then)
      \/ thread'[t].pc \in {"cancel", "deleteShadow", "removeShadow", "removeSpool"}
  BY DeletesReboots
<1>2. Resumed(t, then).pc = then BY Known DEF Resumed, Idle, ThreadRecords
<1>3. thread'[t].pc \in {"idle", "sent", "cancel", "deleteShadow", "removeShadow", "removeSpool"}
  BY <1>1, <1>2
<1> QED BY <1>3 DEF Rests, WritePcs

LEMMA RemovePortRests ==
  ASSUME StoreInv, NEW t \in Threads, NEW d \in Docs, NEW j \in JobRecords,
         RemoveIniPortFromIniJob(t, d, j)
  PROVE  Rests(thread'[t])
<1> DEFINE s == j.Status \ ({"DESPOOLING"} \cup IF "RESTART" \in j.Status
                                                 THEN {"PRINTED", "BLOCKED_DEVQ"} ELSE {})
           n == j.cRef - 1
           k == [j EXCEPT !.cRef = n, !.Status = s]
<1>1. s \in SUBSET Flags /\ n \in Int
  <2>1. j.Status \in SUBSET Flags /\ j.cRef \in Int BY DEF JobRecords
  <2>2. \A x : j.Status \ x \in SUBSET Flags BY <2>1
  <2> QED BY <2>1, <2>2
<1>2. DeleteJobCheck(t, d, k, "idle") BY DEF RemoveIniPortFromIniJob
<1> HIDE DEF s, n
<1>3. k \in JobRecords BY <1>1 DEF JobRecords
<1> HIDE DEF k
<1> QED BY <1>2, <1>3, DeleteJobCheckDeletes, DeletesRest

LEMMA KeptRests ==
  ASSUME StoreInv, NEW t \in Threads, NEW d \in Docs, NEW j \in JobRecords,
         ShadowWritten(t, d, j, "kept") \/ WriteShadowJob(t, d, j, "kept")
  PROVE  Rests(thread'[t])
<1>1. CASE ShadowWritten(t, d, j, "kept")
  <2> DEFINE n == j.cRef - 1
             k == [j EXCEPT !.cRef = n]
  <2>1. n \in Int BY DEF JobRecords
  <2>2. RemoveIniPortFromIniJob(t, d, k) BY <1>1 DEF ShadowWritten
  <2> HIDE DEF n
  <2>3. k \in JobRecords BY <2>1 DEF JobRecords
  <2> HIDE DEF k
  <2> QED BY <2>2, <2>3, RemovePortRests
<1>2. CASE WriteShadowJob(t, d, j, "kept") /\ ~ ShadowWritten(t, d, j, "kept")
  <2> DEFINE r == [pc |-> "createFile", doc |-> d, id |-> j.JobId, then |-> "kept"]
  <2>1. thread' = [thread EXCEPT ![t] = r] BY <1>2 DEF WriteShadowJob
  <2>2. Rests(r) BY DEF Rests
  <2> HIDE DEF r
  <2>3. thread'[t] = r BY <2>1, Known DEF CoreTypes
  <2> QED BY <2>2, <2>3
<1> QED BY <1>1, <1>2

\* A document of the port thread is in the queue.
PortReferring ==
  \A e : Assigned(thread[Port], e) \/ Counted(thread[Port], e) => e \in Docs /\ job[e].state = "queued"

LEMMA PortAtJobs == StoreInv => PortReferring
<1> SUFFICES ASSUME StoreInv, NEW e, Assigned(thread[Port], e) \/ Counted(thread[Port], e)
             PROVE  e \in Docs /\ job[e].state = "queued"
  BY DEF PortReferring
<1>1. thread[Port].doc = e /\ thread[Port].pc \in {"assigned", "query", "printing"} \cup WritePcs
  BY DEF Assigned, Counted
<1>2. CASE thread[Port].pc \in WritePcs BY <1>1, <1>2, AtJobs DEF Referring, Threads
<1>3. CASE thread[Port].pc \notin WritePcs
  <2>1. thread[Port].pc \in PortPcs BY <1>1, <1>3 DEF PortPcs
  <2> QED BY <1>1, <2>1, PortBusyKnown
<1> QED BY <1>2, <1>3

----------------------------------------------------------------------------
(* The steps in memory.                                                     *)

\* What such a step does to one document: it takes no attempt from a job that waits, but for one
\* that was printed, and the port thread counts an attempt, or goes on with one.
JobTracks(e) ==
  job'[e].state = "queued" =>
    \/ died[e] = 0 /\ ~ Is(e, "RESTART")'
    \/ /\ job[e].state = "queued" /\ job'[e].JobId = job[e].JobId
       /\ Is(e, "RESTART")' => Is(e, "RESTART")
       /\ Is(e, "PRINTED")' \/ (~ Is(e, "PRINTED") /\ job[e].dwReboots <= job'[e].dwReboots)
PortTracks(e) ==
  LET r == thread[Port]
      q == thread'[Port]
  IN /\ Assigned(q, e) =>
          \/ ~ Is(e, "PENDING_DELETION")' /\ ~ Is(e, "PRINTED")'
          \/ /\ Assigned(r, e) /\ job[e].dwReboots <= job'[e].dwReboots
             /\ Is(e, "PENDING_DELETION")' => Is(e, "PENDING_DELETION")
     /\ Counted(q, e) =>
          \/ Assigned(r, e) /\ job[e].dwReboots + 1 <= job'[e].dwReboots /\ ~ Recorded(q, e)
          \/ /\ Counted(r, e) /\ job[e].dwReboots <= job'[e].dwReboots
             /\ Recorded(q, e) => Recorded(r, e)

LEMMA TracksKeep ==
  ASSUME StoreInv, StoreInv', RebootsOK', NEW e \in Docs, UNCHANGED <<shadow, died>>,
         Limited(e), JobTracks(e), PortTracks(e)
  PROVE  Limited(e)'
<1>0. /\ died[e] \in Nat /\ died'[e] = died[e]
      /\ job[e].dwReboots \in Int /\ job'[e].dwReboots \in Nat
      /\ job'[e].JobId \in Ids /\ shadow \in [Ids -> ShadowRecords]
      /\ \A i \in Ids : shadow[i].dwReboots \in Nat
  <2>1. /\ died \in [Docs -> Nat] /\ job \in [Docs -> JobRecords] /\ job' \in [Docs -> JobRecords]
        /\ shadow \in [Ids -> ShadowRecords]
    BY DEF StoreInv, Types
  <2>2. \A i \in Ids : shadow[i].dwReboots \in Int BY <2>1 DEF ShadowRecords
  <2> QED BY <2>1, <2>2 DEF JobRecords, RebootsOK
<1>1. PortReferring /\ PortReferring'
  <2>1. PortReferring' BY PortAtJobs, PTL
  <2> QED BY <2>1, PortAtJobs
<1>2. QueueCounts(e)'
  <2>1. ASSUME job'[e].state = "queued"
        PROVE  ~ Is(e, "RESTART")' /\ died[e] <= 2 /\ (Is(e, "PRINTED")' \/ died[e] <= job'[e].dwReboots + 1)
    BY <1>0, <2>1 DEF JobTracks, Limited, QueueCounts, Queued
  <2> QED BY <1>0, <2>1 DEF QueueCounts, Queued
<1>3. FilesCount(e)' BY DEF Limited, FilesCount
<1>4. ASSUME Assigned(thread'[Port], e)
      PROVE  ~ Is(e, "PENDING_DELETION")' /\ died[e] <= job'[e].dwReboots + 1
  <2>1. job'[e].state = "queued" BY <1>1, <1>4 DEF PortReferring
  <2>2. CASE ~ Is(e, "PENDING_DELETION")' /\ ~ Is(e, "PRINTED")'
    BY <1>0, <1>2, <2>1, <2>2 DEF QueueCounts, Queued
  <2>3. CASE /\ Assigned(thread[Port], e) /\ job[e].dwReboots <= job'[e].dwReboots
             /\ Is(e, "PENDING_DELETION")' => Is(e, "PENDING_DELETION")
    BY <1>0, <2>3 DEF Limited, PortCounts
  <2> QED BY <1>4, <2>2, <2>3 DEF PortTracks
<1>5. ASSUME Counted(thread'[Port], e) PROVE died[e] <= job'[e].dwReboots
  BY <1>0, <1>5 DEF PortTracks, Limited, PortCounts
<1>6. ASSUME Recorded(thread'[Port], e), Good(e)' PROVE died[e] <= File(e)'.dwReboots
  <2>1. Counted(thread'[Port], e) BY <1>6 DEF Recorded
  <2>2. job'[e].state = "queued" /\ Recorded(thread[Port], e)
    BY <1>1, <1>6, <2>1 DEF PortReferring, PortTracks
  <2>3. CASE died[e] = 0 BY <1>0, <2>3 DEF File
  <2>4. CASE job'[e].JobId = job[e].JobId
    <3>1. File(e)' = File(e) /\ Good(e) BY <1>6, <2>4 DEF File, Good
    <3> QED BY <2>2, <3>1 DEF Limited, PortCounts
  <2> QED BY <2>2, <2>3, <2>4 DEF JobTracks
<1>7. PortCounts(e)' BY <1>0, <1>4, <1>5, <1>6 DEF PortCounts
<1> QED BY <1>0, <1>2, <1>3, <1>7 DEF Limited

\* A step of another thread: it makes the job, or leaves its attempts alone.
JobSpared(e) ==
  job'[e].state = "queued" =>
    \/ job[e].state # "queued" /\ died[e] = 0 /\ ~ Is(e, "RESTART")'
    \/ /\ job[e].state = "queued" /\ job'[e].JobId = job[e].JobId
       /\ Is(e, "RESTART")' => Is(e, "RESTART")
       /\ Is(e, "PRINTED") => Is(e, "PRINTED")'
       /\ Is(e, "PENDING_DELETION")' => Is(e, "PENDING_DELETION")
       /\ job'[e].dwReboots = job[e].dwReboots

LEMMA SparedTracks ==
  ASSUME StoreInv, StoreInv', NEW e \in Docs, thread'[Port] = thread[Port], JobSpared(e)
  PROVE  JobTracks(e) /\ PortTracks(e)
<1>0. job[e].dwReboots \in Int /\ job'[e].dwReboots \in Int
  BY DEF StoreInv, Types, JobRecords
<1>1. PortReferring /\ PortReferring'
  <2>1. PortReferring' BY PortAtJobs, PTL
  <2> QED BY <2>1, PortAtJobs
<1>2. Assigned(thread[Port], e) \/ Counted(thread[Port], e) =>
        job[e].state = "queued" /\ job'[e].state = "queued"
  BY <1>1 DEF PortReferring
<1> QED BY <1>0, <1>2 DEF JobSpared, JobTracks, PortTracks

LEMMA LimitedKeeps ==
  ASSUME StoreInv, StoreInv', RebootsOK', LimitedOK, UNCHANGED <<shadow, died>>,
         \A e \in Docs : asked[e] \subseteq asked'[e],
         \A e \in Docs : Untouched(e) /\ Untouched(e)' => JobTracks(e) /\ PortTracks(e)
  PROVE  LimitedOK'
<1> SUFFICES ASSUME NEW e \in Docs, Untouched(e)' PROVE Limited(e)' BY DEF LimitedOK
<1>1. Untouched(e) BY DEF Untouched
<1>2. Limited(e) /\ JobTracks(e) /\ PortTracks(e) BY <1>1 DEF LimitedOK
<1> QED BY <1>2, TracksKeep

LEMMA AwayKeeps ==
  ASSUME StoreInv, StoreInv', RebootsOK', LimitedOK, UNCHANGED <<shadow, died>>,
         \A e \in Docs : asked[e] \subseteq asked'[e],
         thread'[Port] = thread[Port] \/ Rests(thread'[Port]),
         \A e \in Docs : Untouched(e) /\ Untouched(e)' => JobSpared(e)
  PROVE  LimitedOK'
<1> SUFFICES ASSUME NEW e \in Docs, Untouched(e), Untouched(e)'
             PROVE  JobTracks(e) /\ PortTracks(e)
  BY LimitedKeeps
<1>1. JobSpared(e) OBVIOUS
<1>2. CASE thread'[Port] = thread[Port] BY <1>1, <1>2, SparedTracks
<1>3. CASE Rests(thread'[Port])
  <2>1. PortTracks(e) BY <1>3, RestsNowhere DEF PortTracks
  <2>2. job[e].dwReboots \in Int /\ job'[e].dwReboots \in Int
    BY DEF StoreInv, Types, JobRecords
  <2>3. JobTracks(e) BY <1>1, <2>2 DEF JobSpared, JobTracks
  <2> QED BY <2>1, <2>3
<1> QED BY <1>2, <1>3

\* DeleteJob and WriteShadowJob spare every document that is not to be restarted.
LEMMA LeftSpared ==
  ASSUME StoreInv, StoreInv', NEW t \in Threads, NEW d \in Docs, NEW j, NEW then,
         Left(t, d, j, then), InMemory(t), job[d].state = "queued",
         \A e \in Docs : job[e].state = "queued" => job'[e].dwReboots = job[e].dwReboots,
         NEW e \in Docs,
         e = d => /\ Marks(d, j) /\ Unmarked(d, j)
                  /\ Is(d, "PRINTED") => "PRINTED" \in j.Status
                  /\ "PENDING_DELETION" \in j.Status => Is(d, "PENDING_DELETION")
  PROVE  JobSpared(e)
<1> SUFFICES ASSUME job'[e].state = "queued" PROVE JobSpared(e) BY DEF JobSpared
<1>1. CASE e # d
  <2>1. job'[e] = job[e] BY <1>1 DEF Left
  <2> QED BY <2>1 DEF JobSpared, Is
<1>2. CASE e = d
  <2>1. job'[e].JobId = job[e].JobId BY <1>2, MemoryFacts DEF InMemory
  <2> QED BY <1>2, <2>1 DEF JobSpared, Marks, Unmarked, Is
<1> QED BY <1>1, <1>2

\* A job that waits is not to be restarted.
LEMMA NoRestart ==
  ASSUME LimitedOK, NEW d \in Docs, Untouched(d), job[d].state = "queued"
  PROVE  "RESTART" \notin job[d].Status
BY DEF LimitedOK, Limited, QueueCounts, Queued, Is

\* DeleteJob after a call without SplSem,
LEMMA CallsLimited ==
  ASSUME StoreInv, StoreInv', RebootsOK', LimitedOK, NEW t \in Threads,
         Cancelled(t) \/ ShadowDeleted(t)
  PROVE  LimitedOK'
<1>0. thread[t].pc \in CallPcs /\ FileStep(t) /\ UNCHANGED <<shadow, died, asked>>
  BY DEF Cancelled, ShadowDeleted, At, CallPcs, FileStep, disk, history
<1>1. PICK d \in Docs : d = thread[t].doc BY <1>0, Known DEF ThreadOK, CallPcs
<1>2. /\ job[d] \in JobRecords /\ job[d].cRef - 1 \in Int /\ job[d].state = "queued"
      /\ thread[t].then \in {"idle", "sent"} /\ Calls(thread[t], d)
      /\ Returns(t, d, thread[t].then)
  BY <1>0, <1>1, AtJobs, Known DEF Referring, ThreadOK, Calls, Returns
<1>3. InMemory(t) /\ RebootsSame BY <1>0, CallsInMemory, FileReboots
<1>4. ASSUME NEW j \in JobRecords, Left(t, d, j, thread[t].then), Unmarked(d, j),
             \A f \in {"PRINTED", "PENDING_DELETION", "RESTART"} : f \in j.Status <=> Is(d, f),
             "RESTART" \notin j.Status => Marks(d, j), Deletes(t, d, j, thread[t].then)
      PROVE  LimitedOK'
  <2>1. \A e \in Docs : Untouched(e) => JobSpared(e)
    <3>1. SUFFICES ASSUME NEW e \in Docs, Untouched(e) PROVE JobSpared(e) OBVIOUS
    <3>2. e = d => "RESTART" \notin job[d].Status BY <1>2, <3>1, NoRestart
    <3> QED BY <1>2, <1>3, <1>4, <3>2, LeftSpared DEF RebootsSame, Is
  <2>2. Rests(thread'[t]) BY <1>2, <1>4, DeletesRest
  <2>3. t # Port => thread'[Port] = thread[Port] BY <1>4 DEF Left, Threads
  <2> QED BY <1>0, <2>1, <2>2, <2>3, AwayKeeps
<1>5. CASE Cancelled(t)
  <2> DEFINE n == job[d].cRef - 1
             j == [job[d] EXCEPT !.cRef = n]
  <2>1. DeleteUnlessPrinting(t, d, j, thread[t].then) BY <1>1, <1>5 DEF Cancelled
  <2>2. n \in Int BY <1>2
  <2> HIDE DEF n
  <2>3. j \in JobRecords /\ j.Status = job[d].Status BY <1>2, <2>2 DEF JobRecords
  <2> HIDE DEF j
  <2>4. Left(t, d, j, thread[t].then) /\ Unmarked(d, j)
    BY <1>2, <2>1, <2>3, DeleteUnlessPrintingLeft
  <2>5. "RESTART" \notin j.Status => Marks(d, j) BY <2>1, <2>3, UnlessPrintingMarks
  <2>6. Deletes(t, d, j, thread[t].then) BY <2>1, <2>3, DeleteUnlessPrintingDeletes
  <2> QED BY <1>4, <2>3, <2>4, <2>5, <2>6 DEF Is
<1>6. CASE ShadowDeleted(t)
  <2> DEFINE n == job[d].cRef - 1
             s == IF At(t, "shadowKept") THEN job[d].Status \ {"SHADOW_DELETED"} ELSE job[d].Status
             j == [job[d] EXCEPT !.cRef = n, !.Status = s]
  <2>1. SetJob(d, j) /\ Resume(t, thread[t].then) BY <1>1, <1>6 DEF ShadowDeleted
  <2>2. /\ \A f \in {"PRINTED", "PENDING_DELETION", "RESTART"} : f \in s <=> Is(d, f)
        /\ n \in Int /\ s \in SUBSET Flags
    BY <1>2 DEF Is, JobRecords
  <2> HIDE DEF n, s
  <2>3. j \in JobRecords /\ j.Status = s BY <1>2, <2>2 DEF JobRecords
  <2> HIDE DEF j
  <2>4. Left(t, d, j, thread[t].then) /\ Unmarked(d, j) BY <1>2, <2>1, <2>3, ResumeLeft
  <2>5. "RESTART" \notin j.Status => Marks(d, j) BY <2>1, MarksBy
  <2>6. Deletes(t, d, j, thread[t].then) BY <2>1, <2>3, ResumeDeletes
  <2> QED BY <1>4, <2>2, <2>3, <2>4, <2>5, <2>6
<1> QED BY <1>5, <1>6

\* and what follows WriteShadowJob.
LEMMA ReenterLimited ==
  ASSUME StoreInv, StoreInv', RebootsOK', LimitedOK, NEW t \in Threads, Reenter(t)
  PROVE  LimitedOK'
<1>0. /\ thread[t].pc \in {"written", "unwritten"} /\ thread[t].pc \in WritePcs
      /\ FileStep(t) /\ UNCHANGED <<shadow, died, asked>>
  BY DEF Reenter, WritePcs, FileStep, disk, history
<1>1. PICK d \in Docs : d = thread[t].doc BY <1>0, Known DEF ThreadOK, WritePcs
<1>2. PICK then \in {"endDoc", "query", "kept"} :
        then = thread[t].then /\ (t # Port => then = "endDoc") /\ (t = Port => then # "endDoc")
  BY <1>0, Known DEF ThreadOK
<1>3. job[d] \in JobRecords /\ job[d].state = "queued"
  BY <1>0, <1>1, AtJobs, Known DEF Referring
<1> DEFINE s == IF At(t, "written") THEN job[d].Status \ {"SHADOW_DELETED"} ELSE job[d].Status
           j == [job[d] EXCEPT !.Status = s]
<1>4. ShadowWritten(t, d, j, then) BY <1>1, <1>2 DEF Reenter
<1>5. /\ s \in SUBSET Flags
      /\ \A f \in {"PRINTED", "PENDING_DELETION", "RESTART"} : f \in s <=> Is(d, f)
  BY <1>3 DEF JobRecords, Is
<1> HIDE DEF s
<1>6. j \in JobRecords /\ j.Status = s BY <1>3, <1>5 DEF JobRecords
<1> HIDE DEF j
<1>7. InMemory(t) /\ RebootsSame BY <1>0, ReenterInMemory, FileReboots
<1>8. Left(t, d, j, then) /\ Unmarked(d, j) BY <1>4, <1>6, ShadowWrittenLeft
<1>9. \A e \in Docs : Untouched(e) => JobSpared(e)
  <2>1. SUFFICES ASSUME NEW e \in Docs, Untouched(e) PROVE JobSpared(e) OBVIOUS
  <2>2. e = d => Marks(d, j)
    <3>1. e = d => "RESTART" \notin job[d].Status BY <1>3, <2>1, NoRestart
    <3> QED BY <1>4, <1>5, <1>6, <3>1, ShadowWrittenMarks DEF Is
  <2> QED BY <1>3, <1>5, <1>6, <1>7, <1>8, <2>2, LeftSpared DEF RebootsSame
<1>10. CASE t # Port
  <2>1. thread'[Port] = thread[Port] BY <1>8, <1>10 DEF Left, Threads
  <2> QED BY <1>0, <1>9, <2>1, AwayKeeps
<1>11. CASE then = "kept" /\ t = Port
  <2>1. Rests(thread'[Port]) BY <1>4, <1>6, <1>11, KeptRests
  <2> QED BY <1>0, <1>9, <2>1, AwayKeeps
\* The attempt that was written goes on.
<1>12. CASE then = "query" /\ t = Port
  <2> DEFINE r == [Idle EXCEPT !.pc = "query", !.doc = d]
  <2>1. thread' = [thread EXCEPT ![Port] = r] BY <1>4, <1>12 DEF ShadowWritten
  <2>2. r.pc = "query" /\ r.doc = d BY DEF Idle
  <2> HIDE DEF r
  <2>3. thread'[Port] = r BY <1>12, <2>1, Known DEF CoreTypes
  <2>4. Recorded(thread[Port], d) BY <1>0, <1>1, <1>2, <1>12 DEF Recorded, Counted
  <2>5. ASSUME NEW e \in Docs, Untouched(e) PROVE JobTracks(e) /\ PortTracks(e)
    <3>1. job[e].dwReboots = job'[e].dwReboots /\ job[e].dwReboots \in Int
      BY <1>7 DEF RebootsSame, StoreInv, Types, JobRecords
    <3>2. JobTracks(e) BY <1>9, <2>5, <3>1 DEF JobSpared, JobTracks
    <3>3. PortTracks(e)
      BY <2>2, <2>3, <2>4, <3>1 DEF PortTracks, Assigned, Counted, Recorded
    <3> QED BY <3>2, <3>3
  <2> QED BY <1>0, <2>5, LimitedKeeps
<1> QED BY <1>2, <1>10, <1>11, <1>12

LEMMA FileLimited ==
  ASSUME StoreInv, StoreInv', RebootsOK', LimitedOK, NEW t \in Threads,
         RemoveSpool(t) \/ FreeId(t) \/ CloseShadowFile(t)
  PROVE  LimitedOK'
<1>0. /\ UNCHANGED <<job, shadow, died, asked>>
      /\ \A e \in Docs : job[e].dwReboots \in Int
  BY DEF RemoveSpool, FreeId, CloseShadowFile, disk, history, StoreInv, Types, JobRecords
<1>1. \A e \in Docs : JobSpared(e) /\ JobTracks(e) BY <1>0 DEF JobSpared, JobTracks, Is
<1>2. CASE t # Port
  <2>1. thread'[Port] = thread[Port] BY <1>2, FileMoves DEF Moderate, Threads
  <2> QED BY <1>0, <1>1, <2>1, AwayKeeps
<1>3. CASE t = Port /\ ~ CloseShadowFile(t)
  <2>1. thread[t].pc \in RemovePcs /\ thread[t].then = "idle"
    BY <1>3, Known DEF RemoveSpool, FreeId, At, RemovePcs, ThreadOK
  <2>2. GoTo(t, "freeId") \/ Resume(t, "idle") BY <1>3, <2>1 DEF RemoveSpool, FreeId
  <2>3. thread'[t].pc \in {"freeId", "idle"}
    BY <2>2, Known DEF GoTo, Resume, Resumed, Idle, CoreTypes, ThreadRecords
  <2>4. Rests(thread'[Port]) BY <1>3, <2>3 DEF Rests, WritePcs
  <2> QED BY <1>0, <1>1, <2>4, AwayKeeps
<1>4. CASE t = Port /\ CloseShadowFile(t)
  <2>1. thread[Port].pc = "closeFile" /\ GoTo(Port, "written") BY <1>4 DEF CloseShadowFile, At
  <2>2. /\ thread'[Port].pc = "written" /\ thread'[Port].doc = thread[Port].doc
        /\ thread'[Port].then = thread[Port].then
    BY <1>4, <2>1, GoToModerate DEF CallPcs, WritePcs
  <2>3. \A e \in Docs : PortTracks(e)
    BY <1>0, <2>1, <2>2 DEF PortTracks, Assigned, Counted, Recorded, WritePcs
  <2> QED BY <1>0, <1>1, <2>3, LimitedKeeps
<1> QED BY <1>2, <1>3, <1>4

LEMMA SameSpared == ASSUME NEW e, job'[e] = job[e] PROVE JobSpared(e)
BY DEF JobSpared, Is

\* Clients: what they do to the queue, but for EndDocPrinter and DeleteJob,
LEMMA QuietLimited ==
  ASSUME StoreInv, StoreInv', RebootsOK', LimitedOK, NEW c \in Clients,
         thread'[Port] = thread[Port],
         \/ CreateSpoolFile(c) \/ SpoolThisJobFails(c) \/ ClosePrinter(c) \/ Closed(c)
         \/ UnblockJobs(c) \/ \E d \in Docs : StartDocPrinter(c, d) \/ RestartJob(c, d)
  PROVE  LimitedOK'
<1>1. CASE CreateSpoolFile(c) \/ SpoolThisJobFails(c) \/ ClosePrinter(c) \/ Closed(c)
           \/ \E d \in Docs : StartDocPrinter(c, d)
  <2>1. UNCHANGED <<shadow, died, asked>>
    BY <1>1 DEF CreateSpoolFile, SpoolThisJobFails, ClosePrinter, Closed, StartDocPrinter, disk, history
  <2>2. \A e \in Docs : job'[e].state = "queued" => job'[e] = job[e] BY <1>1, RestsMove
  <2>3. \A e \in Docs : JobSpared(e) BY <2>2 DEF JobSpared, Is
  <2> QED BY <2>1, <2>3, AwayKeeps
<1>2. CASE UnblockJobs(c)
  <2>1. UNCHANGED <<shadow, died, asked>> BY <1>2 DEF UnblockJobs, disk, history
  <2>2. ASSUME NEW e \in Docs PROVE JobSpared(e)
    <3>1. job'[e] = [job[e] EXCEPT !.Status = job[e].Status \ {"BLOCKED_DEVQ"}]
      BY <1>2 DEF UnblockJobs
    <3>2. /\ job'[e].state = job[e].state /\ job'[e].JobId = job[e].JobId
          /\ job'[e].dwReboots = job[e].dwReboots
          /\ job'[e].Status = job[e].Status \ {"BLOCKED_DEVQ"}
      BY <3>1, Known DEF JobRecords
    <3> QED BY <3>2 DEF JobSpared, Is
  <2> QED BY <2>1, <2>2, AwayKeeps
\* A document that is restarted is not counted on.
<1>3. ASSUME NEW d \in Docs, RestartJob(c, d) PROVE LimitedOK'
  <2>1. UNCHANGED <<shadow, died>> BY <1>3 DEF RestartJob, disk
  <2>2. (\A e \in Docs : asked[e] \subseteq asked'[e]) /\ (d \in Emf => asked'[d] # {})
    <3>1. asked \in [Docs -> SUBSET {"DELETE", "RESTART"}] BY DEF StoreInv, Types
    <3>2. asked' = IF d \in Emf THEN [asked EXCEPT ![d] = asked[d] \cup {"RESTART"}] ELSE asked
      BY <1>3 DEF RestartJob
    <3> QED BY <3>1, <3>2
  <2>3. \A e \in Docs : e # d => job'[e] = job[e]
    <3>1. PICK k : SetJob(d, k) BY <1>3 DEF RestartJob
    <3> QED BY <3>1, Known DEF SetJob, CoreTypes
  <2>4. ~ Untouched(d)' BY <2>2 DEF Untouched
  <2>5. \A e \in Docs : Untouched(e)' => JobSpared(e) BY <2>3, <2>4, SameSpared
  <2> QED BY <2>1, <2>2, <2>5, AwayKeeps
<1> QED BY <1>1, <1>2, <1>3

\* SpoolThisJob, whose document was never printed,
LEMMA SpoolLimited ==
  ASSUME StoreInv, StoreInv', RebootsOK', FreshOK, LimitedOK, NEW c \in Clients,
         thread'[Port] = thread[Port], SpoolThisJob(c)
  PROVE  LimitedOK'
<1>0. c \in Threads /\ thread[c].pc = "queue" /\ UNCHANGED <<shadow, died, asked>>
  BY DEF Threads, SpoolThisJob, disk, history, At
<1>1. PICK d \in Docs : d = thread[c].doc /\ job[d].state = "submitted" /\ job[d] \in JobRecords
  BY <1>0, Known DEF ThreadOK, SubmitPcs
<1>2. died[d] = 0 BY <1>0, <1>1 DEF FreshOK, Fresh, SubmitPcs
<1> DEFINE k == NewJob(d, thread[c].id, {"SPOOLING"})
           g == [job[d] EXCEPT !.state = "gone"]
<1>3. SetJob(d, k) \/ SetJob(d, g) BY <1>1 DEF SpoolThisJob
<1>4. k.Status = {"SPOOLING"} /\ g.state = "gone" BY <1>1 DEF NewJob, JobRecords
<1> HIDE DEF k, g
<1>5. (job'[d] = k \/ job'[d] = g) /\ \A e \in Docs : e # d => job'[e] = job[e]
  BY <1>3, Known DEF SetJob, CoreTypes
<1>6. JobSpared(d) BY <1>1, <1>2, <1>4, <1>5 DEF JobSpared, Is
<1>7. \A e \in Docs : JobSpared(e) BY <1>5, <1>6, SameSpared
<1> QED BY <1>0, <1>7, AwayKeeps

\* ... EndDocPrinter,
LEMMA EndDocLimited ==
  ASSUME StoreInv, StoreInv', RebootsOK', LimitedOK, NEW c \in Clients,
         thread'[Port] = thread[Port], ClientReboots, InMemory(c), EndDocPrinter(c)
  PROVE  LimitedOK'
<1>0. c \in Threads /\ c # Port BY ConstantsAssumption DEF Threads
<1>1. handle[c].STARTDOC /\ UNCHANGED <<shadow, died, asked>> BY DEF EndDocPrinter, disk, history
<1>2. PICK d \in Docs : d = handle[c].pIniJob /\ Spools(handle[c], d)
  BY <1>1, Known DEF HandleOK, Spools
<1>3. job[d].state = "queued" /\ job[d] \in JobRecords BY <1>0, <1>2, ReferredQueued, Known
<1> DEFINE s == job[d].Status \ {"SPOOLING"}
           j == [job[d] EXCEPT !.Status = s]
<1>4. WriteShadowJob(c, d, j, "endDoc") BY <1>2 DEF EndDocPrinter
<1>5. s \in SUBSET Flags /\ \A f \in {"PRINTED", "PENDING_DELETION", "RESTART"} : f \in s <=> Is(d, f)
  BY <1>3 DEF JobRecords, Is
<1> HIDE DEF s
<1>6. j \in JobRecords /\ j.Status = s BY <1>3, <1>5 DEF JobRecords
<1> HIDE DEF j
<1>7. Left(c, d, j, "endDoc") /\ Unmarked(d, j) BY <1>0, <1>4, <1>6, WriteShadowJobLeft
<1>8. \A e \in Docs : job[e].state = "queued" => job'[e].dwReboots = job[e].dwReboots
  BY DEF ClientReboots
<1>9. \A e \in Docs : Untouched(e) => JobSpared(e)
  <2>1. SUFFICES ASSUME NEW e \in Docs, Untouched(e) PROVE JobSpared(e) OBVIOUS
  <2>2. e = d => "RESTART" \notin j.Status BY <1>3, <1>5, <1>6, <2>1, NoRestart DEF Is
  <2>3. e = d => Marks(d, j) BY <1>0, <1>4, <1>6, <2>2, WriteShadowJobMarks
  <2> QED BY <1>0, <1>3, <1>5, <1>6, <1>7, <1>8, <2>3, LeftSpared
<1> QED BY <1>1, <1>9, AwayKeeps

\* ... and a user's DeleteJob, of a document that is not counted on.
LEMMA DeleteLimited ==
  ASSUME StoreInv, StoreInv', RebootsOK', LimitedOK, NEW c \in Clients, NEW d \in Docs,
         thread'[Port] = thread[Port], DeleteByUser(c, d)
  PROVE  LimitedOK'
<1>0. c \in Threads /\ c # Port BY ConstantsAssumption DEF Threads
<1>1. job[d] \in JobRecords /\ UNCHANGED <<shadow, died>> BY Known DEF DeleteByUser, disk
<1>2. (\A e \in Docs : asked[e] \subseteq asked'[e]) /\ "DELETE" \in asked'[d]
  <2>1. asked \in [Docs -> SUBSET {"DELETE", "RESTART"}] BY DEF StoreInv, Types
  <2>2. asked' = [asked EXCEPT ![d] = asked[d] \cup {"DELETE"}] BY DEF DeleteByUser
  <2> QED BY <2>1, <2>2
<1> DEFINE s == job[d].Status \ {"RESTART"}
           j == [job[d] EXCEPT !.Status = s]
<1>3. DeleteJob(c, d, j, "idle") BY DEF DeleteByUser
<1>4. s \in SUBSET Flags BY <1>1 DEF JobRecords
<1> HIDE DEF s
<1>5. j \in JobRecords BY <1>1, <1>4 DEF JobRecords
<1> HIDE DEF j
<1>6. Left(c, d, j, "idle") BY <1>0, <1>3, <1>5, DeleteJobLeft DEF Returns
<1>7. ~ Untouched(d)' BY <1>2 DEF Untouched
<1>8. \A e \in Docs : Untouched(e)' => JobSpared(e) BY <1>6, <1>7, SameSpared DEF Left
<1> QED BY <1>1, <1>2, <1>8, AwayKeeps

LEMMA ClientLimited ==
  ASSUME StartDocOnly, StoreInv, StoreInv', RebootsOK', FreshOK, LimitedOK,
         NEW c \in Clients, ClientStep(c)
  PROVE  LimitedOK'
<1>0. ClientReboots /\ thread'[Port] = thread[Port] BY ClientStepReboots
<1>1. CASE \/ CreateSpoolFile(c) \/ SpoolThisJobFails(c) \/ ClosePrinter(c) \/ Closed(c)
           \/ UnblockJobs(c) \/ \E d \in Docs : StartDocPrinter(c, d) \/ RestartJob(c, d)
  BY <1>0, <1>1, QuietLimited
<1>2. CASE SpoolThisJob(c) BY <1>0, <1>2, SpoolLimited
<1>3. CASE EndDocPrinter(c) BY <1>0, <1>3, EndDocInMemory, EndDocLimited
<1>4. CASE \E d \in Docs : DeleteByUser(c, d) BY <1>0, <1>4, DeleteLimited
<1> QED BY <1>1, <1>2, <1>3, <1>4, ClientCases

\* The port thread is at one document.
LEMMA AtDocLimited ==
  ASSUME StoreInv, StoreInv', RebootsOK', LimitedOK, UNCHANGED <<shadow, died, asked>>,
         NEW d \in Docs, \A e \in Docs : e # d => job'[e] = job[e],
         thread'[Port].doc = d \/ Rests(thread'[Port]),
         Untouched(d) => JobTracks(d) /\ PortTracks(d)
  PROVE  LimitedOK'
<1> SUFFICES ASSUME NEW e \in Docs, Untouched(e), e # d PROVE JobTracks(e) /\ PortTracks(e)
  BY LimitedKeeps
<1>1. job'[e] = job[e] /\ job[e].dwReboots \in Int BY DEF StoreInv, Types, JobRecords
<1>2. JobTracks(e) BY <1>1 DEF JobTracks, Is
<1>3. PortTracks(e)
  <2>1. CASE thread'[Port].doc = d BY <2>1 DEF PortTracks, Assigned, Counted
  <2>2. CASE Rests(thread'[Port]) BY <2>2, RestsNowhere DEF PortTracks
  <2> QED BY <2>1, <2>2
<1> QED BY <1>2, <1>3

\* It sets its status only.
LEMMA StatusTracks ==
  ASSUME StoreInv, NEW d \in Docs, job[d].state = "queued", NEW k,
         UNCHANGED job \/ SetJob(d, k),
         k.JobId = job[d].JobId, k.dwReboots = job[d].dwReboots,
         "RESTART" \in k.Status => Is(d, "RESTART"),
         Is(d, "PRINTED") => "PRINTED" \in k.Status
  PROVE  /\ JobTracks(d) /\ job'[d].dwReboots = job[d].dwReboots
         /\ \A e \in Docs : e # d => job'[e] = job[e]
<1>1. job[d].dwReboots \in Int BY DEF StoreInv, Types, JobRecords
<1>2. (job'[d] = job[d] \/ job'[d] = k) /\ \A e \in Docs : e # d => job'[e] = job[e]
  BY Known DEF SetJob, CoreTypes
<1> QED BY <1>1, <1>2 DEF JobTracks, Is

\* What DeleteJob and WriteShadowJob leave of it, when j is the job with no attempt taken from it,
\* or was printed.
LEMMA MarksTrack ==
  ASSUME StoreInv, StoreInv', NEW d \in Docs, NEW j, job[d].state = "queued", InMemory(Port),
         Marks(d, j),
         \/ "PRINTED" \in j.Status
         \/ ~ Is(d, "PRINTED") /\ job[d].dwReboots <= job'[d].dwReboots
  PROVE  JobTracks(d)
<1> SUFFICES ASSUME job'[d].state = "queued" PROVE JobTracks(d) BY DEF JobTracks
<1>1. job'[d].JobId = job[d].JobId BY MemoryFacts DEF InMemory, Threads
<1> QED BY <1>1 DEF JobTracks, Marks, Is

LEMMA PortAssignLimited ==
  ASSUME StoreInv, StoreInv', RebootsOK', LimitedOK, AssignJobs
  PROVE  LimitedOK'
<1>1. PICK d \in Docs : AssignJob(d) BY DEF AssignJobs
<1>2. /\ job[d].state = "queued" /\ job[d] \in JobRecords /\ UNCHANGED <<shadow, died, asked>>
      /\ ~ Is(d, "PRINTED") /\ ~ Is(d, "PENDING_DELETION")
  <2>1. {"PRINTED", "PENDING_DELETION"} \subseteq Flags \ {"SCHEDULE_JOB", "RESTART", "SHADOW_DELETED"}
    BY DEF Flags
  <2> QED BY <1>1, <2>1, Known DEF AssignJob, Queued, Is, disk, history
<1> DEFINE s == job[d].Status \cup {"DESPOOLING"}
           n == job[d].cRef + 1
           k == [job[d] EXCEPT !.Status = s, !.cRef = n]
           r == [Idle EXCEPT !.pc = "assigned", !.doc = d]
<1>3. SetJob(d, k) /\ thread' = [thread EXCEPT ![Port] = r] BY <1>1 DEF AssignJob
<1>4. /\ \A f \in {"PRINTED", "PENDING_DELETION", "RESTART"} : f \in s <=> Is(d, f)
      /\ r.pc = "assigned" /\ r.doc = d
  BY DEF Is, Idle
<1> HIDE DEF s, n, r
<1>5. k.Status = s /\ k.JobId = job[d].JobId /\ k.dwReboots = job[d].dwReboots
  BY <1>2 DEF JobRecords
<1> HIDE DEF k
<1>6. thread'[Port] = r /\ job'[d] = k BY <1>3, Known DEF CoreTypes, SetJob, Threads
<1>7. JobTracks(d) /\ \A e \in Docs : e # d => job'[e] = job[e]
  BY <1>2, <1>3, <1>4, <1>5, StatusTracks
<1>8. PortTracks(d)
  BY <1>2, <1>4, <1>5, <1>6 DEF PortTracks, Assigned, Counted, Recorded, Is, WritePcs
<1> QED BY <1>2, <1>4, <1>6, <1>7, <1>8, AtDocLimited

\* The attempt that is counted at a job that is not to be restarted.
LEMMA AttemptAdds ==
  ASSUME NEW d \in Docs, d \in Emf, NEW j \in JobRecords, "RESTART" \notin j.Status
  PROVE  Attempt(d, j).dwReboots = j.dwReboots + 1
<1> DEFINE s == j.Status \ {"RESTART"}
           n == j.dwReboots + 1
<1>1. Attempt(d, j) = [j EXCEPT !.Status = s, !.dwReboots = n] BY DEF Attempt, JobRecords
<1> HIDE DEF s, n
<1>2. [j EXCEPT !.Status = s, !.dwReboots = n].dwReboots = n BY DEF JobRecords
<1> QED BY <1>1, <1>2 DEF n

\* The job is not deleted, so its shadow file is written.
LEMMA PortBeginsLimited ==
  ASSUME StoreInv, StoreInv', CrashInv, RebootsOK', LimitedOK, PortBegins
  PROVE  LimitedOK'
<1>0. /\ thread[Port].pc = "assigned" /\ thread[Port].pc \in PortPcs
      /\ UNCHANGED <<shadow, died, asked>>
  BY DEF PortBegins, At, PortPcs, disk, history
<1>1. PICK d : d = thread[Port].doc OBVIOUS
<1>2. /\ Port \in Threads /\ d \in Docs /\ job[d].state = "queued" /\ job[d] \in JobRecords
      /\ job[d].dwReboots \in Int /\ MarkOK(d)
  BY <1>0, <1>1, PortFinds
<1> DEFINE j == Attempt(d, job[d])
<1>3. /\ j \in JobRecords /\ j.Status = job[d].Status \ {"RESTART"} /\ j.JobId = job[d].JobId
      /\ d \in Emf /\ "RESTART" \notin job[d].Status => j.dwReboots = job[d].dwReboots + 1
  BY <1>2, AttemptJob, AttemptAdds
<1>4. \/ d \in Emf /\ WriteShadowJob(Port, d, j, "query")
      \/ d \notin Emf /\ ShadowWritten(Port, d, j, "query")
  BY <1>1 DEF PortBegins
<1> HIDE DEF j
<1>5. Left(Port, d, j, "query")
  BY <1>2, <1>3, <1>4, WriteShadowJobLeft, ShadowWrittenLeft
<1>6. \A e \in Docs : e # d => job'[e] = job[e] BY <1>5 DEF Left
<1>7. thread'[Port].doc = d
  <2> DEFINE q == [Idle EXCEPT !.pc = "query", !.doc = d]
             r == [pc |-> "createFile", doc |-> d, id |-> j.JobId, then |-> "query"]
  <2>1. thread' = [thread EXCEPT ![Port] = q] \/ thread' = [thread EXCEPT ![Port] = r]
    BY <1>4 DEF WriteShadowJob, ShadowWritten
  <2>2. q.doc = d /\ r.doc = d BY DEF Idle
  <2> HIDE DEF q, r
  <2> QED BY <1>2, <2>1, <2>2, Known DEF CoreTypes
<1>8. ASSUME Untouched(d) PROVE JobTracks(d) /\ PortTracks(d)
  <2>1. d \in Emf /\ asked[d] = {} /\ "RESTART" \notin job[d].Status
    BY <1>2, <1>8, NoRestart DEF Untouched
  <2>2. Assigned(thread[Port], d) /\ ~ Is(d, "PENDING_DELETION")
    BY <1>0, <1>1, <1>2, <1>8 DEF LimitedOK, Limited, PortCounts, Assigned
  <2>3. "SHADOW_DELETED" \notin j.Status BY <1>2, <1>3, <2>1, <2>2 DEF MarkOK, ToGo, Is
  <2> DEFINE r == [pc |-> "createFile", doc |-> d, id |-> j.JobId, then |-> "query"]
  <2>4. SetJob(d, j) /\ thread' = [thread EXCEPT ![Port] = r]
    BY <1>4, <2>1, <2>3 DEF WriteShadowJob
  <2>5. r.pc = "createFile" OBVIOUS
  <2> HIDE DEF r
  <2>6. thread'[Port] = r /\ job'[d] = j BY <1>2, <2>4, Known DEF CoreTypes, SetJob
  <2>7. JobTracks(d) BY <1>2, <1>3, <2>1, <2>6 DEF JobTracks, Is
  <2>8. PortTracks(d) BY <1>2, <1>3, <2>1, <2>2, <2>5, <2>6 DEF PortTracks, Assigned, Counted, Recorded
  <2> QED BY <2>7, <2>8
<1> QED BY <1>0, <1>2, <1>6, <1>7, <1>8, AtDocLimited

LEMMA PortQueriesLimited ==
  ASSUME StoreInv, StoreInv', RebootsOK', LimitedOK, PortQueries \/ PortStops
  PROVE  LimitedOK'
<1>0. /\ thread[Port].pc \in {"query", "sent"} /\ thread[Port].pc \in PortPcs
      /\ UNCHANGED <<shadow, died, asked>>
  BY DEF PortQueries, PortStops, At, PortPcs, disk, history
<1>1. PICK d \in Docs : d = thread[Port].doc /\ job[d].state = "queued" /\ job[d] \in JobRecords
  BY <1>0, PortBusyKnown
<1>2. PICK s : /\ UNCHANGED job \/ SetJob(d, [job[d] EXCEPT !.Status = s])
               /\ \A f \in {"PRINTED", "RESTART"} : f \in s <=> Is(d, f)
  <2>1. \A f \in {"PRINTED", "RESTART"} : /\ f \in job[d].Status \cup {"PRINTING"} <=> Is(d, f)
                                          /\ f \in job[d].Status \ {"PRINTING"} <=> Is(d, f)
    BY DEF Is
  <2>2. \/ UNCHANGED job \/ SetJob(d, [job[d] EXCEPT !.Status = job[d].Status \cup {"PRINTING"}])
        \/ SetJob(d, [job[d] EXCEPT !.Status = job[d].Status \ {"PRINTING"}])
    BY <1>1 DEF PortQueries, PortStops
  <2> QED BY <2>1, <2>2
<1>3. PICK pc \in {"refused", "end", "printing"} :
        GoTo(Port, pc) /\ (pc = "printing" => thread[Port].pc = "query")
  BY DEF PortQueries, PortStops, At
<1> DEFINE k == [job[d] EXCEPT !.Status = s]
           r == [thread[Port] EXCEPT !.pc = pc]
<1>4. UNCHANGED job \/ SetJob(d, k) BY <1>2
<1>5. k.Status = s /\ k.JobId = job[d].JobId /\ k.dwReboots = job[d].dwReboots
  BY <1>1 DEF JobRecords
<1>6. thread' = [thread EXCEPT ![Port] = r] BY <1>3 DEF GoTo
<1>7. r.pc = pc /\ r.doc = d BY <1>1, Known DEF Threads, ThreadRecords
<1> HIDE DEF k, r
<1>8. thread'[Port] = r BY <1>6, Known DEF CoreTypes, Threads
<1>9. /\ JobTracks(d) /\ job'[d].dwReboots = job[d].dwReboots /\ job[d].dwReboots \in Int
      /\ \A e \in Docs : e # d => job'[e] = job[e]
  BY <1>1, <1>2, <1>4, <1>5, StatusTracks DEF JobRecords
<1>10. PortTracks(d)
  BY <1>1, <1>3, <1>7, <1>8, <1>9 DEF PortTracks, Assigned, Counted, Recorded, WritePcs
<1> QED BY <1>0, <1>7, <1>8, <1>9, <1>10, AtDocLimited

LEMMA PortSendsLimited ==
  ASSUME StoreInv, StoreInv', RebootsOK', LimitedOK, PortSends
  PROVE  LimitedOK'
<1>0. /\ thread[Port].pc \in PortPcs /\ UNCHANGED <<shadow, died, asked>> /\ Port \in Threads
      /\ InMemory(Port)
  BY PortInMemory DEF PortSends, At, PortPcs, disk, history, Threads, PortStep
<1>1. PICK d \in Docs : d = thread[Port].doc /\ job[d].state = "queued" /\ job[d] \in JobRecords
  BY <1>0, PortBusyKnown
<1> DEFINE s == job[d].Status \cup {"PRINTED"}
           j == [job[d] EXCEPT !.Status = s]
<1>2. /\ s \in SUBSET Flags /\ "PRINTED" \in s
      /\ "RESTART" \in s => Is(d, "RESTART")
  BY <1>1 DEF JobRecords, Flags, Is
<1>3. DeleteJob(Port, d, j, "sent") \/ (GoTo(Port, "sent") /\ (UNCHANGED job \/ SetJob(d, j)))
  BY <1>1 DEF PortSends
<1> HIDE DEF s
<1>4. /\ j \in JobRecords /\ j.Status = s /\ j.JobId = job[d].JobId
      /\ j.dwReboots = job[d].dwReboots
  BY <1>1, <1>2 DEF JobRecords
<1> HIDE DEF j
<1>5. CASE DeleteJob(Port, d, j, "sent")
  <2>1. Rests(thread'[Port]) BY <1>0, <1>4, <1>5, DeleteJobDeletes, DeletesRest
  <2>2. \A e \in Docs : e # d => job'[e] = job[e]
    BY <1>0, <1>1, <1>4, <1>5, DeleteJobLeft DEF Left, Returns
  <2>3. ASSUME Untouched(d) PROVE JobTracks(d) /\ PortTracks(d)
    <3>1. "RESTART" \notin j.Status BY <1>1, <1>2, <1>4, <2>3, NoRestart DEF Is
    <3>2. Marks(d, j) BY <1>0, <1>4, <1>5, <3>1, DeleteJobMarks
    <3>3. JobTracks(d) BY <1>0, <1>1, <1>2, <1>4, <3>2, MarksTrack
    <3> QED BY <2>1, <3>3, RestsNowhere DEF PortTracks
  <2> QED BY <1>0, <2>1, <2>2, <2>3, AtDocLimited
<1>6. CASE GoTo(Port, "sent") /\ (UNCHANGED job \/ SetJob(d, j))
  <2>1. thread'[Port].pc = "sent"
    BY <1>0, <1>6, Known DEF GoTo, CoreTypes, ThreadRecords
  <2>2. Rests(thread'[Port]) BY <2>1 DEF Rests, WritePcs
  <2>3. JobTracks(d) /\ \A e \in Docs : e # d => job'[e] = job[e]
    BY <1>1, <1>2, <1>4, <1>6, StatusTracks
  <2>4. PortTracks(d) BY <2>2, RestsNowhere DEF PortTracks
  <2> QED BY <1>0, <2>2, <2>3, <2>4, AtDocLimited
<1> QED BY <1>3, <1>5, <1>6

\* A job that is kept was printed; one that is not is left its attempts.
LEMMA PortEndsLimited ==
  ASSUME StoreInv, StoreInv', RebootsOK', LimitedOK, PortEnds
  PROVE  LimitedOK'
<1>0. /\ thread[Port].pc \in PortPcs /\ UNCHANGED <<shadow, died, asked>> /\ Port \in Threads
      /\ InMemory(Port)
  BY PortInMemory DEF PortEnds, At, PortPcs, disk, history, Threads, PortStep
<1>1. PICK d \in Docs : d = thread[Port].doc /\ job[d].state = "queued" /\ job[d] \in JobRecords
  BY <1>0, PortBusyKnown
<1> DEFINE x == IF At(Port, "refused") THEN {"BLOCKED_DEVQ"}
                ELSE IF "RESTART" \in job[d].Status THEN {} ELSE {"PRINTED"}
           s == job[d].Status \cup x
           j == [job[d] EXCEPT !.Status = s]
<1>2. IF Keep THEN WriteShadowJob(Port, d, Kept(d, j), "kept") ELSE RemoveIniPortFromIniJob(Port, d, j)
  BY <1>1 DEF PortEnds
<1>3. /\ s \in SUBSET Flags /\ (Is(d, "PRINTED") => "PRINTED" \in s)
      /\ "RESTART" \in s => Is(d, "RESTART")
  BY <1>1 DEF Is, JobRecords, Flags
<1> HIDE DEF s
<1>4. j \in JobRecords /\ j.Status = s /\ j.dwReboots = job[d].dwReboots BY <1>1, <1>3 DEF JobRecords
<1> HIDE DEF j
<1>5. CASE Keep
  <2> DEFINE k == Kept(d, j)
  <2>1. k \in JobRecords /\ k.Status = (j.Status \ {"PENDING_DELETION"}) \cup {"PRINTED"}
    BY <1>4, KeptJob
  <2>2. WriteShadowJob(Port, d, k, "kept") BY <1>2, <1>5
  <2> HIDE DEF k
  <2>3. Rests(thread'[Port]) BY <1>0, <2>1, <2>2, KeptRests
  <2>4. \A e \in Docs : e # d => job'[e] = job[e]
    BY <1>0, <2>1, <2>2, WriteShadowJobLeft DEF Left
  <2>5. ASSUME Untouched(d) PROVE JobTracks(d) /\ PortTracks(d)
    <3>1. "RESTART" \notin k.Status BY <1>1, <1>3, <1>4, <2>1, <2>5, NoRestart DEF Is
    <3>2. Marks(d, k) BY <1>0, <2>1, <2>2, <3>1, WriteShadowJobMarks
    <3>3. JobTracks(d) BY <1>0, <1>1, <2>1, <3>2, MarksTrack
    <3> QED BY <2>3, <3>3, RestsNowhere DEF PortTracks
  <2> QED BY <1>0, <2>3, <2>4, <2>5, AtDocLimited
<1>6. CASE ~ Keep
  <2>1. RemoveIniPortFromIniJob(Port, d, j) BY <1>2, <1>6
  <2>2. Rests(thread'[Port]) BY <1>0, <1>4, <2>1, RemovePortRests
  <2>3. \A e \in Docs : e # d => job'[e] = job[e] BY <1>0, <1>4, <2>1, RemovePortLeft DEF Left
  <2>4. job'[d].dwReboots = job[d].dwReboots /\ job[d].dwReboots \in Int
    BY <1>0, <1>1, <1>4, <2>1, RemovePortReboots DEF Reboots, JobRecords
  <2>5. ASSUME Untouched(d) PROVE JobTracks(d) /\ PortTracks(d)
    <3>1. "RESTART" \notin j.Status BY <1>1, <1>3, <1>4, <2>5, NoRestart DEF Is
    <3>2. Marks(d, j) BY <1>0, <1>4, <2>1, <3>1, RemovePortMarks
    <3>3. JobTracks(d) BY <1>0, <1>1, <1>3, <1>4, <2>4, <3>2, MarksTrack
    <3> QED BY <2>2, <3>3, RestsNowhere DEF PortTracks
  <2> QED BY <1>0, <2>2, <2>3, <2>5, AtDocLimited
<1> QED BY <1>5, <1>6

LEMMA PortLimited ==
  ASSUME StoreInv, StoreInv', CrashInv, RebootsOK', LimitedOK, PortStep
  PROVE  LimitedOK'
BY PortAssignLimited, PortBeginsLimited, PortQueriesLimited, PortSendsLimited, PortEndsLimited
   DEF PortStep, AssignJobs

----------------------------------------------------------------------------
(* The steps at the shadow files.                                           *)

\* A shadow file gets what its job counts; only then, or with no crash to count, does the port
\* thread go by it.
LEMMA ShadowLimited ==
  ASSUME StoreInv, RebootsOK', LimitedOK, UNCHANGED <<job, died, asked>>,
         \A i \in Ids :
           \/ shadow'[i] = shadow[i] \/ shadow'[i].file # "good"
           \/ \E d \in Docs : job[d].state = "queued" /\ shadow'[i] = Shadow(d, job[d]),
         \A e \in Docs : Untouched(e) =>
           /\ Assigned(thread'[Port], e) => Assigned(thread[Port], e)
           /\ Counted(thread'[Port], e) => Counted(thread[Port], e)
           /\ Recorded(thread'[Port], e) /\ Good(e)' =>
                \/ died[e] = 0
                \/ Recorded(thread[Port], e) /\ File(e)' = File(e)
                \/ File(e)' = Shadow(e, job[e])
  PROVE  LimitedOK'
<1> SUFFICES ASSUME NEW e \in Docs, Untouched(e)' PROVE Limited(e)' BY DEF LimitedOK
<1>0. Untouched(e) /\ Limited(e) BY DEF Untouched, LimitedOK
<1>1. QueueCounts(e)' BY <1>0 DEF Limited, QueueCounts, Queued, Is
<1>2. ASSUME NEW i \in Ids, shadow'[i].file = "good", shadow'[i].doc = e
      PROVE  \/ "PRINTED" \in shadow'[i].Status /\ died[e] <= 2
             \/ died[e] <= shadow'[i].dwReboots + 1
  <2>1. CASE shadow'[i] = shadow[i] BY <1>0, <1>2, <2>1 DEF Limited, FilesCount
  <2>2. ASSUME NEW d \in Docs, job[d].state = "queued", shadow'[i] = Shadow(d, job[d])
        PROVE  \/ "PRINTED" \in shadow'[i].Status /\ died[e] <= 2
               \/ died[e] <= shadow'[i].dwReboots + 1
    <3>1. /\ d = e /\ shadow'[i].dwReboots = job[e].dwReboots
          /\ Is(e, "PRINTED") => "PRINTED" \in shadow'[i].Status
      BY <1>2, <2>2 DEF Shadow, Is
    <3> QED BY <1>0, <2>2, <3>1 DEF Limited, QueueCounts, Queued
  <2> QED BY <1>2, <2>1, <2>2
<1>3. FilesCount(e)' BY <1>2 DEF FilesCount
<1>4. PortCounts(e)'
  <2>1. Assigned(thread'[Port], e) => ~ Is(e, "PENDING_DELETION")' /\ died[e] <= job'[e].dwReboots + 1
    BY <1>0 DEF Limited, PortCounts, Is
  <2>2. Counted(thread'[Port], e) => died[e] <= job'[e].dwReboots
    BY <1>0 DEF Limited, PortCounts
  <2>3. ASSUME Recorded(thread'[Port], e), Good(e)' PROVE died[e] <= File(e)'.dwReboots
    <3>1. CASE died[e] = 0
      <4>1. job[e].JobId \in Ids BY Known DEF JobRecords
      <4> QED BY <3>1, <4>1 DEF File, RebootsOK
    <3>2. CASE Recorded(thread[Port], e) /\ File(e)' = File(e)
      BY <1>0, <2>3, <3>2 DEF Limited, PortCounts, Good
    <3>3. CASE File(e)' = Shadow(e, job[e]) BY <2>2, <2>3, <3>3 DEF Shadow, Recorded
    <3> QED BY <1>0, <2>3, <3>1, <3>2, <3>3
  <2> QED BY <2>1, <2>2, <2>3 DEF PortCounts
<1> QED BY <1>0, <1>1, <1>3, <1>4 DEF Limited

\* A file goes, or is emptied, and the port thread goes on with no attempt.
LEMMA ShadowGoesLimited ==
  ASSUME StoreInv, RebootsOK', LimitedOK, UNCHANGED <<job, died, asked>>,
         \A i \in Ids : shadow'[i] = shadow[i] \/ shadow'[i].file # "good",
         thread'[Port] = thread[Port] \/ Rests(thread'[Port])
  PROVE  LimitedOK'
<1>1. \A e \in Docs : Good(e)' => File(e)' = File(e)
  <2>1. \A e \in Docs : job[e].JobId \in Ids BY Known DEF JobRecords
  <2> QED BY <2>1 DEF Good, File
<1> QED BY <1>1, RestsNowhere, ShadowLimited

LEMMA DeleteShadowLimited ==
  ASSUME StoreInv, RebootsOK', LimitedOK, NEW t \in Threads, DeleteShadow(t) \/ RemoveShadow(t)
  PROVE  LimitedOK'
<1>1. UNCHANGED <<job, died, asked>> BY DEF DeleteShadow, RemoveShadow, history
<1>2. \A i \in Ids : shadow'[i] = shadow[i] \/ shadow'[i].file # "good"
  <2>1. shadow' = shadow \/ shadow' = [shadow EXCEPT ![thread[t].id] = NoShadow]
    BY DEF DeleteShadow, RemoveShadow
  <2>2. shadow \in [Ids -> ShadowRecords] BY DEF StoreInv, Types
  <2> QED BY <2>1, <2>2 DEF NoShadow
<1>3. PICK pc \in {"shadowKept", "shadowDeleted", "removeSpool"} : GoTo(t, pc)
  BY DEF DeleteShadow, RemoveShadow
<1>4. thread'[Port] = thread[Port] \/ Rests(thread'[Port])
  <2>1. CASE t # Port BY <1>3, <2>1, Known DEF GoTo, CoreTypes, Threads
  <2>2. CASE t = Port
    <3>1. thread'[t].pc = pc BY <1>3, Known DEF GoTo, CoreTypes, ThreadRecords
    <3> QED BY <2>2, <3>1 DEF Rests, WritePcs
  <2> QED BY <2>1, <2>2
<1> QED BY <1>1, <1>2, <1>4, ShadowGoesLimited

\* A port thread that cannot open the file leaves it to the EndDocPrinter that writes it: the
\* document was not printed yet.
LEMMA CreateShadowLimited ==
  ASSUME StoreInv, OwnIds, RebootsOK', FreshOK, LimitedOK, NEW t \in Threads, CreateShadowFile(t)
  PROVE  LimitedOK'
<1>0. /\ thread[t].pc = "createFile" /\ UNCHANGED <<job, died, asked>> /\ thread[t].pc \in WritePcs
      /\ shadow \in [Ids -> ShadowRecords]
  BY DEF CreateShadowFile, At, history, WritePcs, StoreInv, Types
<1>1. PICK pc \in {"write", "unwritten"} :
        /\ GoTo(t, pc)
        /\ pc = "unwritten" => ShadowInUse(thread[t].id) /\ shadow' = shadow
  BY DEF CreateShadowFile
<1>2. /\ Moderate(t) /\ thread'[t].pc = pc
      /\ thread'[t].doc = thread[t].doc /\ thread'[t].then = thread[t].then
  <2>1. pc \in WritePcs /\ pc \notin CallPcs BY DEF CallPcs, WritePcs
  <2> QED BY <1>0, <1>1, <2>1, GoToModerate
<1>3. \A i \in Ids : shadow'[i] = shadow[i] \/ shadow'[i].file # "good"
  <2>1. shadow' = shadow \/ shadow' = [shadow EXCEPT ![thread[t].id] = Torn]
    BY DEF CreateShadowFile
  <2> QED BY <1>0, <2>1 DEF Torn, NoShadow
<1>4. CASE t # Port
  <2>1. thread'[Port] = thread[Port] BY <1>2, <1>4 DEF Moderate, Threads
  <2> QED BY <1>0, <1>3, <2>1, ShadowGoesLimited
<1>5. CASE t = Port
  <2>1. PICK d \in Docs : /\ d = thread[t].doc
                          /\ \A u \in Threads : thread[u].pc \in {"write", "closeFile"}
                               /\ thread[u].id = thread[t].id => thread[u].doc = d
    BY <1>0, AtShadow
  <2>2. pc = "unwritten" => died[d] = 0
    <3>1. SUFFICES ASSUME pc = "unwritten" PROVE died[d] = 0 OBVIOUS
    <3>2. PICK u \in Threads : thread[u].pc \in {"write", "closeFile"} /\ thread[u].id = thread[t].id
      BY <1>1, <3>1 DEF ShadowInUse
    <3>3. u # Port /\ u \in Clients /\ thread[u].pc \in WritePcs /\ thread[u].doc = d
      BY <1>0, <1>5, <2>1, <3>2 DEF Threads, WritePcs
    <3>4. Spools(handle[u], d) BY <3>2, <3>3, Known DEF ThreadOK
    <3>5. Spoolers(d) # {} BY <3>3, <3>4 DEF Spoolers
    <3> QED BY <3>5 DEF FreshOK, Fresh
  <2>3. ASSUME NEW e \in Docs
        PROVE  /\ ~ Assigned(thread'[Port], e)
               /\ Counted(thread'[Port], e) => Counted(thread[Port], e)
               /\ Recorded(thread'[Port], e) => died[e] = 0
    BY <1>0, <1>2, <1>5, <2>1, <2>2 DEF Assigned, Counted, Recorded, WritePcs
  <2> QED BY <1>0, <1>3, <2>3, ShadowLimited
<1> QED BY <1>4, <1>5

LEMMA WriteShadowLimited ==
  ASSUME StoreInv, OwnIds, RebootsOK', LimitedOK, NEW t \in Threads, WriteShadowFile(t)
  PROVE  LimitedOK'
<1>0. /\ thread[t].pc = "write" /\ UNCHANGED <<job, died, asked>> /\ thread[t].pc \in WritePcs
      /\ GoTo(t, "closeFile")
  BY DEF WriteShadowFile, At, history, WritePcs
<1>1. /\ Moderate(t) /\ thread'[t].pc = "closeFile" /\ thread'[t].doc = thread[t].doc
      /\ thread'[t].then = thread[t].then
  <2>1. "closeFile" \in WritePcs /\ "closeFile" \notin CallPcs BY DEF CallPcs, WritePcs
  <2> QED BY <1>0, <2>1, GoToModerate
<1>2. PICK d \in Docs : /\ d = thread[t].doc /\ job[d].state = "queued" /\ thread[t].id = job[d].JobId
                        /\ \A e \in Docs : e # d /\ job[e].state = "queued" => job[e].JobId # job[d].JobId
  BY <1>0, AtShadow
<1>3. /\ shadow'[job[d].JobId] = Shadow(d, job[d])
      /\ \A i \in Ids : i # job[d].JobId => shadow'[i] = shadow[i]
  <2>1. shadow' = [shadow EXCEPT ![job[d].JobId] = Shadow(d, job[d])] BY <1>2 DEF WriteShadowFile
  <2>2. shadow \in [Ids -> ShadowRecords] /\ job[d].JobId \in Ids BY DEF StoreInv, Types, JobRecords
  <2> QED BY <2>1, <2>2
<1>4. \A i \in Ids : shadow'[i] = shadow[i] \/ \E x \in Docs : job[x].state = "queued"
                                                              /\ shadow'[i] = Shadow(x, job[x])
  BY <1>2, <1>3
<1>5. File(d)' = Shadow(d, job[d]) BY <1>0, <1>3 DEF File
<1>6. ASSUME NEW e \in Docs
      PROVE  /\ Assigned(thread'[Port], e) => Assigned(thread[Port], e)
             /\ Counted(thread'[Port], e) => Counted(thread[Port], e)
             /\ Recorded(thread'[Port], e) => Recorded(thread[Port], e) \/ e = d
  <2>1. CASE t # Port
    <3>1. thread'[Port] = thread[Port] BY <1>1, <2>1 DEF Moderate, Threads
    <3> QED BY <3>1
  <2>2. CASE t = Port BY <1>0, <1>1, <1>2, <2>2 DEF Assigned, Counted, Recorded, WritePcs
  <2> QED BY <2>1, <2>2
<1>7. ASSUME NEW e \in Docs, e # d, Recorded(thread[Port], e) PROVE File(e)' = File(e)
  <2>1. job[e].state = "queued" BY <1>7, PortAtJobs DEF Recorded, PortReferring
  <2>2. job[e].JobId \in Ids /\ job[e].JobId # job[d].JobId BY <1>2, <1>7, <2>1, Known DEF JobRecords
  <2> QED BY <1>0, <1>3, <2>2 DEF File
<1> QED BY <1>0, <1>4, <1>5, <1>6, <1>7, ShadowLimited

LEMMA FilesLimited ==
  ASSUME StoreInv, StoreInv', OwnIds, RebootsOK', FreshOK, LimitedOK, NEW t \in Threads, FileStep(t)
  PROVE  LimitedOK'
BY CallsLimited, ReenterLimited, FileLimited, DeleteShadowLimited, CreateShadowLimited,
   WriteShadowLimited DEF FileStep

----------------------------------------------------------------------------
(* Documents that are not spooled yet.                                      *)

\* A step makes no such document but the one its thread is at.
LEMMA FreshKeeps ==
  ASSUME StoreInv', FreshOK, died' = died, NEW t \in Threads,
         \A u \in Threads : u # t => thread'[u] = thread[u], Submits(t),
         \A e \in Docs : job'[e].state = "new" => job[e].state = "new",
         \A e \in Docs : \A c \in Clients : Spools(handle'[c], e) =>
           Spools(handle[c], e) \/ (thread[t].pc \in SubmitPcs /\ thread[t].doc = e)
  PROVE  FreshOK'
<1> SUFFICES ASSUME NEW e \in Docs, Fresh(e)' PROVE Fresh(e) BY DEF FreshOK
<1>1. CASE job'[e].state = "new" BY <1>1 DEF Fresh
<1>2. CASE Spoolers(e)' # {}
  <2>1. PICK c \in Clients : Spools(handle'[c], e) BY <1>2 DEF Spoolers
  <2>2. CASE Spools(handle[c], e) BY <2>2 DEF Fresh, Spoolers
  <2> QED BY <2>1, <2>2 DEF Fresh
<1>3. ASSUME NEW u \in Threads, thread'[u].pc \in SubmitPcs, thread'[u].doc = e PROVE Fresh(e)
  <2>1. CASE u = t BY <1>3, <2>1 DEF Submits, Fresh
  <2>2. CASE u # t BY <1>3, <2>2 DEF Fresh
  <2> QED BY <2>1, <2>2
<1> QED BY <1>1, <1>2, <1>3 DEF Fresh

\* A step in memory is such a step.
LEMMA FreshInMemory ==
  ASSUME StoreInv', FreshOK, died' = died, NEW t \in Threads, NEW d, StepOK(t, d), HandlesGive,
         InMemory(t) \/ UNCHANGED job
  PROVE  FreshOK'
<1>1. (\A u \in Threads : u # t => thread'[u] = thread[u]) /\ Submits(t) BY DEF StepOK, Moves
<1>2. \A e \in Docs : job'[e].state = "new" => job[e].state = "new"
  BY DEF InMemory, Memory, JobsMove
<1> QED BY <1>1, <1>2, FreshKeeps DEF HandlesGive

LEMMA FileFresh ==
  ASSUME StoreInv, StoreInv', OwnIds, FreshOK, NEW t \in Threads, FileStep(t)
  PROVE  FreshOK'
<1>1. PICK d : StepOK(t, d) BY FileSteps
<1>2. died' = died
  BY DEF FileStep, Cancelled, DeleteShadow, ShadowDeleted, RemoveShadow, RemoveSpool, FreeId,
     CreateShadowFile, WriteShadowFile, CloseShadowFile, Reenter, history
<1>3. HandlesGive
  <2>1. CASE RemoveSpool(t) \/ FreeId(t) \/ CloseShadowFile(t) BY <2>1, FileHandles
  <2>2. CASE Reenter(t)
    <3>1. thread[t].then \in {"endDoc", "query", "kept"}
      BY <2>2, Known DEF Reenter, ThreadOK, WritePcs
    <3> DEFINE d0 == thread[t].doc
               j == [job[d0] EXCEPT !.Status = IF At(t, "written") THEN @ \ {"SHADOW_DELETED"} ELSE @]
    <3>2. ShadowWritten(t, d0, j, thread[t].then) BY <2>2 DEF Reenter
    <3> HIDE DEF d0, j
    <3> QED BY <3>1, <3>2, WritesHandles
  <2>3. CASE UNCHANGED handle BY <2>3, SameHandles
  <2> QED BY <2>1, <2>2, <2>3
       DEF FileStep, Cancelled, DeleteShadow, ShadowDeleted, RemoveShadow, CreateShadowFile,
           WriteShadowFile
<1>4. InMemory(t) \/ UNCHANGED job
  <2>1. CASE Cancelled(t) \/ ShadowDeleted(t) BY <2>1, CallsInMemory
  <2>2. CASE Reenter(t) BY <2>2, ReenterInMemory
  <2>3. CASE UNCHANGED job BY <2>3
  <2> QED BY <2>1, <2>2, <2>3
       DEF FileStep, DeleteShadow, RemoveShadow, RemoveSpool, FreeId, CreateShadowFile,
           WriteShadowFile, CloseShadowFile
<1> QED BY <1>1, <1>2, <1>3, <1>4, FreshInMemory

\* SpoolThisJob makes a handle of the document that its thread submits.
LEMMA SpoolFresh ==
  ASSUME StartDocOnly, StoreInv, StoreInv', FreshOK, NEW c \in Clients, ClientStep(c), SpoolThisJob(c)
  PROVE  FreshOK'
<1>0. c \in Threads /\ At(c, "queue") /\ died' = died BY DEF Threads, SpoolThisJob, history
<1>1. InMemory(c) BY SpoolInMemory
<1>2. \A e \in Docs : job'[e].state = "new" => job[e].state = "new"
  BY <1>1 DEF InMemory, Memory, JobsMove
<1>3. \A u \in Threads : u # c => thread'[u] = thread[u]
  BY <1>1 DEF InMemory, Memory, ThreadMoves
<1>4. Submits(c)
  <2>1. PICK d : StepOK(c, d) \/ UnblockJobs(c) \/ \E e \in Docs : RestartJob(c, e) BY ClientSteps
  <2>2. ~ UnblockJobs(c) /\ ~ \E e \in Docs : RestartJob(c, e) BY <1>0 DEF UnblockJobs, RestartJob, At
  <2> QED BY <2>1, <2>2 DEF StepOK
<1>5. ASSUME NEW e \in Docs, NEW x \in Clients, Spools(handle'[x], e)
      PROVE  Spools(handle[x], e) \/ (thread[c].pc \in SubmitPcs /\ thread[c].doc = e)
  <2>0. handle \in [Clients -> HandleRecords] BY Known DEF CoreTypes
  <2>1. CASE UNCHANGED handle BY <1>5, <2>1
  <2>2. CASE handle' = [handle EXCEPT ![c].STARTDOC = TRUE, ![c].pIniJob = thread[c].doc]
    <3>1. handle' = [handle EXCEPT ![c] = [handle[c] EXCEPT !.STARTDOC = TRUE, !.pIniJob = thread[c].doc]]
      BY <2>0, <2>2
    <3>2. CASE x # c
      <4>1. handle'[x] = handle[x] BY <2>0, <3>1, <3>2
      <4> QED BY <1>5, <4>1
    <3>3. CASE x = c
      <4>1. handle'[c] = [handle[c] EXCEPT !.STARTDOC = TRUE, !.pIniJob = thread[c].doc] BY <2>0, <3>1
      <4>2. handle'[c].pIniJob = thread[c].doc BY <2>0, <4>1 DEF HandleRecords
      <4> QED BY <1>0, <1>5, <3>3, <4>2 DEF Spools, At, SubmitPcs
    <3> QED BY <3>2, <3>3
  <2> QED BY <2>1, <2>2 DEF SpoolThisJob
<1> QED BY <1>0, <1>2, <1>3, <1>4, <1>5, FreshKeeps

LEMMA ClientFresh ==
  ASSUME StartDocOnly, StoreInv, StoreInv', FreshOK, NEW c \in Clients, ClientStep(c)
  PROVE  FreshOK'
<1>0. c \in Threads BY DEF Threads
<1>1. CASE UnblockJobs(c) \/ \E d \in Docs : RestartJob(c, d)
  <2>1. UNCHANGED <<handle, thread>> /\ \A e \in Docs : job'[e].state = job[e].state
    BY <1>1, UserSteps
  <2>2. died' = died BY <1>1 DEF UnblockJobs, RestartJob, history
  <2> QED BY <2>1, <2>2 DEF FreshOK, Fresh, Spoolers
<1>2. CASE SpoolThisJob(c) BY <1>2, SpoolFresh
<1>3. ASSUME \/ CreateSpoolFile(c) \/ SpoolThisJobFails(c) \/ ClosePrinter(c) \/ Closed(c)
             \/ EndDocPrinter(c) \/ \E d \in Docs : StartDocPrinter(c, d) \/ DeleteByUser(c, d)
      PROVE  FreshOK'
  <2>1. PICK d : StepOK(c, d) \/ UnblockJobs(c) \/ \E e \in Docs : RestartJob(c, e) BY ClientSteps
  <2>2. died' = died
    BY <1>3 DEF CreateSpoolFile, SpoolThisJobFails, ClosePrinter, Closed, EndDocPrinter, StartDocPrinter,
       DeleteByUser, history
  <2>3. HandlesGive
    <3>1. CASE EndDocPrinter(c)
      <4> DEFINE j == [job[handle[c].pIniJob] EXCEPT !.Status = @ \ {"SPOOLING"}]
      <4>1. WriteShadowJob(c, handle[c].pIniJob, j, "endDoc") BY <3>1 DEF EndDocPrinter
      <4> HIDE DEF j
      <4> QED BY <4>1, WritesHandles
    <3>2. CASE \E d0 \in Docs : DeleteByUser(c, d0) BY <3>2, SameHandles DEF DeleteByUser
    <3> QED BY <1>3, <3>1, <3>2, RestsHandles
  <2>4. \A e \in Docs : job'[e].state = "new" => job[e].state = "new"
    <3>1. ASSUME InMemory(c) \/ UNCHANGED job
          PROVE  \A e \in Docs : job'[e].state = "new" => job[e].state = "new"
      BY <3>1 DEF InMemory, Memory, JobsMove
    <3>2. CASE ClosePrinter(c) \/ Closed(c) BY <3>1, <3>2, ClosesInMemory
    <3>3. CASE EndDocPrinter(c) BY <3>1, <3>3, EndDocInMemory
    <3>4. CASE \E d0 \in Docs : DeleteByUser(c, d0) BY <3>1, <3>4, DeleteInMemory
    <3>5. CASE \E d0 \in Docs : StartDocPrinter(c, d0) BY <3>1, <3>5, StartDocInMemory
    <3>6. CASE SpoolThisJobFails(c) BY <3>1, <3>6 DEF SpoolThisJobFails
    <3>7. CASE CreateSpoolFile(c)
      <4>0. thread[c].doc \in Docs BY <1>0, <3>7, Known DEF CreateSpoolFile, At, ThreadOK
      <4> DEFINE k == [job[thread[c].doc] EXCEPT !.state = "gone"]
      <4>1. UNCHANGED job \/ SetJob(thread[c].doc, k) BY <3>7 DEF CreateSpoolFile
      <4>2. k.state = "gone" BY <4>0, Known DEF JobRecords
      <4> HIDE DEF k
      <4> QED BY <4>0, <4>1, <4>2, Known DEF SetJob, CoreTypes
    <3> QED BY <1>3, <3>2, <3>3, <3>4, <3>5, <3>6, <3>7
  <2>5. (\A u \in Threads : u # c => thread'[u] = thread[u]) /\ Submits(c)
    <3>1. CASE StepOK(c, d) BY <3>1 DEF StepOK, Moves
    <3>2. CASE UnblockJobs(c) \/ \E e \in Docs : RestartJob(c, e)
      <4>1. UNCHANGED thread BY <3>2, UserSteps
      <4> QED BY <4>1 DEF Submits
    <3> QED BY <2>1, <3>1, <3>2
  <2> QED BY <1>0, <2>2, <2>3, <2>4, <2>5, FreshKeeps DEF HandlesGive
<1> QED BY <1>1, <1>2, <1>3, ClientCases

LEMMA PortFresh ==
  ASSUME StoreInv, StoreInv', FreshOK, PortStep
  PROVE  FreshOK'
<1>1. PICK d : StepOK(Port, d) BY PortSteps
<1>2. Port \in Threads /\ InMemory(Port) BY PortInMemory DEF Threads
<1>3. died' = died
  BY DEF PortStep, AssignJob, PortBegins, PortQueries, PortSends, PortStops, PortEnds, history
<1>4. HandlesGive
  <2>1. CASE UNCHANGED handle BY <2>1, SameHandles
  <2>2. CASE PortBegins
    <3> DEFINE e == thread[Port].doc
               j == Attempt(e, job[e])
    <3>1. WriteShadowJob(Port, e, j, "query") \/ ShadowWritten(Port, e, j, "query")
      BY <2>2 DEF PortBegins
    <3> HIDE DEF e, j
    <3> QED BY <3>1, WritesHandles
  <2>3. CASE PortEnds
    <3> DEFINE e == thread[Port].doc
               j == [job[e] EXCEPT !.Status = @ \cup IF At(Port, "refused") THEN {"BLOCKED_DEVQ"}
                                                ELSE IF "RESTART" \in @ THEN {} ELSE {"PRINTED"}]
               k == Kept(e, j)
    <3>1. WriteShadowJob(Port, e, k, "kept") \/ RemoveIniPortFromIniJob(Port, e, j)
      BY <2>3 DEF PortEnds
    <3> HIDE DEF e, j, k
    <3>2. CASE WriteShadowJob(Port, e, k, "kept") BY <3>2, WritesHandles
    <3>3. CASE RemoveIniPortFromIniJob(Port, e, j) BY <3>3, SameHandles DEF RemoveIniPortFromIniJob
    <3> QED BY <3>1, <3>2, <3>3
  <2> QED BY <2>1, <2>2, <2>3 DEF PortStep, AssignJob, PortQueries, PortSends, PortStops
<1> QED BY <1>1, <1>2, <1>3, <1>4, FreshInMemory

----------------------------------------------------------------------------
(* The crash.                                                               *)

\* A document that the port thread prints has its crash counted.
LEMMA CrashDies ==
  ASSUME StoreInv, LimitedOK, Crash, NEW e \in Docs
  PROVE  /\ died[e] \in Nat
         /\ IF thread[Port].doc = e /\ thread[Port].pc = "printing"
              THEN /\ died'[e] = died[e] + 1 /\ job[e].state = "queued"
                   /\ Untouched(e) => died[e] <= 2 /\ Recorded(thread[Port], e)
              ELSE died'[e] = died[e]
<1>1. died[e] \in Nat BY DEF StoreInv, Types
<1>2. CASE thread[Port].doc = e /\ thread[Port].pc = "printing"
  <2>1. died'[e] = died[e] + 1 BY <1>2 DEF Crash
  <2>2. Counted(thread[Port], e) /\ Recorded(thread[Port], e) BY <1>2 DEF Counted, Recorded
  <2>3. job[e].state = "queued" BY <2>2, PortAtJobs DEF PortReferring
  <2>4. Untouched(e) => died[e] <= 2 BY <2>3 DEF LimitedOK, Limited, QueueCounts, Queued
  <2> QED BY <1>1, <1>2, <2>1, <2>2, <2>3, <2>4
<1>3. CASE ~ (thread[Port].doc = e /\ thread[Port].pc = "printing")
  <2>1. died'[e] = died[e] BY <1>3 DEF Crash
  <2> QED BY <1>1, <1>3, <2>1
<1> QED BY <1>2, <1>3

\* The files that ReadShadowJob takes count the crash: the attempt was recorded in them before the
\* document was printed.
LEMMA CrashCounted ==
  ASSUME StoreInv, FileInv, LimitedOK, Crash, NEW e \in Docs, Untouched(e),
         NEW i \in Ids, Readable(i), shadow[i].doc = e
  PROVE  /\ died'[e] <= 2
         /\ "PRINTED" \in shadow[i].Status \/ died'[e] <= shadow[i].dwReboots + 1
<1>1. /\ died[e] \in Nat /\ shadow[i].dwReboots \in Int /\ shadow[i].dwReboots <= 1
      /\ shadow[i].file = "good" /\ spool[i] # NoDoc
  BY CrashDies DEF Readable, StoreInv, Types, ShadowRecords
<1>2. CASE thread[Port].doc = e /\ thread[Port].pc = "printing"
  <2>1. /\ died'[e] = died[e] + 1 /\ job[e].state = "queued" /\ Recorded(thread[Port], e)
    BY <1>2, CrashDies
  <2>2. spool[i] = e /\ spool[job[e].JobId] = e /\ job[e].JobId \in Ids
    BY <1>1, <2>1, Known DEF FileInv, ShadowOf, SpoolFiles, Queued, JobRecords
  <2>3. job[e].JobId = i BY <1>1, <2>2 DEF FileInv, SpoolOnce
  <2>4. Good(e) /\ File(e) = shadow[i] BY <1>1, <2>3 DEF Good, File
  <2>5. died[e] <= shadow[i].dwReboots BY <2>1, <2>4 DEF LimitedOK, Limited, PortCounts
  <2> QED BY <1>1, <2>1, <2>5
<1>3. CASE ~ (thread[Port].doc = e /\ thread[Port].pc = "printing")
  <2>1. died'[e] = died[e] BY <1>3, CrashDies
  <2>2. ("PRINTED" \in shadow[i].Status /\ died[e] <= 2) \/ died[e] <= shadow[i].dwReboots + 1
    BY <1>1 DEF LimitedOK, Limited, FilesCount
  <2> QED BY <1>1, <2>1, <2>2
<1> QED BY <1>2, <1>3

LEMMA CrashLimited ==
  ASSUME StoreInv, FileInv, LimitedOK, Crash
  PROVE  LimitedOK'
<1>0. Restart /\ asked' = asked /\ thread'[Port].pc = "idle" BY DEF Crash, Restart, Idle, Threads
<1> SUFFICES ASSUME NEW e \in Docs, Untouched(e)' PROVE Limited(e)' BY DEF LimitedOK
<1>1. Untouched(e) /\ Limited(e) BY <1>0 DEF Untouched, LimitedOK
<1>2. died'[e] <= 3 BY <1>1, CrashDies DEF Limited
<1>3. QueueCounts(e)'
  <2>1. SUFFICES ASSUME job'[e].state = "queued"
                 PROVE  /\ ~ Is(e, "RESTART")' /\ died'[e] <= 2
                        /\ Is(e, "PRINTED")' \/ died'[e] <= job'[e].dwReboots + 1
    BY DEF QueueCounts, Queued
  <2>2. PICK i \in Ids : Readable(i) /\ job'[e] = ReadShadowJob(i) /\ shadow[i].doc = e
    BY <1>0, <2>1, ReadAgain
  <2>3. /\ job'[e].Status = shadow[i].Status \cap {"PRINTED"}
        /\ job'[e].dwReboots = shadow[i].dwReboots
    BY <2>2 DEF ReadShadowJob
  <2>4. /\ died'[e] <= 2
        /\ "PRINTED" \in shadow[i].Status \/ died'[e] <= shadow[i].dwReboots + 1
    BY <1>1, <2>2, CrashCounted
  <2> QED BY <2>3, <2>4 DEF Is
<1>4. FilesCount(e)'
  <2>1. SUFFICES ASSUME NEW i \in Ids, shadow'[i].file = "good", shadow'[i].doc = e
                 PROVE  \/ "PRINTED" \in shadow'[i].Status /\ died'[e] <= 2
                        \/ died'[e] <= shadow'[i].dwReboots + 1
    BY DEF FilesCount
  <2>2. /\ shadow'[i] = shadow[i] \/ shadow'[i] = NoShadow
        /\ shadow'[i] = NoShadow \/ Readable(i) \/ spool[i] = NoDoc
    BY <1>0 DEF Restart
  <2>3. shadow'[i] # NoShadow BY <2>1 DEF NoShadow
  <2>4. spool[i] = e /\ e # NoDoc
    BY <2>1, <2>2, <2>3, ConstantsAssumption DEF FileInv, ShadowOf
  <2> QED BY <1>1, <2>1, <2>2, <2>3, <2>4, CrashCounted
<1>5. PortCounts(e)' BY <1>0 DEF PortCounts, Assigned, Counted, Recorded, WritePcs
<1> QED BY <1>2, <1>3, <1>4, <1>5 DEF Limited

\* A document that is not submitted yet was not being printed.
LEMMA CrashFresh ==
  ASSUME StoreInv, FreshOK, LimitedOK, Crash
  PROVE  FreshOK'
<1>0. /\ Restart /\ \A t \in Threads : thread'[t].pc = "idle"
      /\ \A c \in Clients : ~ handle'[c].STARTDOC
  BY DEF Crash, Restart, Idle, NewHandle
<1> SUFFICES ASSUME NEW e \in Docs, Fresh(e)' PROVE died'[e] = 0 BY DEF FreshOK
<1>1. job'[e].state = "new" BY <1>0 DEF Fresh, Spoolers, Spools, SubmitPcs
<1>2. job[e].state = "new"
  <2> DEFINE read == {i \in Ids : Readable(i)}
             id == CHOOSE i \in read : shadow[i].doc = e
  <2>1. job'[e] = IF \E i \in read : shadow[i].doc = e THEN ReadShadowJob(id)
                  ELSE IF job[e].state = "new" THEN NoJob ELSE [NoJob EXCEPT !.state = "gone"]
    BY <1>0 DEF Restart
  <2>2. ReadShadowJob(id).state = "queued" /\ [NoJob EXCEPT !.state = "gone"].state = "gone"
    BY DEF ReadShadowJob, NoJob
  <2> HIDE DEF read, id
  <2> QED BY <1>1, <2>1, <2>2
<1>3. died[e] = 0 BY <1>2 DEF FreshOK, Fresh
<1> QED BY <1>2, <1>3, CrashDies

----------------------------------------------------------------------------
(* Every step.                                                              *)

\* The invariant is inductive, with those of the ids, the files, the crashes and the counts.
LEMMA PoisonStep ==
  ASSUME StartDocOnly, StoreInv, FileInv, CrashInv, RebootsOK, FreshOK, LimitedOK, [Next]_vars
  PROVE  FreshOK' /\ LimitedOK'
<1>0. StoreInv' /\ RebootsOK' /\ OwnIds BY StoreStep, RebootsStep DEF FileInv
<1>1. ASSUME NEW t \in Threads, FileStep(t) PROVE FreshOK' /\ LimitedOK'
  BY <1>0, <1>1, FileFresh, FilesLimited
<1>2. ASSUME NEW c \in Clients, ClientStep(c) PROVE FreshOK' /\ LimitedOK'
  BY <1>0, <1>2, ClientFresh, ClientLimited
<1>3. CASE PortStep BY <1>0, <1>3, PortFresh, PortLimited
<1>4. CASE Crash BY <1>4, CrashFresh, CrashLimited
<1>5. CASE UNCHANGED vars
  <2>1. /\ job' = job /\ thread' = thread /\ handle' = handle /\ shadow' = shadow
        /\ died' = died /\ asked' = asked
    BY <1>5 DEF vars, disk, history
  <2>2. FreshOK' BY <2>1 DEF FreshOK, Fresh, Spoolers
  <2>3. LimitedOK'
    BY <2>1 DEF LimitedOK, Untouched, Limited, QueueCounts, FilesCount, PortCounts, Queued, Is, Good, File
  <2> QED BY <2>2, <2>3
<1> QED BY <1>1, <1>2, <1>3, <1>4, <1>5 DEF Next

\* Nothing was printed at first.
LEMMA InitPoison == Init => FreshOK /\ LimitedOK
<1> SUFFICES ASSUME Init PROVE FreshOK /\ LimitedOK OBVIOUS
<1>1. /\ \A d \in Docs : died[d] = 0 /\ job[d].state = "new" /\ job[d] = NoJob
      /\ \A i \in Ids : shadow[i].file = "none"
      /\ thread[Port].pc = "idle"
  BY DEF Init, NoJob, NoShadow, Threads, Idle
<1>2. FreshOK BY <1>1 DEF FreshOK
<1>3. ASSUME NEW d \in Docs PROVE Limited(d)
  <2>1. QueueCounts(d) /\ FilesCount(d) BY <1>1 DEF QueueCounts, FilesCount, Queued
  <2>2. PortCounts(d) BY <1>1 DEF PortCounts, Assigned, Counted, Recorded, WritePcs
  <2> QED BY <1>1, <2>1, <2>2 DEF Limited
<1> QED BY <1>2, <1>3 DEF LimitedOK

LEMMA LimitedDiscards == LimitedOK => PoisonDiscarded
BY ConstantsAssumption DEF LimitedOK, Limited, Untouched, PoisonDiscarded

\* A document that takes the spooler down whenever it is printed is given up after three crashes,
\* unless a user has deleted or restarted it: the port counts the attempt and has it in the shadow
\* file before the document is printed (port.c 570), and ReadShadowJob takes no file that counts
\* more than one (init.c); a job of which an attempt was taken back (port.c 795) is not printed again;
\* where documents come by StartDocPrinter and the bitmap can grow.
THEOREM PoisonIsGivenUp ==
  ASSUME StartDocOnly
  PROVE  Spec => []PoisonDiscarded
<1> DEFINE Inv == StoreInv /\ FileInv /\ CrashInv /\ RebootsOK /\ FreshOK /\ LimitedOK
<1>1. Init => Inv BY InitStore, InitFiles, InitCrash, InitReboots, InitPoison
<1>2. Inv /\ [Next]_vars => Inv' BY StoreStep, FilesStep, CrashStep, RebootsStep, PoisonStep
<1>3. Inv => PoisonDiscarded BY LimitedDiscards
<1> QED BY <1>1, <1>2, <1>3, PTL DEF Spec
=============================================================================
