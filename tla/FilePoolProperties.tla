------------------------- MODULE FilePoolProperties -------------------------
(***************************************************************************)
(* What the pool of spool files must do for the jobs that use it, while    *)
(* the spooler runs and when it starts again.                              *)
(***************************************************************************)
EXTENDS FilePool

ItemRecords ==
  [phase : {"none", "used", "leaving", "truncate", "free", "delete"},
   Status : SUBSET {"SPL_WRITING", "SPL_READING", "SHD_WRITING", "SPL_WRITE_CLOSED",
                    "SPL_READ_CLOSED", "DONT_RECYCLE"},
   SplWrite : Closed .. Pages, SplRead : Closed .. Pages, Shd : BOOLEAN,
   by : Callers \cup {"none"}]

JobFlags == {"SPOOLING", "DESPOOLING", "PRINTING", "PENDING_DELETION", "SHADOW_DELETED"}

\* Type invariant of the file pool.
TypeOK ==
  /\ app \in [Docs -> {"new", "item", "spooling", "closing", "closed", "shadow", "write", "done"}]
  /\ port \in [Docs -> {"none", "assigned", "shadow", "write", "begin", "open", "reading",
                        "cancel", "sent", "stopped", "printed", "end"}]
  /\ job \in [Docs -> [queued : BOOLEAN, Status : SUBSET JobFlags, hFileItem : Nat]]
  /\ cancelling \subseteq Docs
  /\ hReadFile \in [Docs -> {"none", "SplWrite", "SplRead"}] /\ read \in [Docs -> 0 .. Pages]
  /\ item \in [Items -> ItemRecords]
  /\ FreeFiles \in Seq(Items) /\ old \subseteq Items /\ CurrentNum \in Nat
  /\ scheduler \in {"wait", "trim"}
  /\ SchedulerSignal \in BOOLEAN /\ SchedulerTimeout \in BOOLEAN
  /\ spl \in [Items -> [exists : BOOLEAN, data : Seq(Docs)]]
  /\ shd \in [Items -> [file : {"none", "empty", "good"}, doc : Docs \cup {NoDoc},
                        Status : SUBSET JobFlags]]
  /\ toDelete \in [Items -> [Callers -> Nat]] /\ crashes \in Nat

\* The documents whose job, or whose application in SpoolThisJob, has the item.
Owners(i) == {d \in Docs : (job[d].queued \/ app[d] = "item") /\ job[d].hFileItem = i}

\* Every item that is in use has one job, or one StartDocPrinter, that will give
\* it back, and no job has an item that was given back: DeleteJob may finish
\* with the shadow file while WriteShadowJob opens it, and the release is refused
\* as long as one handle is in use ("the FilePool starts leaking jobs").
ItemsOwned ==
  \A i \in Items : Cardinality(Owners(i)) = IF item[i].phase = "used" THEN 1 ELSE 0

\* The free list has the items that are free, each once, no handle of theirs is
\* in use, the spool file is open for the next writer, at its beginning, and
\* nothing of the last document is in it.
FreeFilesReady ==
  /\ \A k, l \in DOMAIN FreeFiles : FreeFiles[k] = FreeFiles[l] => k = l
  /\ \A i \in Items : (\E k \in DOMAIN FreeFiles : FreeFiles[k] = i) <=> item[i].phase = "free"
  /\ \A i \in Items : item[i].phase = "free" =>
       /\ item[i].SplWrite = 0 /\ item[i].SplRead \in {Closed, 0} /\ ~ InUse(item[i])
       /\ spl[i].data = <<>>

\* A job that is spooled has its own document, and all of it, in its spool file,
\* whatever the item was used for before, whoever closes its files, and also
\* after a restart.
JobsKeepTheirData ==
  \A d \in Docs :
    job[d].queued /\ ~ Is(d, "SPOOLING") /\ ~ Is(d, "PENDING_DELETION")
      => spl[job[d].hFileItem] = [exists |-> TRUE, data |-> [k \in 1 .. Pages |-> d]]

\* The handle a port thread reads from is open and where the thread left it,
\* although CloseFiles runs without SplSem and the writer's handle may become the
\* reader's; a document is sent to the printer after all of its pages were read.
ReadsInOrder ==
  \A d \in Docs :
    /\ port[d] \in {"reading", "cancel", "sent"} => Position(d) = read[d]
    /\ port[d] \in {"cancel", "sent"} => read[d] = Pages

\* An application never writes through a handle that was closed, or that has
\* been put elsewhere.
WritesInOrder ==
  \A d \in Docs : app[d] \in {"spooling", "closing", "closed"} =>
    /\ ItemOf(d).SplWrite = Len(spl[job[d].hFileItem].data)
    /\ spl[job[d].hFileItem].exists

\* MaxFiles is the "maximum number of free files in the pool".
FreeWithinMaxFiles == Len(FreeFiles) <= MaxFiles

\* A free item has no shadow file that says of a document that it is spooled: the
\* files of an item are truncated before the next document is spooled to it.
FreeShadowsEmpty == \A i \in Items : item[i].phase = "free" => shd[i].file # "good"

\* "If the job is spooling and we restart the spooler, we won't accept the shadow
\* file because it's not yet completely spooled."
SpoolingNotAccepted ==
  \A d \in Docs : job[d].queued /\ Is(d, "SPOOLING") => ~ Readable(job[d].hFileItem)

\* A free item does not stay: a job takes it, or its time comes and the scheduler
\* deletes it, although it looks at the pool only when something wakes it and no
\* job can be scheduled ("to insure that this file item gets removed from the
\* pool if there is no other printing in the system").
PoolDrains == \A i \in Items : item[i].phase = "free" ~> item[i].phase # "free"

=============================================================================
