-------------------------- MODULE FilePoolProofs --------------------------
(***************************************************************************)
(* Who uses an item of the pool, where its handles are and what is in its  *)
(* files, for any documents, ports, limits, numbers and crashes, if a      *)
(* spool file can always be created (ItemLeaks.cfg shows what happens if   *)
(* not).                                                                   *)
(*                                                                         *)
(* PoolInv: no item is lost, and none has two users (ItemsOwned), and the  *)
(* free list is what it should be (FreeFilesReady).  The difficult part is *)
(* that DeleteJob gives an item back only if none of its handles is in     *)
(* use.  It finishes with the shadow file early, while others may write it *)
(* (ShadowWriters): whoever does so has a reference on the job, and takes  *)
(* the mark SHADOW_DELETED away when it is done.                           *)
(*                                                                         *)
(* HandleInv: the application writes behind its last page, the port reads  *)
(* where it left off, and never with the handle of one who writes          *)
(* (WritesInOrder, and the half of ReadsInOrder about positions).  What a  *)
(* step does to its document is stated first (XDoes), and what follows for *)
(* the invariant after it (XKeeps, XContent).                              *)
(*                                                                         *)
(* ContentInv: a document is whole in its file when it is spooled, and     *)
(* printed to the end (JobsKeepTheirData, ReadsInOrder).  A restart goes   *)
(* by the shadow files, which say the truth of the files beside them until *)
(* the spooler has crashed once (ShadowInv).                               *)
(***************************************************************************)
EXTENDS FilePoolProperties, FiniteSetTheorems, TLAPS

FilesCanBeCreated == "CreateSplWriter" \notin Failures

----------------------------------------------------------------------------
(* The inductive invariant.                                                 *)

AppPlaces == {"new", "item", "spooling", "closing", "closed", "shadow", "write", "done"}
PortPlaces == {"none", "assigned", "shadow", "write", "begin", "open", "reading",
               "cancel", "sent", "stopped", "printed", "end"}
JobRecs == [queued : BOOLEAN, Status : SUBSET JobFlags, hFileItem : Nat]
ItemFlags == {"SPL_WRITING", "SPL_READING", "SHD_WRITING", "SPL_WRITE_CLOSED",
              "SPL_READ_CLOSED", "DONT_RECYCLE"}
ItemRecs ==
  [phase : {"none", "used", "leaving", "truncate", "free", "delete"},
   Status : SUBSET ItemFlags, SplWrite : Int, SplRead : Int, Shd : BOOLEAN,
   by : Callers \cup {"none"}]
ShdRecs == [file : {"none", "empty", "good"}, doc : Docs \cup {NoDoc}, Status : SUBSET JobFlags]

\* Types, as far as they are needed.
Types ==
  /\ app \in [Docs -> AppPlaces] /\ port \in [Docs -> PortPlaces]
  /\ job \in [Docs -> JobRecs] /\ cancelling \subseteq Docs
  /\ item \in [Items -> ItemRecs] /\ FreeFiles \in Seq(Items)
  /\ hReadFile \in [Docs -> {"none", "SplWrite", "SplRead"}]
  /\ spl = [i \in Items |-> [exists |-> spl[i].exists, data |-> spl[i].data]]
  /\ shd \in [Items -> ShdRecs]

Has(d) == job[d].queued \/ app[d] = "item"

\* Jobs and items.
OwnersHave == \A d \in Docs : Has(d) => job[d].hFileItem \in Items /\ ItemOf(d).phase = "used"
OneOwner ==
  \A c, d \in Docs : Has(c) /\ Has(d) /\ job[c].hFileItem = job[d].hFileItem => c = d
UsedOwned ==
  \A i \in Items : item[i].phase = "used" => \E d \in Docs : Has(d) /\ job[d].hFileItem = i
Idle == \A i \in Items : item[i].phase # "used" => ~ InUse(item[i])
FilesThere == \A i \in Items : item[i].phase # "none" => spl[i].exists

Ownership == FreeFilesReady /\ OwnersHave /\ OneOwner /\ UsedOwned /\ Idle /\ FilesThere

\* Who uses a job, and what, document by document.
NewItem(d) ==
  app[d] = "item" => /\ "SPL_READING" \notin ItemOf(d).Status
                     /\ "SHD_WRITING" \notin ItemOf(d).Status
RefsQueued(d) ==
  /\ AppRefs(d) \/ PortRefs(d) \/ UserRefs(d) => job[d].queued
  /\ app[d] \in {"new", "item"} => ~ job[d].queued
ShadowWriters(d) ==
  job[d].queued /\ "SHADOW_DELETED" \in job[d].Status /\ "SHD_WRITING" \in ItemOf(d).Status
    => app[d] = "write" \/ port[d] = "write"

Users == \A d \in Docs : NewItem(d) /\ RefsQueued(d) /\ ShadowWriters(d)

\* A document is named by one shadow file at most, that of its item.
Good(i) == shd[i].file = "good"
ShadowsNamed ==
  /\ \A i, k \in Items : Good(i) /\ Good(k) /\ shd[i].doc = shd[k].doc => i = k
  /\ \A i \in Items : Good(i) =>
       /\ shd[i].doc \in Docs /\ app[shd[i].doc] \notin {"new", "item"}
       /\ job[shd[i].doc].queued => job[shd[i].doc].hFileItem = i

PoolInv == Types /\ Ownership /\ Users /\ ShadowsNamed

LEMMA Known ==
  /\ NoDoc \notin Docs /\ Items \subseteq Nat
  /\ Ports \in Nat /\ MaxFiles \in Nat /\ Pages \in Nat
BY ConstantsAssumption

----------------------------------------------------------------------------
(* The operations on an item.                                               *)

\* What an operation on an item in use may do: it keeps the item's phase.
Same(it, x) == x \in ItemRecs /\ x.phase = it.phase

LEMMA WriterOfItem ==
  ASSUME NEW it \in ItemRecs
  PROVE  /\ Same(it, GetWriterFromHandle(it))
         /\ GetWriterFromHandle(it).Status = it.Status \cup {"SPL_WRITING"}
<1> DEFINE n == IF it.SplWrite = Closed THEN 0 ELSE it.SplWrite
           S == it.Status \cup {"SPL_WRITING"}
           x == [it EXCEPT !.SplWrite = n, !.Status = S]
<1>1. n \in Int /\ S \in SUBSET ItemFlags BY DEF ItemRecs, ItemFlags
<1>2. GetWriterFromHandle(it) = x BY Zenon DEF GetWriterFromHandle
<1> HIDE DEF n, S
<1>3. Same(it, x) /\ x.Status = S BY <1>1 DEF ItemRecs, Same
<1> HIDE DEF x
<1> QED BY <1>2, <1>3 DEF S

LEMMA ReaderOfItem ==
  ASSUME NEW it \in ItemRecs
  PROVE  /\ Same(it, GetReaderFromHandle(it))
         /\ GetReaderFromHandle(it).Status = it.Status \cup {"SPL_READING"}
<1> DEFINE n == IF "SPL_READING" \in it.Status THEN it.SplWrite ELSE 0
           m == IF it.SplRead = Closed THEN 0 ELSE it.SplRead
           S == it.Status \cup {"SPL_READING"}
           x == [it EXCEPT !.SplWrite = n, !.Status = S]
           y == [it EXCEPT !.SplRead = m, !.Status = S]
<1>1. n \in Int /\ m \in Int /\ S \in SUBSET ItemFlags BY DEF ItemRecs, ItemFlags
<1>2. GetReaderFromHandle(it) = x \/ GetReaderFromHandle(it) = y
  BY Zenon DEF GetReaderFromHandle
<1> HIDE DEF n, m, S
<1>3. Same(it, x) /\ x.Status = S BY <1>1 DEF ItemRecs, Same
<1>4. Same(it, y) /\ y.Status = S BY <1>1 DEF ItemRecs, Same
<1> HIDE DEF x, y
<1> QED BY <1>2, <1>3, <1>4 DEF S

LEMMA WritingFinished ==
  ASSUME NEW it \in ItemRecs
  PROVE  /\ Same(it, FinishedWriting(it))
         /\ FinishedWriting(it).Status = it.Status \ {"SPL_WRITING"}
<1> DEFINE n == IF "SPL_WRITE_CLOSED" \in it.Status THEN Closed ELSE it.SplWrite
           S == it.Status \ {"SPL_WRITING"}
           x == [it EXCEPT !.SplWrite = n, !.Status = S]
<1>1. n \in Int /\ S \in SUBSET ItemFlags BY DEF ItemRecs, Closed
<1>2. FinishedWriting(it) = x BY Zenon DEF FinishedWriting
<1> HIDE DEF n, S
<1>3. Same(it, x) /\ x.Status = S BY <1>1 DEF ItemRecs, Same
<1> HIDE DEF x
<1> QED BY <1>2, <1>3 DEF S

LEMMA ReadingFinished ==
  ASSUME NEW it \in ItemRecs
  PROVE  /\ Same(it, FinishedReading(it))
         /\ FinishedReading(it).Status = it.Status \ {"SPL_READING"}
<1> DEFINE n == IF "SPL_READ_CLOSED" \in it.Status THEN Closed ELSE it.SplRead
           S == it.Status \ {"SPL_READING"}
           x == [it EXCEPT !.SplRead = n, !.Status = S]
<1>1. n \in Int /\ S \in SUBSET ItemFlags BY DEF ItemRecs, Closed
<1>2. FinishedReading(it) = x BY Zenon DEF FinishedReading
<1> HIDE DEF n, S
<1>3. Same(it, x) /\ x.Status = S BY <1>1 DEF ItemRecs, Same
<1> HIDE DEF x
<1> QED BY <1>2, <1>3 DEF S

LEMMA ShadowFinished ==
  ASSUME NEW it \in ItemRecs
  PROVE  /\ Same(it, FinishedShadow(it))
         /\ FinishedShadow(it).Status = it.Status \ {"SHD_WRITING"}
BY DEF ItemRecs, ItemFlags, Same, FinishedShadow

\* FPCloseFiles uses nothing that was not used.
LEMMA FilesClosed ==
  ASSUME NEW it \in ItemRecs
  PROVE  /\ Same(it, FPCloseFiles(it))
         /\ InUse(FPCloseFiles(it)) <=> InUse(it)
         /\ "SHD_WRITING" \in FPCloseFiles(it).Status <=> "SHD_WRITING" \in it.Status
         /\ "SPL_READING" \in FPCloseFiles(it).Status <=> "SPL_READING" \in it.Status
<1> DEFINE w == IF "SPL_WRITING" \in it.Status THEN it.SplWrite ELSE Closed
           r == IF "SPL_READING" \in it.Status THEN it.SplRead ELSE Closed
           b == it.Shd /\ "SPL_WRITING" \in it.Status
           S == it.Status \cup
         (IF "SPL_WRITING" \in it.Status /\ (it.SplWrite # Closed \/ it.Shd) THEN {"SPL_WRITE_CLOSED"} ELSE {})
         \cup (IF "SPL_READING" \in it.Status /\ it.SplRead # Closed THEN {"SPL_READ_CLOSED"} ELSE {})
         x == [it EXCEPT !.SplWrite = w, !.SplRead = r, !.Shd = b, !.Status = S]
<1>1. FPCloseFiles(it) = x BY Zenon DEF FPCloseFiles
<1>2. /\ w \in Int /\ r \in Int /\ b \in BOOLEAN /\ S \in SUBSET ItemFlags
      /\ \A f \in {"SPL_READING", "SPL_WRITING", "SHD_WRITING"} : f \in S <=> f \in it.Status
  BY DEF ItemRecs, ItemFlags, Closed
<1> HIDE DEF w, r, b, S
<1>3. Same(it, x) /\ x.Status = S BY <1>2 DEF ItemRecs, Same
<1> HIDE DEF x
<1> QED BY <1>1, <1>2, <1>3 DEF InUse

\* A handle is moved.
LEMMA HandleMoved ==
  ASSUME NEW it \in ItemRecs, NEW h \in {"none", "SplWrite", "SplRead"}, NEW n \in Int
  PROVE  /\ Same(it, [it EXCEPT ![h] = n])
         /\ [it EXCEPT ![h] = n].Status = it.Status
<1>1. CASE h = "none"
  <2>1. [it EXCEPT ![h] = n] = it BY <1>1 DEF ItemRecs
  <2> QED BY <2>1 DEF Same
<1>2. CASE h = "SplWrite"
  <2>1. [it EXCEPT ![h] = n] = [it EXCEPT !.SplWrite = n] BY <1>2
  <2> QED BY <2>1 DEF ItemRecs, Same
<1>3. CASE h = "SplRead"
  <2>1. [it EXCEPT ![h] = n] = [it EXCEPT !.SplRead = n] BY <1>3
  <2> QED BY <2>1 DEF ItemRecs, Same
<1> QED BY <1>1, <1>2, <1>3

\* The release of an item none of whose handles is in use.
LEMMA ItemReleased ==
  ASSUME NEW it \in ItemRecs, NEW by \in Callers, ~ InUse(it)
  PROVE  /\ ReleasePoolHandle(it, by) \in ItemRecs
         /\ ReleasePoolHandle(it, by).phase = "leaving"
         /\ ~ InUse(ReleasePoolHandle(it, by))
BY DEF ReleasePoolHandle, ItemRecs, InUse, Callers

----------------------------------------------------------------------------
(* Who has which item, after a step.                                        *)

\* The same jobs have the same items.
OwnersSame ==
  \A c \in Docs : /\ Has(c)' <=> Has(c)
                  /\ Has(c) => job'[c].hFileItem = job[c].hFileItem

\* Nothing happens but to items in use, which stay in use.
LEMMA KeepOwned ==
  ASSUME Ownership, OwnersSame, UNCHANGED FreeFiles,
         \A i \in Items :
           /\ item[i].phase # "used" => item'[i] = item[i] /\ spl'[i] = spl[i]
           /\ item[i].phase = "used" => item'[i].phase = "used"
           /\ spl'[i].exists = spl[i].exists
  PROVE  Ownership'
<1>1. FreeFilesReady' BY DEF Ownership, FreeFilesReady, InUse
<1>2. OwnersHave' BY DEF Ownership, OwnersHave, OwnersSame, ItemOf
<1>3. OneOwner' BY DEF Ownership, OneOwner, OwnersSame
<1>4. UsedOwned' BY DEF Ownership, UsedOwned, OwnersSame
<1>5. Idle' BY DEF Ownership, Idle, InUse
<1>6. FilesThere' BY DEF Ownership, FilesThere
<1> QED BY <1>1, <1>2, <1>3, <1>4, <1>5, <1>6 DEF Ownership

\* No spool file comes or goes, and only that of document d is written.
SpoolFilesOf(d) ==
  \A i \in Items : /\ spl'[i].exists = spl[i].exists
                   /\ i # job[d].hFileItem => spl'[i] = spl[i]

\* The item of document d becomes x, and it is still in use.
LEMMA UseItem ==
  ASSUME Types, Ownership, OwnersSame, UNCHANGED FreeFiles,
         NEW d \in Docs, Has(d), SpoolFilesOf(d), NEW x, Same(ItemOf(d), x), SetItem(d, x)
  PROVE  /\ Ownership' /\ item' \in [Items -> ItemRecs]
         /\ ItemOf(d)' = x
         /\ \A c \in Docs : Has(c) /\ c # d => ItemOf(c)' = ItemOf(c)
<1> DEFINE h == job[d].hFileItem
<1>1. h \in Items /\ item[h].phase = "used" BY DEF Ownership, OwnersHave, ItemOf
<1>2. x \in ItemRecs /\ x.phase = "used" BY <1>1 DEF Same, ItemOf
<1>3. item' = [item EXCEPT ![h] = x] BY DEF SetItem
<1>4. /\ item' \in [Items -> ItemRecs] /\ item'[h] = x
      /\ \A i \in Items : i # h => item'[i] = item[i]
  BY <1>1, <1>2, <1>3 DEF Types
<1>5. Ownership' BY <1>1, <1>2, <1>4, KeepOwned DEF SpoolFilesOf
<1>6. ItemOf(d)' = x BY <1>4 DEF OwnersSame, ItemOf
<1>7. ASSUME NEW c \in Docs, Has(c), c # d PROVE ItemOf(c)' = ItemOf(c)
  BY <1>4, <1>7 DEF Ownership, OneOwner, OwnersHave, OwnersSame, ItemOf
<1> QED BY <1>4, <1>5, <1>6, <1>7

\* Document d gives its item back, as x.
LEMMA GiveItem ==
  ASSUME Types, Ownership, UNCHANGED FreeFiles,
         NEW d \in Docs, Has(d), ~ Has(d)', SpoolFilesOf(d),
         \A c \in Docs : c # d => /\ Has(c)' <=> Has(c)
                                  /\ job'[c].hFileItem = job[c].hFileItem,
         NEW x \in ItemRecs, x.phase = "leaving", ~ InUse(x), SetItem(d, x)
  PROVE  /\ Ownership' /\ item' \in [Items -> ItemRecs]
         /\ \A c \in Docs : Has(c) /\ c # d => ItemOf(c)' = ItemOf(c)
<1> DEFINE h == job[d].hFileItem
<1>1. h \in Items /\ item[h].phase = "used" BY DEF Ownership, OwnersHave, ItemOf
<1>3. item' = [item EXCEPT ![h] = x] BY DEF SetItem
<1>4. /\ item' \in [Items -> ItemRecs] /\ item'[h] = x
      /\ \A i \in Items : i # h => item'[i] = item[i]
  BY <1>1, <1>3 DEF Types
<1>5. \A c \in Docs : Has(c) /\ c # d => job[c].hFileItem # h
  BY DEF Ownership, OneOwner
<1>6. Ownership'
  <2>1. FreeFilesReady' BY <1>1, <1>4 DEF Ownership, FreeFilesReady, InUse, SpoolFilesOf
  <2>2. OwnersHave' BY <1>4, <1>5 DEF Ownership, OwnersHave, ItemOf
  <2>3. OneOwner' BY DEF Ownership, OneOwner
  <2>4. UsedOwned' BY <1>4 DEF Ownership, UsedOwned
  <2>5. Idle' BY <1>4 DEF Ownership, Idle, InUse
  <2>6. FilesThere' BY <1>1, <1>4 DEF Ownership, FilesThere, SpoolFilesOf
  <2> QED BY <2>1, <2>2, <2>3, <2>4, <2>5, <2>6 DEF Ownership
<1>7. ASSUME NEW c \in Docs, Has(c), c # d PROVE ItemOf(c)' = ItemOf(c)
  BY <1>4, <1>5, <1>7 DEF Ownership, OwnersHave, ItemOf
<1> QED BY <1>4, <1>6, <1>7

\* Document d takes item i, which was not in use, off the free list if it was on
\* it.
LEMMA TakeItem ==
  ASSUME Types, Ownership, NEW d \in Docs, ~ Has(d), NEW i \in Items, item[i].phase # "used",
         NEW x \in ItemRecs, x.phase = "used", item' = [item EXCEPT ![i] = x],
         job' = [job EXCEPT ![d].hFileItem = i], app' = [app EXCEPT ![d] = "item"],
         \A k, l \in DOMAIN FreeFiles' : FreeFiles'[k] = FreeFiles'[l] => k = l,
         \A n \in Items : (\E k \in DOMAIN FreeFiles' : FreeFiles'[k] = n)
                            <=> item[n].phase = "free" /\ n # i,
         spl'[i].exists, \A n \in Items : n # i => spl'[n] = spl[n]
  PROVE  /\ Ownership' /\ item' \in [Items -> ItemRecs] /\ job' \in [Docs -> JobRecs]
         /\ ItemOf(d)' = x /\ job'[d].queued = job[d].queued
         /\ \A c \in Docs : c # d => job'[c] = job[c] /\ app'[c] = app[c]
         /\ \A c \in Docs : Has(c) => ItemOf(c)' = ItemOf(c)
<1>1. /\ item' \in [Items -> ItemRecs] /\ item'[i] = x
      /\ \A n \in Items : n # i => item'[n] = item[n]
  BY DEF Types
<1>2. /\ job' \in [Docs -> JobRecs]
      /\ job'[d].hFileItem = i /\ job'[d].queued = job[d].queued
      /\ \A c \in Docs : c # d => job'[c] = job[c]
  <2> DEFINE k == [job[d] EXCEPT !.hFileItem = i]
  <2>1. job \in [Docs -> JobRecs] /\ job' = [job EXCEPT ![d] = k] BY DEF Types
  <2>2. k \in JobRecs /\ k.hFileItem = i /\ k.queued = job[d].queued
    BY <2>1, Known DEF JobRecs
  <2> HIDE DEF k
  <2> QED BY <2>1, <2>2
<1>3. app'[d] = "item" /\ \A c \in Docs : c # d => app'[c] = app[c] BY DEF Types
<1>4. Has(d)' /\ \A c \in Docs : c # d => (Has(c)' <=> Has(c)) BY <1>2, <1>3 DEF Has
<1>5. \A c \in Docs : Has(c) => job[c].hFileItem \in Items /\ job[c].hFileItem # i
  BY DEF Ownership, OwnersHave, ItemOf
<1>6. Ownership'
  <2>1. FreeFilesReady' BY <1>1 DEF Ownership, FreeFilesReady, InUse
  <2>2. OwnersHave' BY <1>1, <1>2, <1>4, <1>5 DEF Ownership, OwnersHave, ItemOf
  <2>3. OneOwner' BY <1>2, <1>4, <1>5 DEF Ownership, OneOwner
  <2>4. UsedOwned'
    <3>1. SUFFICES ASSUME NEW n \in Items, item'[n].phase = "used"
                   PROVE  \E c \in Docs : Has(c)' /\ job'[c].hFileItem = n
      BY DEF UsedOwned
    <3>2. CASE n = i BY <1>2, <1>4, <3>2
    <3>3. CASE n # i
      <4>1. PICK c \in Docs : Has(c) /\ job[c].hFileItem = n
        BY <1>1, <3>1, <3>3 DEF Ownership, UsedOwned
      <4> QED BY <1>2, <1>4, <4>1
    <3> QED BY <3>2, <3>3
  <2>5. Idle' BY <1>1 DEF Ownership, Idle, InUse
  <2>6. FilesThere' BY <1>1 DEF Ownership, FilesThere
  <2> QED BY <2>1, <2>2, <2>3, <2>4, <2>5, <2>6 DEF Ownership
<1>7. ItemOf(d)' = x BY <1>1, <1>2 DEF ItemOf
<1>8. ASSUME NEW c \in Docs, Has(c) PROVE ItemOf(c)' = ItemOf(c)
  BY <1>1, <1>2, <1>5, <1>8 DEF ItemOf
<1> QED BY <1>1, <1>2, <1>3, <1>6, <1>7, <1>8

\* The rest of a list without repetitions.
LEMMA RestOfList ==
  ASSUME NEW s \in Seq(Items), NEW n \in 0 .. Len(s),
         \A k, l \in DOMAIN s : s[k] = s[l] => k = l
  PROVE  LET r == SubSeq(s, n + 1, Len(s)) IN
         /\ r \in Seq(Items)
         /\ \A k, l \in DOMAIN r : r[k] = r[l] => k = l
         /\ \A i \in Items : (\E k \in DOMAIN r : r[k] = i)
              <=> (\E k \in DOMAIN s : s[k] = i) /\ i \notin {s[k] : k \in 1 .. n}
<1> DEFINE r == SubSeq(s, n + 1, Len(s))
<1>1. /\ Len(r) = Len(s) - n /\ DOMAIN r = 1 .. Len(s) - n /\ DOMAIN s = 1 .. Len(s)
      /\ \A k \in DOMAIN r : r[k] = s[k + n] /\ k + n \in DOMAIN s
  OBVIOUS
<1>2. r \in Seq(Items) OBVIOUS
<1> HIDE DEF r
<1>3. \A k, l \in DOMAIN r : r[k] = r[l] => k = l BY <1>1
<1>4. ASSUME NEW i \in Items
      PROVE  (\E k \in DOMAIN r : r[k] = i)
               <=> (\E k \in DOMAIN s : s[k] = i) /\ i \notin {s[k] : k \in 1 .. n}
  <2>1. ASSUME NEW k \in DOMAIN r, r[k] = i
        PROVE  (\E l \in DOMAIN s : s[l] = i) /\ i \notin {s[l] : l \in 1 .. n}
    BY <1>1, <2>1
  <2>2. ASSUME NEW k \in DOMAIN s, s[k] = i, i \notin {s[l] : l \in 1 .. n}
        PROVE  \E l \in DOMAIN r : r[l] = i
    <3>1. k - n \in DOMAIN r BY <1>1, <2>2
    <3> QED BY <1>1, <2>2, <3>1
  <2> QED BY <2>1, <2>2
<1> QED BY <1>2, <1>3, <1>4 DEF r

----------------------------------------------------------------------------
(* A step of one job, and DeleteJob.                                        *)

\* A step of the job of document d, after which its application is at a and its
\* port thread at p.  It may write the document's two files.
StepOf(d, a, p) ==
  /\ a \in AppPlaces \ {"new", "item"} /\ p \in PortPlaces
  /\ app' = [app EXCEPT ![d] = a] /\ port' = [port EXCEPT ![d] = p]
  /\ cancelling' \subseteq Docs
  /\ \A c \in Docs : c # d => (c \in cancelling' <=> c \in cancelling)
  /\ hReadFile' \in [Docs -> {"none", "SplWrite", "SplRead"}]
  /\ FreeFiles' = FreeFiles
  /\ spl' = [i \in Items |-> [exists |-> spl'[i].exists, data |-> spl'[i].data]]
  /\ SpoolFilesOf(d)
  /\ shd' \in [Items -> ShdRecs]
  /\ \A i \in Items : Good(i)' =>
       shd'[i] = shd[i] \/ (i = job[d].hFileItem /\ shd'[i].doc = d)

\* What a spool file holds is changed.
LEMMA SpoolFileWritten ==
  ASSUME Types, NEW h \in Items, NEW D, spl' = [spl EXCEPT ![h].data = D]
  PROVE  /\ spl' = [i \in Items |-> [exists |-> spl'[i].exists, data |-> spl'[i].data]]
         /\ \A i \in Items : /\ spl'[i].exists = spl[i].exists
                            /\ i # h => spl'[i] = spl[i]
         /\ spl'[h].data = D
<1> DEFINE e == spl[h].exists
<1>1. spl = [i \in Items |-> [exists |-> spl[i].exists, data |-> spl[i].data]]
  BY DEF Types
<1>2. DOMAIN spl = Items /\ \A i \in Items : spl[i] = [exists |-> spl[i].exists, data |-> spl[i].data]
  BY <1>1
<1>3. [spl[h] EXCEPT !.data = D] = [exists |-> e, data |-> D] BY <1>2
<1>4. /\ spl' = [i \in Items |-> IF i = h THEN [exists |-> e, data |-> D] ELSE spl[i]]
  BY <1>2, <1>3
<1> HIDE DEF e
<1>5. spl'[h] = [exists |-> e, data |-> D] BY <1>4
<1>6. spl'[h].exists = e /\ spl'[h].data = D BY <1>5
<1>7. \A i \in Items : i # h => spl'[i] = spl[i] BY <1>4
<1>8. \A i \in Items : spl'[i] = [exists |-> spl'[i].exists, data |-> spl'[i].data]
  BY <1>2, <1>5, <1>6, <1>7
<1>9. spl' = [i \in Items |-> [exists |-> spl'[i].exists, data |-> spl'[i].data]]
  BY <1>4, <1>8
<1> QED BY <1>6, <1>7, <1>9 DEF e

\* The others are not disturbed.
LEMMA UsersAfter ==
  ASSUME Users, NEW d \in Docs, NewItem(d)', RefsQueued(d)', ShadowWriters(d)',
         \A c \in Docs : c # d =>
           /\ job'[c] = job[c] /\ app'[c] = app[c] /\ port'[c] = port[c]
           /\ c \in cancelling' <=> c \in cancelling
           /\ Has(c) => ItemOf(c)' = ItemOf(c)
  PROVE  Users'
<1>1. ASSUME NEW c \in Docs, c # d PROVE NewItem(c)' /\ RefsQueued(c)' /\ ShadowWriters(c)'
  <2>1. NewItem(c) /\ RefsQueued(c) /\ ShadowWriters(c) BY DEF Users
  <2>2. NewItem(c)' BY <1>1, <2>1 DEF NewItem, Has
  <2>3. RefsQueued(c)' BY <1>1, <2>1 DEF RefsQueued, AppRefs, PortRefs, UserRefs
  <2>4. ShadowWriters(c)' BY <1>1, <2>1 DEF ShadowWriters, Has
  <2> QED BY <2>2, <2>3, <2>4
<1> QED BY <1>1 DEF Users

\* Shadow files are named as before, or a document's own is written.
LEMMA NamesAfter ==
  ASSUME PoolInv, NEW d \in Docs, job[d].queued, NEW a, NEW p, StepOf(d, a, p),
         \A c \in Docs : c # d => job'[c] = job[c],
         job'[d].queued => job'[d].hFileItem = job[d].hFileItem
  PROVE  ShadowsNamed'
<1>1. /\ app'[d] \notin {"new", "item"} /\ app[d] \notin {"new", "item"}
      /\ \A c \in Docs : c # d => app'[c] = app[c]
  BY DEF StepOf, PoolInv, Types, Users, RefsQueued
<1>2. \A i \in Items : Good(i)' =>
        \/ Good(i) /\ shd'[i].doc = shd[i].doc
        \/ i = job[d].hFileItem /\ shd'[i].doc = d
  BY DEF StepOf, Good
<1>3. \A i \in Items : Good(i) /\ shd[i].doc = d => i = job[d].hFileItem
  BY DEF PoolInv, ShadowsNamed
<1>4. ASSUME NEW i \in Items, NEW k \in Items, Good(i)', Good(k)', shd'[i].doc = shd'[k].doc
      PROVE  i = k
  BY <1>2, <1>3, <1>4 DEF PoolInv, ShadowsNamed
<1>5. ASSUME NEW i \in Items, Good(i)'
      PROVE  /\ shd'[i].doc \in Docs /\ app'[shd'[i].doc] \notin {"new", "item"}
             /\ job'[shd'[i].doc].queued => job'[shd'[i].doc].hFileItem = i
  <2>1. CASE i = job[d].hFileItem /\ shd'[i].doc = d BY <1>1, <2>1
  <2>2. CASE Good(i) /\ shd'[i].doc = shd[i].doc
    BY <1>1, <1>3, <2>2 DEF PoolInv, ShadowsNamed
  <2> QED BY <1>2, <1>5, <2>1, <2>2
<1> QED BY <1>4, <1>5 DEF ShadowsNamed

\* The job, now k, and its item, now x, are kept.
LEMMA KeepJob ==
  ASSUME PoolInv, NEW d \in Docs, job[d].queued, NEW a, NEW p, StepOf(d, a, p),
         NEW k \in JobRecs, k.queued, k.hFileItem = job[d].hFileItem,
         job' = [job EXCEPT ![d] = k],
         NEW x, Same(ItemOf(d), x), SetItem(d, x),
         "SHADOW_DELETED" \in k.Status /\ "SHD_WRITING" \in x.Status => a = "write" \/ p = "write"
  PROVE  PoolInv'
<1>1. Types /\ Ownership /\ Users BY DEF PoolInv
<1>2. /\ job' \in [Docs -> JobRecs] /\ job'[d] = k
      /\ \A c \in Docs : c # d => job'[c] = job[c]
  BY <1>1 DEF Types
<1>3. /\ app' \in [Docs -> AppPlaces] /\ port' \in [Docs -> PortPlaces]
      /\ app'[d] = a /\ port'[d] = p /\ a \notin {"new", "item"}
      /\ \A c \in Docs : c # d => app'[c] = app[c] /\ port'[c] = port[c]
  BY <1>1 DEF Types, StepOf
<1>4. OwnersSame /\ Has(d)
  BY <1>1, <1>2, <1>3 DEF OwnersSame, Has, Users, RefsQueued
<1>5. /\ Ownership' /\ item' \in [Items -> ItemRecs] /\ ItemOf(d)' = x
      /\ \A c \in Docs : Has(c) /\ c # d => ItemOf(c)' = ItemOf(c)
  BY <1>1, <1>4, UseItem DEF StepOf
<1>6. Types' BY <1>1, <1>2, <1>3, <1>5 DEF Types, StepOf
<1>7. NewItem(d)' /\ RefsQueued(d)' /\ ShadowWriters(d)'
  BY <1>2, <1>3, <1>5 DEF NewItem, RefsQueued, ShadowWriters
<1>8. Users' BY <1>1, <1>2, <1>3, <1>5, <1>7, UsersAfter DEF StepOf
<1>9. ShadowsNamed' BY <1>2, NamesAfter
<1> QED BY <1>5, <1>6, <1>8, <1>9 DEF PoolInv

\* DeleteJob of a job, now j, that has item it by now.  If nobody uses it, it is
\* gone, and its item given back: none of the handles is in use, because nobody
\* writes a shadow file that is marked as deleted.
LEMMA DeletesJob ==
  ASSUME PoolInv, NEW d \in Docs, job[d].queued, NEW a, NEW p, StepOf(d, a, p),
         NEW j \in JobRecs, j.queued, j.hFileItem = job[d].hFileItem,
         NEW it, Same(ItemOf(d), it), NEW refs \in BOOLEAN, DeleteJob(d, j, it, refs),
         (AppRefs(d) \/ PortRefs(d) \/ UserRefs(d))' => refs,
         ~ refs /\ "SHADOW_DELETED" \in j.Status => "SHD_WRITING" \notin it.Status
  PROVE  PoolInv'
<1>1. Types /\ Ownership /\ Users /\ it \in ItemRecs BY DEF PoolInv, Same
<1>2. CASE refs
  <2> DEFINE S == j.Status \cup {"PENDING_DELETION", "SHADOW_DELETED"}
             k == [j EXCEPT !.Status = S]
             x == FinishedShadow(it)
  <2>1. job' = [job EXCEPT ![d] = k] /\ SetItem(d, x) BY <1>2 DEF DeleteJob
  <2>2. S \in SUBSET JobFlags BY DEF JobRecs, JobFlags
  <2> HIDE DEF S
  <2>3. k \in JobRecs /\ k.queued /\ k.hFileItem = job[d].hFileItem BY <2>2 DEF JobRecs
  <2> HIDE DEF k
  <2>4. Same(ItemOf(d), x) /\ "SHD_WRITING" \notin x.Status
    BY <1>1, ShadowFinished DEF Same
  <2> HIDE DEF x
  <2> QED BY <2>1, <2>3, <2>4, KeepJob
<1>3. CASE ~ refs
  <2> DEFINE sh == IF "SHADOW_DELETED" \in j.Status THEN it ELSE FinishedShadow(it)
             w == FinishedWriting(sh)
             fin == FinishedReading(w)
             x == ReleasePoolHandle(fin, "DeleteJob")
  <2>1. job' = [job EXCEPT ![d] = NoJob] /\ SetItem(d, x) BY <1>3 DEF DeleteJob, Released
  <2>2. sh \in ItemRecs /\ "SHD_WRITING" \notin sh.Status
    BY <1>1, <1>3, ShadowFinished DEF Same
  <2> HIDE DEF sh
  <2>3. w \in ItemRecs /\ w.Status = sh.Status \ {"SPL_WRITING"}
    BY <2>2, WritingFinished DEF Same
  <2> HIDE DEF w
  <2>4. fin \in ItemRecs /\ fin.Status = w.Status \ {"SPL_READING"}
    BY <2>3, ReadingFinished DEF Same
  <2> HIDE DEF fin
  <2>5. ~ InUse(fin) BY <2>2, <2>3, <2>4 DEF InUse
  <2>6. x \in ItemRecs /\ x.phase = "leaving" /\ ~ InUse(x)
    BY <2>4, <2>5, ItemReleased DEF Callers
  <2> HIDE DEF x
  <2>7. NoJob \in JobRecs /\ ~ NoJob.queued BY DEF NoJob, JobRecs
  <2>8. /\ job' \in [Docs -> JobRecs] /\ job'[d] = NoJob
        /\ \A c \in Docs : c # d => job'[c] = job[c]
    BY <1>1, <2>1, <2>7 DEF Types
  <2>9. /\ app' \in [Docs -> AppPlaces] /\ port' \in [Docs -> PortPlaces]
        /\ app'[d] = a /\ port'[d] = p /\ a \notin {"new", "item"}
        /\ \A c \in Docs : c # d => app'[c] = app[c] /\ port'[c] = port[c]
    BY <1>1 DEF Types, StepOf
  <2>10. Has(d) /\ ~ Has(d)' BY <2>7, <2>8, <2>9 DEF Has
  <2>11. \A c \in Docs : c # d => (Has(c)' <=> Has(c)) /\ job'[c].hFileItem = job[c].hFileItem
    BY <2>8, <2>9 DEF Has
  <2>12. /\ Ownership' /\ item' \in [Items -> ItemRecs]
         /\ \A c \in Docs : Has(c) /\ c # d => ItemOf(c)' = ItemOf(c)
    BY <1>1, <2>1, <2>6, <2>10, <2>11, GiveItem DEF StepOf
  <2>13. Types' BY <1>1, <2>8, <2>9, <2>12 DEF Types, StepOf
  <2>14. NewItem(d)' /\ RefsQueued(d)' /\ ShadowWriters(d)'
    BY <1>3, <2>7, <2>8, <2>9 DEF NewItem, RefsQueued, ShadowWriters
  <2>15. Users' BY <1>1, <2>8, <2>9, <2>12, <2>14, UsersAfter DEF StepOf
  <2>16. ShadowsNamed' BY <2>7, <2>8, NamesAfter
  <2> QED BY <2>12, <2>13, <2>15, <2>16 DEF PoolInv
<1> QED BY <1>2, <1>3

----------------------------------------------------------------------------
(* What a step of one job need not say.                                     *)

LEMMA JobFrame ==
  ASSUME PoolInv, NEW d \in Docs, job[d].queued
  PROVE  /\ app = [app EXCEPT ![d] = app[d]] /\ app[d] \in AppPlaces \ {"new", "item"}
         /\ port = [port EXCEPT ![d] = port[d]] /\ port[d] \in PortPlaces
         /\ job = [job EXCEPT ![d] = job[d]] /\ job[d] \in JobRecs
         /\ job[d].hFileItem \in Items /\ Same(ItemOf(d), ItemOf(d))
         /\ item = [item EXCEPT ![job[d].hFileItem] = ItemOf(d)]
         /\ cancelling \subseteq Docs
         /\ hReadFile \in [Docs -> {"none", "SplWrite", "SplRead"}]
<1>1. job[d].hFileItem \in Items BY DEF PoolInv, Ownership, OwnersHave, Has
<1>2. app[d] \notin {"new", "item"} BY DEF PoolInv, Users, RefsQueued
<1> QED BY <1>1, <1>2 DEF PoolInv, Types, ItemOf, Same

LEMMA FilesFrame ==
  ASSUME PoolInv, NEW d \in Docs
  PROVE  /\ UNCHANGED spl =>
              /\ spl' = [i \in Items |-> [exists |-> spl'[i].exists, data |-> spl'[i].data]]
              /\ SpoolFilesOf(d)
         /\ UNCHANGED shd =>
              /\ shd' \in [Items -> ShdRecs]
              /\ \A i \in Items : Good(i)' =>
                   shd'[i] = shd[i] \/ (i = job[d].hFileItem /\ shd'[i].doc = d)
<1>1. ASSUME UNCHANGED spl
      PROVE  /\ spl' = [i \in Items |-> [exists |-> spl'[i].exists, data |-> spl'[i].data]]
             /\ SpoolFilesOf(d)
  BY <1>1 DEF PoolInv, Types, SpoolFilesOf
<1>2. ASSUME UNCHANGED shd
      PROVE  /\ shd' \in [Items -> ShdRecs]
             /\ \A i \in Items : Good(i)' =>
                  shd'[i] = shd[i] \/ (i = job[d].hFileItem /\ shd'[i].doc = d)
  BY <1>2 DEF PoolInv, Types
<1> QED BY <1>1, <1>2

LEMMA StatusSet ==
  ASSUME PoolInv, NEW d \in Docs, NEW S \in SUBSET JobFlags
  PROVE  /\ [job[d] EXCEPT !.Status = S] \in JobRecs
         /\ [job[d] EXCEPT !.Status = S].Status = S
         /\ [job[d] EXCEPT !.Status = S].queued = job[d].queued
         /\ [job[d] EXCEPT !.Status = S].hFileItem = job[d].hFileItem
<1>1. job[d] \in JobRecs BY DEF PoolInv, Types
<1> QED BY <1>1 DEF JobRecs

\* Whoever writes a shadow file that is marked as deleted.
LEMMA DeletedShadow ==
  ASSUME PoolInv, NEW d \in Docs, job[d].queued,
         "SHADOW_DELETED" \in job[d].Status, "SHD_WRITING" \in ItemOf(d).Status
  PROVE  app[d] = "write" \/ port[d] = "write"
BY DEF PoolInv, Users, ShadowWriters

----------------------------------------------------------------------------
(* The application.                                                         *)

LEMMA AppJob ==
  ASSUME PoolInv, NEW d \in Docs, AppRefs(d) \/ PortRefs(d) \/ UserRefs(d)
  PROVE  job[d].queued
BY DEF PoolInv, Users, RefsQueued

LEMMA GetSpoolFileHandleInv ==
  ASSUME PoolInv, NEW d \in Docs, GetSpoolFileHandle(d)
  PROVE  PoolInv'
<1>1. job[d].queued BY AppJob DEF GetSpoolFileHandle, AppRefs
<1> DEFINE S == ItemOf(d).Status \cup {"DONT_RECYCLE"}
           x == [ItemOf(d) EXCEPT !.Status = S]
<1>2. SetItem(d, x) BY DEF GetSpoolFileHandle
<1>3. ItemOf(d) \in ItemRecs BY <1>1, JobFrame DEF Same
<1>4. S \in SUBSET ItemFlags /\ ("SHD_WRITING" \in S <=> "SHD_WRITING" \in ItemOf(d).Status)
  BY <1>3 DEF ItemRecs, ItemFlags
<1> HIDE DEF S
<1>5. Same(ItemOf(d), x) /\ x.Status = S BY <1>3, <1>4 DEF ItemRecs, Same
<1> HIDE DEF x
<1>6. StepOf(d, app[d], port[d])
  BY <1>1, JobFrame, FilesFrame DEF GetSpoolFileHandle, StepOf, reader, pool, disk
<1>7. job' = [job EXCEPT ![d] = job[d]] BY <1>1, JobFrame DEF GetSpoolFileHandle
<1> QED BY <1>1, <1>2, <1>4, <1>5, <1>6, <1>7, JobFrame, KeepJob, DeletedShadow

LEMMA WritePrinterInv ==
  ASSUME PoolInv, NEW d \in Docs, WritePrinter(d)
  PROVE  PoolInv'
<1> DEFINE h == job[d].hFileItem
           n == item[h].SplWrite + 1
           x == [item[h] EXCEPT !.SplWrite = n]
           D == WriteAt(spl[h].data, item[h].SplWrite, d)
<1>1. job[d].queued BY AppJob DEF WritePrinter, AppRefs
<1>2. /\ item' = [item EXCEPT ![h].SplWrite = n] /\ item[h].SplWrite \in 0 .. Pages - 1
      /\ spl' = [spl EXCEPT ![h].data = D]
  BY DEF WritePrinter
<1>3. h \in Items /\ item[h] \in ItemRecs /\ ItemOf(d) = item[h] BY <1>1, JobFrame DEF Same, ItemOf
<1>4. n \in Int BY <1>2, Known
<1> HIDE DEF n, D
<1>5. Same(ItemOf(d), x) /\ x.Status = ItemOf(d).Status BY <1>3, <1>4 DEF ItemRecs, Same
<1>6. SetItem(d, x) BY <1>2 DEF SetItem
<1> HIDE DEF x
<1>7. /\ spl' = [i \in Items |-> [exists |-> spl'[i].exists, data |-> spl'[i].data]]
      /\ SpoolFilesOf(d)
  <2>1. Types /\ h \in Items BY <1>3 DEF PoolInv
  <2>2. spl' = [i \in Items |-> [exists |-> spl'[i].exists, data |-> spl'[i].data]]
    BY <1>2, <2>1, SpoolFileWritten, Zenon
  <2>3. \A i \in Items : spl'[i].exists = spl[i].exists /\ (i # h => spl'[i] = spl[i])
    BY <1>2, <2>1, SpoolFileWritten
  <2>4. SpoolFilesOf(d) BY <2>3 DEF SpoolFilesOf
  <2> QED BY <2>2, <2>4
<1>8. StepOf(d, app[d], port[d])
  BY <1>1, <1>7, JobFrame, FilesFrame DEF WritePrinter, StepOf, reader, pool
<1>9. job' = [job EXCEPT ![d] = job[d]] BY <1>1, JobFrame DEF WritePrinter
<1> QED BY <1>1, <1>5, <1>6, <1>8, <1>9, JobFrame, KeepJob, DeletedShadow

LEMMA EndDocClosesInv ==
  ASSUME PoolInv, NEW d \in Docs, EndDocCloses(d)
  PROVE  PoolInv'
<1>1. job[d].queued BY AppJob DEF EndDocCloses, AppRefs
<1> DEFINE x == FPCloseFiles(ItemOf(d))
<1>2. SetItem(d, x) BY DEF EndDocCloses
<1>3. Same(ItemOf(d), x) /\ ("SHD_WRITING" \in x.Status <=> "SHD_WRITING" \in ItemOf(d).Status)
  BY <1>1, JobFrame, FilesClosed DEF Same
<1> HIDE DEF x
<1>4. StepOf(d, "closed", port[d])
  BY <1>1, JobFrame, FilesFrame DEF EndDocCloses, AppAt, StepOf, reader, pool, disk, AppPlaces
<1>5. job' = [job EXCEPT ![d] = job[d]] BY <1>1, JobFrame DEF EndDocCloses
<1>6. app[d] = "closing" BY DEF EndDocCloses
<1> QED BY <1>1, <1>2, <1>3, <1>4, <1>5, <1>6, JobFrame, KeepJob, DeletedShadow

\* EndDocPrinterRest, of a job now j with item it.
LEMMA EndDocRest ==
  ASSUME PoolInv, NEW d \in Docs, job[d].queued, StepOf(d, "done", port[d]),
         UNCHANGED cancelling,
         NEW j \in JobRecs, j.queued, j.hFileItem = job[d].hFileItem,
         NEW it, Same(ItemOf(d), it), EndDocPrinterRest(d, j, it),
         "SHADOW_DELETED" \in j.Status /\ "SHD_WRITING" \in it.Status => port[d] = "write"
  PROVE  PoolInv'
<1>1. app'[d] = "done" /\ port'[d] = port[d]
  BY DEF StepOf, PoolInv, Types
<1>2. CASE "PENDING_DELETION" \in j.Status
  <2> DEFINE refs == PortRefs(d) \/ UserRefs(d)
  <2>1. DeleteJob(d, j, it, refs) BY <1>2 DEF EndDocPrinterRest
  <2>2. refs \in BOOLEAN /\ (port[d] = "write" => refs) BY DEF PortRefs, UserRefs
  <2>3. (AppRefs(d) \/ PortRefs(d) \/ UserRefs(d))' => refs
    BY <1>1 DEF AppRefs, PortRefs, UserRefs
  <2> HIDE DEF refs
  <2> QED BY <2>1, <2>2, <2>3, DeletesJob
<1>3. CASE "PENDING_DELETION" \notin j.Status
  <2>1. job' = [job EXCEPT ![d] = j] /\ SetItem(d, it) BY <1>3 DEF EndDocPrinterRest
  <2> QED BY <2>1, KeepJob
<1> QED BY <1>2, <1>3

LEMMA EndSpoolingInv ==
  ASSUME PoolInv, NEW d \in Docs, app[d] \in {"spooling", "closed"}, EndSpooling(d),
         UNCHANGED <<port, cancelling, reader, pool, disk, crashes>>
  PROVE  PoolInv'
<1>1. job[d].queued BY AppJob DEF AppRefs
<1> DEFINE S == job[d].Status \ {"SPOOLING"}
           j == [job[d] EXCEPT !.Status = S]
           it == FinishedWriting(ItemOf(d))
<1>2. S \in SUBSET JobFlags BY <1>1, JobFrame DEF JobRecs
<1>3. "SHADOW_DELETED" \in S <=> "SHADOW_DELETED" \in job[d].Status OBVIOUS
<1>4. /\ "SHADOW_DELETED" \in j.Status => EndDocPrinterRest(d, j, it)
      /\ "SHADOW_DELETED" \notin j.Status =>
           job' = [job EXCEPT ![d] = j] /\ SetItem(d, it) /\ app' = [app EXCEPT ![d] = "shadow"]
  BY DEF EndSpooling, AppAt
<1> HIDE DEF S
<1>5. /\ j \in JobRecs /\ j.queued /\ j.hFileItem = job[d].hFileItem
      /\ "SHADOW_DELETED" \in j.Status <=> "SHADOW_DELETED" \in job[d].Status
  BY <1>1, <1>2, <1>3, StatusSet
<1> HIDE DEF j
<1>6. Same(ItemOf(d), it) /\ ("SHD_WRITING" \in it.Status <=> "SHD_WRITING" \in ItemOf(d).Status)
  BY <1>1, JobFrame, WritingFinished DEF Same
<1> HIDE DEF it
<1>7. \A pc \in AppPlaces \ {"new", "item"} : app' = [app EXCEPT ![d] = pc] => StepOf(d, pc, port[d])
  BY <1>1, JobFrame, FilesFrame DEF StepOf, reader, pool, disk
<1>8. CASE "SHADOW_DELETED" \in j.Status
  <2>1. EndDocPrinterRest(d, j, it) BY <1>4, <1>8
  <2>2. StepOf(d, "done", port[d]) BY <1>7, <2>1 DEF EndDocPrinterRest, AppAt, AppPlaces
  <2>3. "SHD_WRITING" \in it.Status => port[d] = "write"
    BY <1>1, <1>5, <1>6, <1>8, DeletedShadow
  <2> QED BY <1>1, <1>5, <1>6, <2>1, <2>2, <2>3, EndDocRest
<1>9. CASE "SHADOW_DELETED" \notin j.Status
  <2>1. StepOf(d, "shadow", port[d]) BY <1>4, <1>7, <1>9 DEF AppPlaces
  <2> QED BY <1>1, <1>4, <1>5, <1>6, <1>9, <2>1, KeepJob
<1> QED BY <1>8, <1>9

LEMMA EndDocPrinterInv ==
  ASSUME PoolInv, NEW d \in Docs, EndDocPrinter(d)
  PROVE  PoolInv'
<1>1. job[d].queued /\ app[d] = "spooling" BY AppJob DEF EndDocPrinter, AppRefs
<1>2. CASE AppAt(d, "closing") /\ UNCHANGED <<job, item, sched>>
  <2>1. StepOf(d, "closing", port[d])
    BY <1>1, <1>2, JobFrame, FilesFrame
    DEF EndDocPrinter, AppAt, StepOf, reader, pool, disk, AppPlaces
  <2>2. job' = [job EXCEPT ![d] = job[d]] /\ SetItem(d, ItemOf(d))
    BY <1>1, <1>2, JobFrame DEF SetItem
  <2> QED BY <1>1, <2>1, <2>2, JobFrame, KeepJob, DeletedShadow
<1>3. CASE EndSpooling(d) BY <1>1, <1>3, EndSpoolingInv DEF EndDocPrinter
<1> QED BY <1>2, <1>3 DEF EndDocPrinter

LEMMA EndDocClosedInv ==
  ASSUME PoolInv, NEW d \in Docs, EndDocClosed(d)
  PROVE  PoolInv'
BY EndSpoolingInv DEF EndDocClosed

\* The shadow file is opened, by the application or the port.
LEMMA ShadowOpened ==
  ASSUME PoolInv, NEW d \in Docs, job[d].queued, OpenShadow(d)
  PROVE  /\ \E x : SetItem(d, x) /\ Same(ItemOf(d), x)
         /\ shd' \in [Items -> ShdRecs]
         /\ \A i \in Items : Good(i)' => shd'[i] = shd[i]
<1> DEFINE h == job[d].hFileItem
           S == item[h].Status \cup {"SHD_WRITING"}
           x == [item[h] EXCEPT !.Shd = TRUE, !.Status = S]
           e == [NoShd EXCEPT !.file = "empty"]
<1>1. /\ item' = [item EXCEPT ![h].Shd = TRUE, ![h].Status = S]
      /\ shd' = shd \/ shd' = [shd EXCEPT ![h] = e]
  BY DEF OpenShadow
<1>2. h \in Items /\ item[h] \in ItemRecs /\ ItemOf(d) = item[h] BY JobFrame DEF Same, ItemOf
<1>3. item' = [item EXCEPT ![h] = x] BY <1>1, <1>2 DEF PoolInv, Types
<1>4. S \in SUBSET ItemFlags BY <1>2 DEF ItemRecs, ItemFlags
<1> HIDE DEF S
<1>5. Same(ItemOf(d), x) BY <1>2, <1>4 DEF ItemRecs, Same
<1> HIDE DEF x
<1>6. e \in ShdRecs /\ e.file = "empty" BY DEF NoShd, ShdRecs
<1> HIDE DEF e
<1>7. /\ shd' \in [Items -> ShdRecs]
      /\ \A i \in Items : Good(i)' => shd'[i] = shd[i]
  BY <1>1, <1>2, <1>6 DEF PoolInv, Types, Good
<1> QED BY <1>3, <1>5, <1>7 DEF SetItem

\* The shadow file is written.
LEMMA ShadowWritten ==
  ASSUME PoolInv, NEW d \in Docs, job[d].queued, WriteShadow(d)
  PROVE  /\ shd' \in [Items -> ShdRecs]
         /\ \A i \in Items : Good(i)' =>
              shd'[i] = shd[i] \/ (i = job[d].hFileItem /\ shd'[i].doc = d)
<1> DEFINE h == job[d].hFileItem
           S == job[d].Status \cap {"SPOOLING", "PENDING_DELETION"}
           e == [file |-> "good", doc |-> d, Status |-> S]
<1>1. shd' = [shd EXCEPT ![h] = e] BY DEF WriteShadow
<1>2. h \in Items /\ S \in SUBSET JobFlags BY JobFrame DEF JobFlags
<1> HIDE DEF S
<1>3. e \in ShdRecs /\ e.doc = d BY <1>2 DEF ShdRecs
<1> HIDE DEF e
<1> QED BY <1>1, <1>2, <1>3 DEF PoolInv, Types, Good

\* And then it is not deleted any more.
LEMMA ShadowThere ==
  ASSUME PoolInv, NEW d \in Docs
  PROVE  /\ ShadowExists(job[d]) \in JobRecs
         /\ ShadowExists(job[d]).queued = job[d].queued
         /\ ShadowExists(job[d]).hFileItem = job[d].hFileItem
         /\ "SHADOW_DELETED" \notin ShadowExists(job[d]).Status
<1> DEFINE S == job[d].Status \ {"SHADOW_DELETED"}
<1>1. ShadowExists(job[d]) = [job[d] EXCEPT !.Status = S] BY DEF ShadowExists
<1>2. S \in SUBSET JobFlags /\ "SHADOW_DELETED" \notin S BY DEF PoolInv, Types, JobRecs
<1> HIDE DEF S
<1> QED BY <1>1, <1>2, StatusSet

LEMMA AppOpensShadowInv ==
  ASSUME PoolInv, NEW d \in Docs, AppOpensShadow(d)
  PROVE  PoolInv'
<1>1. job[d].queued BY AppJob DEF AppOpensShadow, AppRefs
<1>2. PICK x : SetItem(d, x) /\ Same(ItemOf(d), x) BY <1>1, ShadowOpened DEF AppOpensShadow
<1>3. StepOf(d, "write", port[d])
  BY <1>1, JobFrame, FilesFrame, ShadowOpened
  DEF AppOpensShadow, AppAt, StepOf, reader, pool, AppPlaces
<1>4. job' = [job EXCEPT ![d] = job[d]] BY <1>1, JobFrame DEF AppOpensShadow
<1> QED BY <1>1, <1>2, <1>3, <1>4, JobFrame, KeepJob

LEMMA AppWritesShadowInv ==
  ASSUME PoolInv, NEW d \in Docs, AppWritesShadow(d)
  PROVE  PoolInv'
<1>1. job[d].queued BY AppJob DEF AppWritesShadow, AppRefs
<1>2. StepOf(d, "done", port[d])
  BY <1>1, JobFrame, FilesFrame, ShadowWritten
  DEF AppWritesShadow, EndDocPrinterRest, AppAt, StepOf, reader, pool, AppPlaces
<1>3. EndDocPrinterRest(d, ShadowExists(job[d]), ItemOf(d)) /\ UNCHANGED cancelling
  BY DEF AppWritesShadow
<1> QED BY <1>1, <1>2, <1>3, JobFrame, ShadowThere, EndDocRest

----------------------------------------------------------------------------
(* The port thread.                                                         *)

\* A step that leaves the item alone, and the mark of a deleted shadow file.
LEMMA PortStatus ==
  ASSUME PoolInv, NEW d \in Docs, job[d].queued, port[d] # "write",
         NEW p \in PortPlaces, port' = [port EXCEPT ![d] = p],
         NEW S \in SUBSET JobFlags, job' = [job EXCEPT ![d].Status = S],
         "SHADOW_DELETED" \in S => "SHADOW_DELETED" \in job[d].Status,
         UNCHANGED <<app, cancelling, reader, item, FreeFiles, spl, shd>>
  PROVE  PoolInv'
<1> DEFINE k == [job[d] EXCEPT !.Status = S]
<1>1. job' = [job EXCEPT ![d] = k] BY DEF PoolInv, Types
<1>2. /\ k \in JobRecs /\ k.queued /\ k.hFileItem = job[d].hFileItem
      /\ k.Status = S
  BY StatusSet
<1> HIDE DEF k
<1>3. StepOf(d, app[d], p) BY JobFrame, FilesFrame DEF StepOf, reader
<1>4. SetItem(d, ItemOf(d)) BY JobFrame DEF SetItem
<1> QED BY <1>1, <1>2, <1>3, <1>4, JobFrame, KeepJob, DeletedShadow

LEMMA PortBeginsInv ==
  ASSUME PoolInv, NEW d \in Docs, PortBegins(d)
  PROVE  PoolInv'
<1>1. job[d].queued BY AppJob DEF PortBegins, PortRefs
<1>2. /\ port[d] = "assigned" /\ port' = [port EXCEPT ![d] = "shadow"]
      /\ UNCHANGED <<app, job, cancelling, reader, item, FreeFiles, spl, shd>>
  BY DEF PortBegins, PortAt, pool, disk
<1>3. job' = [job EXCEPT ![d].Status = job[d].Status] /\ job[d].Status \in SUBSET JobFlags
  BY <1>1, <1>2, JobFrame DEF PoolInv, Types, JobRecs
<1> QED BY <1>1, <1>2, <1>3, PortStatus DEF PortPlaces

LEMMA PortOpensShadowInv ==
  ASSUME PoolInv, NEW d \in Docs, PortOpensShadow(d)
  PROVE  PoolInv'
<1>1. job[d].queued BY AppJob DEF PortOpensShadow, PortRefs
<1>2. PICK x : SetItem(d, x) /\ Same(ItemOf(d), x) BY <1>1, ShadowOpened DEF PortOpensShadow
<1>3. StepOf(d, app[d], "write")
  BY <1>1, JobFrame, FilesFrame, ShadowOpened
  DEF PortOpensShadow, PortAt, StepOf, reader, pool, PortPlaces
<1>4. job' = [job EXCEPT ![d] = job[d]] BY <1>1, JobFrame DEF PortOpensShadow
<1> QED BY <1>1, <1>2, <1>3, <1>4, JobFrame, KeepJob

LEMMA PortWritesShadowInv ==
  ASSUME PoolInv, NEW d \in Docs, PortWritesShadow(d)
  PROVE  PoolInv'
<1>1. job[d].queued BY AppJob DEF PortWritesShadow, PortRefs
<1>2. StepOf(d, app[d], "begin")
  BY <1>1, JobFrame, FilesFrame, ShadowWritten
  DEF PortWritesShadow, PortAt, StepOf, reader, pool, PortPlaces
<1>3. job' = [job EXCEPT ![d] = ShadowExists(job[d])] BY DEF PortWritesShadow
<1>4. SetItem(d, ItemOf(d)) BY <1>1, JobFrame DEF PortWritesShadow, SetItem
<1> QED BY <1>1, <1>2, <1>3, <1>4, JobFrame, ShadowThere, KeepJob

LEMMA PortPrintsInv ==
  ASSUME PoolInv, NEW d \in Docs, PortPrints(d)
  PROVE  PoolInv'
<1>1. job[d].queued BY AppJob DEF PortPrints, PortRefs
<1> DEFINE S == job[d].Status \cup {"PRINTING"}
<1>2. /\ port[d] # "write" /\ port' = [port EXCEPT ![d] = "open"]
      /\ job' = [job EXCEPT ![d].Status = S]
      /\ UNCHANGED <<app, cancelling, reader, item, FreeFiles, spl, shd>>
  BY DEF PortPrints, PortAt, pool, disk
<1>3. /\ S \in SUBSET JobFlags
      /\ "SHADOW_DELETED" \in S => "SHADOW_DELETED" \in job[d].Status
  BY <1>1, JobFrame DEF JobRecs, JobFlags
<1> HIDE DEF S
<1> QED BY <1>1, <1>2, <1>3, PortStatus DEF PortPlaces

\* A step that changes the item of the job, but not who writes its shadow file.
LEMMA PortItem ==
  ASSUME PoolInv, NEW d \in Docs, job[d].queued, port[d] # "write",
         NEW p \in PortPlaces, port' = [port EXCEPT ![d] = p],
         NEW x, SetItem(d, x), Same(ItemOf(d), x),
         "SHD_WRITING" \in x.Status => "SHD_WRITING" \in ItemOf(d).Status,
         hReadFile' \in [Docs -> {"none", "SplWrite", "SplRead"}],
         UNCHANGED <<app, job, cancelling, FreeFiles, spl, shd>>
  PROVE  PoolInv'
<1>1. StepOf(d, app[d], p) BY JobFrame, FilesFrame DEF StepOf
<1>2. job' = [job EXCEPT ![d] = job[d]] BY JobFrame
<1> QED BY <1>1, <1>2, JobFrame, KeepJob, DeletedShadow

LEMMA OpenPrinterInv ==
  ASSUME PoolInv, NEW d \in Docs, OpenPrinter(d)
  PROVE  PoolInv'
<1>1. job[d].queued /\ port[d] # "write" BY AppJob DEF OpenPrinter, PortRefs
<1>2. UNCHANGED <<app, job, cancelling, FreeFiles, spl, shd>> BY DEF OpenPrinter, pool, disk
<1>3. CASE Is(d, "PENDING_DELETION")
  <2>1. port' = [port EXCEPT ![d] = "printed"] /\ UNCHANGED <<hReadFile, item>>
    BY <1>3 DEF OpenPrinter, PortAt, reader
  <2>2. SetItem(d, ItemOf(d)) BY <1>1, <2>1, JobFrame DEF SetItem
  <2> QED BY <1>1, <1>2, <2>1, <2>2, JobFrame, PortItem DEF PortPlaces
<1>4. CASE ~ Is(d, "PENDING_DELETION")
  <2> DEFINE x == GetReaderFromHandle(ItemOf(d))
             hd == IF ReadsFromWriter(ItemOf(d)) THEN "SplWrite" ELSE "SplRead"
  <2>1. /\ port' = [port EXCEPT ![d] = "reading"] /\ SetItem(d, x)
        /\ hReadFile' = [hReadFile EXCEPT ![d] = hd]
    BY <1>4 DEF OpenPrinter, PortAt
  <2>2. /\ Same(ItemOf(d), x)
        /\ "SHD_WRITING" \in x.Status => "SHD_WRITING" \in ItemOf(d).Status
    BY <1>1, JobFrame, ReaderOfItem DEF Same
  <2> HIDE DEF x
  <2>3. hd \in {"SplWrite", "SplRead"} OBVIOUS
  <2> HIDE DEF hd
  <2>4. hReadFile' \in [Docs -> {"none", "SplWrite", "SplRead"}] BY <1>1, <2>1, <2>3, JobFrame
  <2> QED BY <1>1, <1>2, <2>1, <2>2, <2>4, PortItem DEF PortPlaces
<1> QED BY <1>3, <1>4

\* The handle the port reads from is moved.
LEMMA ReaderMoved ==
  ASSUME PoolInv, NEW d \in Docs, job[d].queued, NEW n \in Int
  PROVE  LET x == [ItemOf(d) EXCEPT ![hReadFile[d]] = n] IN
         Same(ItemOf(d), x) /\ x.Status = ItemOf(d).Status
<1>1. ItemOf(d) \in ItemRecs /\ hReadFile[d] \in {"none", "SplWrite", "SplRead"}
  BY JobFrame DEF Same
<1> QED BY <1>1, HandleMoved

LEMMA ReadPrinterInv ==
  ASSUME PoolInv, NEW d \in Docs, ReadPrinter(d)
  PROVE  PoolInv'
<1>1. job[d].queued /\ port[d] = "reading" BY AppJob DEF ReadPrinter, PortRefs
<1>2. UNCHANGED <<app, port, job, cancelling, hReadFile, FreeFiles, spl, shd>>
  BY DEF ReadPrinter, pool, disk
<1> DEFINE h == hReadFile[d]
           n == ItemOf(d)[h] + 1
           x == [ItemOf(d) EXCEPT ![h] = n]
           y == [ItemOf(d) EXCEPT ![h] = @ + 1]
<1>3. SetItem(d, y) BY DEF ReadPrinter
<1>4. ItemOf(d) \in ItemRecs /\ h \in {"none", "SplWrite", "SplRead"} BY <1>1, JobFrame DEF Same
<1>5. CASE h = "none"
  <2>1. y = ItemOf(d) BY <1>4, <1>5 DEF ItemRecs
  <2>2. SetItem(d, ItemOf(d)) BY <1>3, <2>1
  <2>3. port' = [port EXCEPT ![d] = "reading"] BY <1>1, <1>2, JobFrame
  <2> QED BY <1>1, <1>2, <2>2, <2>3, JobFrame, PortItem DEF PortPlaces
<1>6. CASE h # "none"
  <2>1. n \in Int BY <1>4, <1>6 DEF ItemRecs
  <2>2. SetItem(d, x) BY <1>3
  <2> HIDE DEF n
  <2>3. Same(ItemOf(d), x) /\ x.Status = ItemOf(d).Status BY <1>4, <2>1, HandleMoved
  <2> HIDE DEF x
  <2>4. port' = [port EXCEPT ![d] = "reading"] BY <1>1, <1>2, JobFrame
  <2> QED BY <1>1, <1>2, <2>2, <2>3, <2>4, JobFrame, PortItem DEF PortPlaces
<1> QED BY <1>5, <1>6

LEMMA ClosePrinterInv ==
  ASSUME PoolInv, NEW d \in Docs, ClosePrinter(d)
  PROVE  PoolInv'
<1>1. job[d].queued /\ port[d] # "write" BY AppJob DEF ClosePrinter, PortRefs
<1> DEFINE x == [ItemOf(d) EXCEPT ![hReadFile[d]] = 0]
<1>2. /\ SetItem(d, x) /\ port' = [port EXCEPT ![d] = "printed"]
      /\ hReadFile' = [hReadFile EXCEPT ![d] = "none"]
      /\ UNCHANGED <<app, job, cancelling, FreeFiles, spl, shd>>
  BY DEF ClosePrinter, PortAt, pool, disk
<1>3. Same(ItemOf(d), x) /\ x.Status = ItemOf(d).Status BY <1>1, ReaderMoved
<1> HIDE DEF x
<1>4. hReadFile' \in [Docs -> {"none", "SplWrite", "SplRead"}] BY <1>1, <1>2, JobFrame
<1> QED BY <1>1, <1>2, <1>3, <1>4, PortItem DEF PortPlaces

LEMMA PortSendsInv ==
  ASSUME PoolInv, NEW d \in Docs, PortSends(d)
  PROVE  PoolInv'
<1>1. job[d].queued /\ port[d] # "write" BY AppJob DEF PortSends, PortRefs
<1>2. UNCHANGED <<app, cancelling, reader, item, FreeFiles, spl, shd>>
  BY DEF PortSends, pool, disk
<1>3. CASE Pending(d) /\ PortAt(d, "cancel")
  <2> DEFINE S == job[d].Status \cup {"PENDING_DELETION"}
  <2>1. job' = [job EXCEPT ![d].Status = S] /\ port' = [port EXCEPT ![d] = "cancel"]
    BY <1>3 DEF Pending, PortAt
  <2>2. /\ S \in SUBSET JobFlags
        /\ "SHADOW_DELETED" \in S => "SHADOW_DELETED" \in job[d].Status
    BY <1>1, JobFrame DEF JobRecs, JobFlags
  <2> HIDE DEF S
  <2> QED BY <1>1, <1>2, <2>1, <2>2, PortStatus DEF PortPlaces
<1>4. CASE PortAt(d, "stopped") /\ UNCHANGED job
  <2>1. /\ job' = [job EXCEPT ![d].Status = job[d].Status] /\ job[d].Status \in SUBSET JobFlags
        /\ port' = [port EXCEPT ![d] = "stopped"]
    BY <1>1, <1>4, JobFrame DEF PoolInv, Types, JobRecs, PortAt
  <2> QED BY <1>1, <1>2, <2>1, PortStatus DEF PortPlaces
<1> QED BY <1>3, <1>4 DEF PortSends

LEMMA PortSentInv ==
  ASSUME PoolInv, NEW d \in Docs, PortSent(d)
  PROVE  PoolInv'
<1>1. job[d].queued BY AppJob DEF PortSent, PortRefs
<1>2. StepOf(d, app[d], "sent")
  BY <1>1, JobFrame, FilesFrame DEF PortSent, PortAt, StepOf, reader, pool, disk, PortPlaces
<1>3. DeleteJob(d, job[d], ItemOf(d), TRUE) BY DEF PortSent
<1> QED BY <1>1, <1>2, <1>3, JobFrame, DeletesJob

LEMMA PortStopsInv ==
  ASSUME PoolInv, NEW d \in Docs, PortStops(d)
  PROVE  PoolInv'
<1>1. job[d].queued /\ port[d] # "write" BY AppJob DEF PortStops, PortRefs
<1> DEFINE S == job[d].Status \ {"PRINTING"}
<1>2. /\ job' = [job EXCEPT ![d].Status = S] /\ port' = [port EXCEPT ![d] = "end"]
      /\ UNCHANGED <<app, cancelling, reader, item, FreeFiles, spl, shd>>
  BY DEF PortStops, PortAt, pool, disk
<1>3. /\ S \in SUBSET JobFlags
      /\ "SHADOW_DELETED" \in S => "SHADOW_DELETED" \in job[d].Status
  BY <1>1, JobFrame DEF JobRecs
<1> HIDE DEF S
<1> QED BY <1>1, <1>2, <1>3, PortStatus DEF PortPlaces

LEMMA PortEndsInv ==
  ASSUME PoolInv, NEW d \in Docs, PortEnds(d)
  PROVE  PoolInv'
<1>1. job[d].queued /\ port[d] = "end" BY AppJob DEF PortEnds, PortRefs
<1> DEFINE S == job[d].Status \ {"DESPOOLING"}
           j == [job[d] EXCEPT !.Status = S]
<1>2. StepOf(d, app[d], "none")
  BY <1>1, JobFrame, FilesFrame DEF PortEnds, PortAt, StepOf, reader, pool, disk, PortPlaces
<1>3. /\ S \in SUBSET JobFlags
      /\ "SHADOW_DELETED" \in S <=> "SHADOW_DELETED" \in job[d].Status
  BY <1>1, JobFrame DEF JobRecs
<1>4. \/ DeleteJob(d, j, ItemOf(d), FALSE) /\ ~ AppRefs(d) /\ ~ UserRefs(d)
      \/ job' = [job EXCEPT ![d] = j] /\ UNCHANGED item
  BY DEF PortEnds
<1> HIDE DEF S
<1>5. /\ j \in JobRecs /\ j.queued /\ j.hFileItem = job[d].hFileItem
      /\ "SHADOW_DELETED" \in j.Status <=> "SHADOW_DELETED" \in job[d].Status
  BY <1>1, <1>3, StatusSet
<1> HIDE DEF j
<1>6. CASE DeleteJob(d, j, ItemOf(d), FALSE) /\ ~ AppRefs(d) /\ ~ UserRefs(d)
  <2>1. "SHADOW_DELETED" \in j.Status => "SHD_WRITING" \notin ItemOf(d).Status
    BY <1>1, <1>5, <1>6, DeletedShadow DEF AppRefs
  <2>2. ~ (AppRefs(d) \/ PortRefs(d) \/ UserRefs(d))'
    BY <1>1, <1>2, <1>6 DEF StepOf, PortEnds, AppRefs, PortRefs, UserRefs, PoolInv, Types
  <2> QED BY <1>1, <1>2, <1>5, <1>6, <2>1, <2>2, JobFrame, DeletesJob
<1>7. CASE job' = [job EXCEPT ![d] = j] /\ UNCHANGED item
  <2>1. SetItem(d, ItemOf(d)) BY <1>1, <1>7, JobFrame DEF SetItem
  <2> QED BY <1>1, <1>2, <1>5, <1>7, <2>1, JobFrame, KeepJob, DeletedShadow
<1> QED BY <1>4, <1>6, <1>7

----------------------------------------------------------------------------
(* Users who delete a job.                                                  *)

LEMMA DeleteByUserInv ==
  ASSUME PoolInv, NEW d \in Docs, DeleteByUser(d)
  PROVE  PoolInv'
<1>1. job[d].queued BY DEF DeleteByUser
<1>2. cancelling' \subseteq Docs /\ (cancelling' = cancelling \/ cancelling' = cancelling \cup {d})
  BY <1>1, JobFrame DEF DeleteByUser
<1>3. StepOf(d, app[d], port[d])
  BY <1>1, <1>2, JobFrame, FilesFrame DEF DeleteByUser, StepOf, reader, pool, disk
<1>4. CASE Cancels(d)
  <2> DEFINE S == job[d].Status \cup {"PENDING_DELETION"}
             k == [job[d] EXCEPT !.Status = S]
  <2>1. job' = [job EXCEPT ![d].Status = S] /\ UNCHANGED item
    BY <1>4 DEF DeleteByUser, Pending
  <2>2. job' = [job EXCEPT ![d] = k] BY <2>1 DEF PoolInv, Types
  <2>3. /\ S \in SUBSET JobFlags
        /\ "SHADOW_DELETED" \in S => "SHADOW_DELETED" \in job[d].Status
    BY <1>1, JobFrame DEF JobRecs, JobFlags
  <2> HIDE DEF S
  <2>4. /\ k \in JobRecs /\ k.queued /\ k.hFileItem = job[d].hFileItem
        /\ "SHADOW_DELETED" \in k.Status => "SHADOW_DELETED" \in job[d].Status
    BY <1>1, <2>3, StatusSet
  <2> HIDE DEF k
  <2>5. SetItem(d, ItemOf(d)) BY <1>1, <2>1, JobFrame DEF SetItem
  <2> QED BY <1>1, <1>3, <2>2, <2>4, <2>5, JobFrame, KeepJob, DeletedShadow
<1>5. CASE ~ Cancels(d)
  <2> DEFINE refs == AppRefs(d) \/ PortRefs(d) \/ UserRefs(d)
  <2>1. DeleteJob(d, job[d], ItemOf(d), refs) /\ UNCHANGED <<app, port, cancelling>>
    BY <1>5 DEF DeleteByUser
  <2>2. refs \in BOOLEAN BY DEF AppRefs, PortRefs, UserRefs
  <2>3. ~ refs /\ "SHADOW_DELETED" \in job[d].Status => "SHD_WRITING" \notin ItemOf(d).Status
    BY <1>1, DeletedShadow DEF AppRefs, PortRefs
  <2>4. (AppRefs(d) \/ PortRefs(d) \/ UserRefs(d))' => refs
    BY <2>1 DEF AppRefs, PortRefs, UserRefs
  <2> HIDE DEF refs
  <2> QED BY <1>1, <1>3, <2>1, <2>2, <2>3, <2>4, JobFrame, DeletesJob
<1> QED BY <1>4, <1>5

LEMMA CancelledInv ==
  ASSUME PoolInv, NEW d \in Docs, Cancelled(d)
  PROVE  PoolInv'
<1>1. job[d].queued BY AppJob DEF Cancelled, UserRefs
<1>2. /\ cancelling' = cancelling \ {d} /\ UNCHANGED <<app, port>>
  BY DEF Cancelled
<1>3. StepOf(d, app[d], port[d])
  BY <1>1, <1>2, JobFrame, FilesFrame DEF Cancelled, StepOf, reader, pool, disk
<1> DEFINE refs == AppRefs(d) \/ PortRefs(d)
<1>4. DeleteJob(d, job[d], ItemOf(d), refs) BY DEF Cancelled
<1>5. refs \in BOOLEAN BY DEF AppRefs, PortRefs
<1>6. ~ refs /\ "SHADOW_DELETED" \in job[d].Status => "SHD_WRITING" \notin ItemOf(d).Status
  BY <1>1, DeletedShadow DEF AppRefs, PortRefs
<1>7. (AppRefs(d) \/ PortRefs(d) \/ UserRefs(d))' => refs
  BY <1>2 DEF AppRefs, PortRefs, UserRefs
<1> HIDE DEF refs
<1> QED BY <1>1, <1>3, <1>4, <1>5, <1>6, <1>7, JobFrame, DeletesJob

----------------------------------------------------------------------------
(* A job begins.                                                            *)

LEMMA NewItemTypes ==
  /\ NoItem \in ItemRecs /\ NoItem.phase = "none" /\ ~ InUse(NoItem)
  /\ [NoItem EXCEPT !.phase = "used"] \in ItemRecs
  /\ [NoItem EXCEPT !.phase = "used"].phase = "used"
  /\ [NoItem EXCEPT !.phase = "used"].Status = {}
<1>1. NoItem \in ItemRecs /\ NoItem.phase = "none" /\ NoItem.Status = {}
  BY DEF NoItem, ItemRecs, Closed
<1>2. /\ [NoItem EXCEPT !.phase = "used"] \in ItemRecs
      /\ [NoItem EXCEPT !.phase = "used"].phase = "used"
      /\ [NoItem EXCEPT !.phase = "used"].Status = NoItem.Status
  BY <1>1 DEF ItemRecs
<1> QED BY <1>1, <1>2 DEF InUse

\* The free item, or the new one, and the list without it.
LEMMA ItemTaken ==
  ASSUME PoolInv, NEW i \in Items, GetFreeItem(i) \/ GetNewItem(i)
  PROVE  /\ item[i].phase # "used"
         /\ \E x \in ItemRecs :
              /\ x.phase = "used" /\ item' = [item EXCEPT ![i] = x]
              /\ "SPL_READING" \notin x.Status /\ "SHD_WRITING" \notin x.Status
         /\ FreeFiles' \in Seq(Items)
         /\ \A k, l \in DOMAIN FreeFiles' : FreeFiles'[k] = FreeFiles'[l] => k = l
         /\ \A n \in Items : (\E k \in DOMAIN FreeFiles' : FreeFiles'[k] = n)
                               <=> item[n].phase = "free" /\ n # i
         /\ spl'[i].exists /\ \A n \in Items : n # i => spl'[n] = spl[n]
         /\ spl' = [n \in Items |-> [exists |-> spl'[n].exists, data |-> spl'[n].data]]
<1>1. Types /\ Ownership BY DEF PoolInv
<1>2. item[i] \in ItemRecs BY <1>1 DEF Types
<1>3. /\ \A k, l \in DOMAIN FreeFiles : FreeFiles[k] = FreeFiles[l] => k = l
      /\ \A n \in Items : (\E k \in DOMAIN FreeFiles : FreeFiles[k] = n) <=> item[n].phase = "free"
  BY <1>1 DEF Ownership, FreeFilesReady
<1>4. CASE GetFreeItem(i)
  <2> DEFINE y == [item[i] EXCEPT !.phase = "used", !.by = "none"]
             x == GetWriterFromHandle(y)
  <2>1. /\ FreeFiles # <<>> /\ i = Head(FreeFiles) /\ FreeFiles' = Tail(FreeFiles)
        /\ item' = [item EXCEPT ![i] = x] /\ spl' = spl
    BY <1>4 DEF GetFreeItem
  <2>2. /\ Len(FreeFiles) \in Nat /\ Len(FreeFiles) >= 1 /\ 1 \in DOMAIN FreeFiles
        /\ i = FreeFiles[1] /\ Tail(FreeFiles) = SubSeq(FreeFiles, 2, Len(FreeFiles))
    BY <1>1, <2>1 DEF Types
  <2>3. item[i].phase = "free" BY <1>3, <2>2
  <2>4. ~ InUse(item[i]) /\ spl[i].exists
    BY <1>1, <2>3 DEF Ownership, Idle, FilesThere
  <2>5. y \in ItemRecs /\ y.phase = "used" /\ y.Status = item[i].Status BY <1>2 DEF ItemRecs
  <2> HIDE DEF y
  <2>6. /\ x \in ItemRecs /\ x.phase = "used"
        /\ "SPL_READING" \notin x.Status /\ "SHD_WRITING" \notin x.Status
    BY <2>4, <2>5, WriterOfItem DEF Same, InUse
  <2> HIDE DEF x
  <2>7. 1 \in 0 .. Len(FreeFiles) /\ FreeFiles' = SubSeq(FreeFiles, 1 + 1, Len(FreeFiles))
    BY <2>1, <2>2
  <2>8. {FreeFiles[k] : k \in 1 .. 1} = {i} BY <2>2
  <2>9. /\ FreeFiles' \in Seq(Items)
        /\ \A k, l \in DOMAIN FreeFiles' : FreeFiles'[k] = FreeFiles'[l] => k = l
        /\ \A n \in Items : (\E k \in DOMAIN FreeFiles' : FreeFiles'[k] = n)
             <=> (\E k \in DOMAIN FreeFiles : FreeFiles[k] = n) /\ n \notin {FreeFiles[k] : k \in 1 .. 1}
    <3>1. FreeFiles \in Seq(Items) BY <1>1 DEF Types
    <3> DEFINE r == SubSeq(FreeFiles, 1 + 1, Len(FreeFiles))
    <3>2. /\ r \in Seq(Items)
          /\ \A k, l \in DOMAIN r : r[k] = r[l] => k = l
          /\ \A n \in Items : (\E k \in DOMAIN r : r[k] = n)
               <=> (\E k \in DOMAIN FreeFiles : FreeFiles[k] = n) /\ n \notin {FreeFiles[k] : k \in 1 .. 1}
      BY <1>3, <2>7, <3>1, RestOfList
    <3>3. FreeFiles' = r BY <2>7
    <3> HIDE DEF r
    <3> QED BY <3>2, <3>3
  <2>10. spl' = [n \in Items |-> [exists |-> spl'[n].exists, data |-> spl'[n].data]]
    BY <1>1, <2>1 DEF Types
  <2> QED BY <1>3, <2>1, <2>3, <2>4, <2>6, <2>8, <2>9, <2>10
<1>5. CASE GetNewItem(i)
  <2> DEFINE y == [NoItem EXCEPT !.phase = "used"]
             x == GetWriterFromHandle(y)
             e == [exists |-> TRUE, data |-> <<>>]
  <2>1. /\ FreeFiles = <<>> /\ FreeFiles' = FreeFiles /\ ~ spl[i].exists
        /\ item' = [item EXCEPT ![i] = x] /\ spl' = [spl EXCEPT ![i] = e]
    BY <1>5 DEF GetNewItem, NextNumber
  <2>2. /\ x \in ItemRecs /\ x.phase = "used"
        /\ "SPL_READING" \notin x.Status /\ "SHD_WRITING" \notin x.Status
    <3>1. y \in ItemRecs /\ y.phase = "used" /\ y.Status = {} BY NewItemTypes
    <3> HIDE DEF y
    <3> QED BY <3>1, WriterOfItem DEF Same
  <2> HIDE DEF x
  <2>3. item[i].phase = "none" BY <1>1, <2>1 DEF Ownership, FilesThere
  <2>4. e = [exists |-> e.exists, data |-> e.data] /\ e.exists OBVIOUS
  <2> HIDE DEF e
  <2>5. /\ spl'[i] = e /\ \A n \in Items : n # i => spl'[n] = spl[n]
        /\ spl' = [n \in Items |-> [exists |-> spl'[n].exists, data |-> spl'[n].data]]
    BY <1>1, <2>1, <2>4 DEF Types
  <2>6. FreeFiles' \in Seq(Items) BY <1>1, <2>1 DEF Types
  <2>7. /\ \A k, l \in DOMAIN FreeFiles' : FreeFiles'[k] = FreeFiles'[l] => k = l
        /\ \A n \in Items : (\E k \in DOMAIN FreeFiles' : FreeFiles'[k] = n)
                              <=> item[n].phase = "free" /\ n # i
    <3>1. FreeFiles' = FreeFiles BY <2>1
    <3> QED BY <1>3, <2>3, <3>1
  <2> QED BY <2>1, <2>2, <2>3, <2>4, <2>5, <2>6, <2>7
<1> QED BY <1>4, <1>5

LEMMA StartDocPrinterInv ==
  ASSUME PoolInv, FilesCanBeCreated, NEW d \in Docs, StartDocPrinter(d)
  PROVE  PoolInv'
<1>1. Types /\ Ownership /\ Users /\ ShadowsNamed BY DEF PoolInv
<1>2. app[d] = "new" /\ ~ Has(d)
  BY <1>1 DEF StartDocPrinter, Users, RefsQueued, Has
<1>3. PICK i \in Items :
        /\ GetFreeItem(i) \/ GetNewItem(i)
        /\ job' = [job EXCEPT ![d].hFileItem = i] /\ app' = [app EXCEPT ![d] = "item"]
  BY DEF StartDocPrinter, CreateSplWriterFails, FilesCanBeCreated, AppAt
<1>4. UNCHANGED <<port, cancelling, hReadFile, shd>> BY DEF StartDocPrinter, reader
<1>5. PICK x \in ItemRecs :
        /\ x.phase = "used" /\ item' = [item EXCEPT ![i] = x]
        /\ "SPL_READING" \notin x.Status /\ "SHD_WRITING" \notin x.Status
  BY <1>3, ItemTaken
<1>6. /\ item[i].phase # "used" /\ FreeFiles' \in Seq(Items)
      /\ \A k, l \in DOMAIN FreeFiles' : FreeFiles'[k] = FreeFiles'[l] => k = l
      /\ \A n \in Items : (\E k \in DOMAIN FreeFiles' : FreeFiles'[k] = n)
                            <=> item[n].phase = "free" /\ n # i
      /\ spl'[i].exists /\ \A n \in Items : n # i => spl'[n] = spl[n]
      /\ spl' = [n \in Items |-> [exists |-> spl'[n].exists, data |-> spl'[n].data]]
  BY <1>3, ItemTaken
<1>7. /\ Ownership' /\ item' \in [Items -> ItemRecs] /\ job' \in [Docs -> JobRecs]
      /\ ItemOf(d)' = x /\ job'[d].queued = job[d].queued
      /\ \A c \in Docs : c # d => job'[c] = job[c] /\ app'[c] = app[c]
      /\ \A c \in Docs : Has(c) => ItemOf(c)' = ItemOf(c)
  BY <1>1, <1>2, <1>3, <1>5, <1>6, TakeItem
<1>8. app' \in [Docs -> AppPlaces] /\ app'[d] = "item" BY <1>1, <1>3 DEF Types, AppPlaces
<1>9. Types' BY <1>1, <1>4, <1>6, <1>7, <1>8 DEF Types
<1>10. NewItem(d)' /\ RefsQueued(d)' /\ ShadowWriters(d)'
  BY <1>1, <1>2, <1>4, <1>5, <1>7, <1>8
  DEF NewItem, RefsQueued, ShadowWriters, Users, Has, AppRefs, PortRefs, UserRefs
<1>11. Users' BY <1>1, <1>4, <1>7, <1>10, UsersAfter
<1>12. ShadowsNamed' BY <1>1, <1>2, <1>4, <1>7 DEF ShadowsNamed, Good
<1> QED BY <1>7, <1>9, <1>11, <1>12 DEF PoolInv

LEMMA SpoolThisJobInv ==
  ASSUME PoolInv, NEW d \in Docs, SpoolThisJob(d)
  PROVE  PoolInv'
<1>1. Types /\ Ownership /\ Users /\ ShadowsNamed BY DEF PoolInv
<1>2. app[d] = "item" /\ Has(d) /\ ~ job[d].queued
  BY <1>1 DEF SpoolThisJob, Users, RefsQueued, Has
<1>3. UNCHANGED <<port, cancelling, hReadFile, FreeFiles, spl, shd>>
  BY DEF SpoolThisJob, reader, pool, disk
<1>4. ItemOf(d) \in ItemRecs BY <1>1, <1>2 DEF Ownership, OwnersHave, Types, ItemOf
<1>5. ~ PortRefs(d) /\ ~ UserRefs(d) BY <1>1, <1>2 DEF Users, RefsQueued
<1>6. SpoolFilesOf(d) BY <1>3, FilesFrame
<1>7. CASE /\ job' = [job EXCEPT ![d].queued = TRUE, ![d].Status = {"SPOOLING"}]
           /\ AppAt(d, "spooling") /\ UNCHANGED item
  <2> DEFINE k == [job[d] EXCEPT !.queued = TRUE, !.Status = {"SPOOLING"}]
  <2>1. job' = [job EXCEPT ![d] = k] BY <1>1, <1>7 DEF Types
  <2>2. k \in JobRecs /\ k.queued /\ k.hFileItem = job[d].hFileItem /\ k.Status = {"SPOOLING"}
    BY <1>1 DEF Types, JobRecs, JobFlags
  <2> HIDE DEF k
  <2>3. /\ job' \in [Docs -> JobRecs] /\ job'[d] = k
        /\ \A c \in Docs : c # d => job'[c] = job[c]
    BY <1>1, <2>1, <2>2 DEF Types
  <2>4. /\ app' \in [Docs -> AppPlaces] /\ app'[d] = "spooling"
        /\ \A c \in Docs : c # d => app'[c] = app[c]
    BY <1>1, <1>7 DEF Types, AppAt, AppPlaces
  <2>5. OwnersSame BY <1>2, <2>2, <2>3, <2>4 DEF OwnersSame, Has
  <2>6. Ownership' BY <1>1, <1>3, <1>7, <2>5, KeepOwned
  <2>7. Types' BY <1>1, <1>3, <1>7, <2>3, <2>4 DEF Types
  <2>8. \A c \in Docs : Has(c) => ItemOf(c)' = ItemOf(c)
    BY <1>7, <2>5 DEF OwnersSame, ItemOf
  <2>9. NewItem(d)' /\ RefsQueued(d)' /\ ShadowWriters(d)'
    BY <2>2, <2>3, <2>4 DEF NewItem, RefsQueued, ShadowWriters
  <2>10. Users' BY <1>1, <1>3, <2>3, <2>4, <2>8, <2>9, UsersAfter
  <2>11. ShadowsNamed' BY <1>1, <1>2, <1>3, <2>3, <2>4 DEF ShadowsNamed, Good
  <2> QED BY <2>6, <2>7, <2>10, <2>11 DEF PoolInv
<1>8. CASE /\ SetItem(d, ReleasePoolHandle(FinishedWriting(ItemOf(d)), "SpoolThisJob"))
           /\ AppAt(d, "done") /\ UNCHANGED job
  <2> DEFINE w == FinishedWriting(ItemOf(d))
             x == ReleasePoolHandle(w, "SpoolThisJob")
  <2>1. SetItem(d, x) /\ app' = [app EXCEPT ![d] = "done"] BY <1>8 DEF AppAt
  <2>2. "SPL_READING" \notin ItemOf(d).Status /\ "SHD_WRITING" \notin ItemOf(d).Status
    BY <1>1, <1>2 DEF Users, NewItem
  <2>3. w \in ItemRecs /\ w.Status = ItemOf(d).Status \ {"SPL_WRITING"}
    BY <1>4, WritingFinished DEF Same
  <2> HIDE DEF w
  <2>4. ~ InUse(w) BY <2>2, <2>3 DEF InUse
  <2>5. x \in ItemRecs /\ x.phase = "leaving" /\ ~ InUse(x)
    BY <2>3, <2>4, ItemReleased DEF Callers
  <2> HIDE DEF x
  <2>6. /\ app' \in [Docs -> AppPlaces] /\ app'[d] = "done"
        /\ \A c \in Docs : c # d => app'[c] = app[c]
    BY <1>1, <2>1 DEF Types, AppPlaces
  <2>7. ~ Has(d)' /\ \A c \in Docs : c # d => (Has(c)' <=> Has(c))
    BY <1>2, <1>8, <2>6 DEF Has
  <2>8. /\ Ownership' /\ item' \in [Items -> ItemRecs]
        /\ \A c \in Docs : Has(c) /\ c # d => ItemOf(c)' = ItemOf(c)
    BY <1>1, <1>2, <1>3, <1>6, <1>8, <2>1, <2>5, <2>7, GiveItem
  <2>9. Types' BY <1>1, <1>3, <1>8, <2>6, <2>8 DEF Types
  <2>10. NewItem(d)' /\ RefsQueued(d)' /\ ShadowWriters(d)'
    BY <1>2, <1>3, <1>5, <1>8, <2>6
    DEF NewItem, RefsQueued, ShadowWriters, AppRefs, PortRefs, UserRefs
  <2>11. Users' BY <1>1, <1>3, <1>8, <2>6, <2>8, <2>10, UsersAfter
  <2>12. ShadowsNamed' BY <1>1, <1>2, <1>3, <1>8, <2>6 DEF ShadowsNamed, Good
  <2> QED BY <2>8, <2>9, <2>11, <2>12 DEF PoolInv
<1> QED BY <1>7, <1>8 DEF SpoolThisJob

----------------------------------------------------------------------------
(* An item that is given back, and the scheduler's trimming.                *)

\* Only items that are not in use change, and shadow files are at most emptied
\* or deleted.
LEMMA UnusedItems ==
  ASSUME PoolInv, UNCHANGED <<app, port, job, cancelling, hReadFile>>,
         item' \in [Items -> ItemRecs], FreeFiles' \in Seq(Items),
         spl' = [i \in Items |-> [exists |-> spl'[i].exists, data |-> spl'[i].data]],
         shd' \in [Items -> ShdRecs],
         \A i \in Items :
           /\ item[i].phase = "used" => item'[i] = item[i]
           /\ item[i].phase # "used" => item'[i].phase # "used" /\ ~ InUse(item'[i])
           /\ item'[i].phase # "none" => spl'[i].exists
           /\ shd'[i].file = "good" => shd'[i] = shd[i],
         FreeFilesReady'
  PROVE  PoolInv'
<1>1. Types /\ Ownership /\ Users /\ ShadowsNamed BY DEF PoolInv
<1>2. Types' BY <1>1 DEF Types
<1>3. \A c \in Docs : Has(c) => ItemOf(c)' = ItemOf(c)
  BY <1>1 DEF Ownership, OwnersHave, ItemOf
<1>4. Ownership'
  <2>1. OwnersHave' BY <1>1, <1>3 DEF Ownership, OwnersHave, Has
  <2>2. OneOwner' BY <1>1 DEF Ownership, OneOwner, Has
  <2>3. UsedOwned' BY <1>1 DEF Ownership, UsedOwned, Has
  <2>4. Idle' BY <1>1 DEF Ownership, Idle
  <2>5. FilesThere' BY DEF FilesThere
  <2> QED BY <2>1, <2>2, <2>3, <2>4, <2>5 DEF Ownership
<1>5. Users'
  <2>1. ASSUME NEW c \in Docs PROVE NewItem(c)' /\ RefsQueued(c)' /\ ShadowWriters(c)'
    <3>1. NewItem(c) /\ RefsQueued(c) /\ ShadowWriters(c) BY <1>1 DEF Users
    <3>2. NewItem(c)' BY <1>3, <3>1 DEF NewItem, Has
    <3>3. RefsQueued(c)' BY <3>1 DEF RefsQueued, AppRefs, PortRefs, UserRefs
    <3>4. ShadowWriters(c)' BY <1>3, <3>1 DEF ShadowWriters, Has
    <3> QED BY <3>2, <3>3, <3>4
  <2> QED BY <2>1 DEF Users
<1>6. ShadowsNamed' BY <1>1 DEF ShadowsNamed, Good
<1> QED BY <1>2, <1>4, <1>5, <1>6 DEF PoolInv

\* What is known of an item and its files before a step.
LEMMA ItemFrame ==
  ASSUME PoolInv
  PROVE  /\ \A i \in Items : item[i] \in ItemRecs /\ (item[i].phase # "none" => spl[i].exists)
         /\ \A i \in Items : item[i].phase # "used" => ~ InUse(item[i])
         /\ item \in [Items -> ItemRecs] /\ FreeFiles \in Seq(Items)
         /\ spl = [i \in Items |-> [exists |-> spl[i].exists, data |-> spl[i].data]]
         /\ shd \in [Items -> ShdRecs] /\ FreeFilesReady
BY DEF PoolInv, Types, Ownership, Idle, FilesThere

\* A file that is not there, or is empty.
LEMMA NoFiles ==
  /\ NoShd \in ShdRecs /\ NoShd.file = "none"
  /\ [NoShd EXCEPT !.file = "empty"] \in ShdRecs
  /\ [NoShd EXCEPT !.file = "empty"].file = "empty"
  /\ NoSpl = [exists |-> NoSpl.exists, data |-> NoSpl.data]
BY DEF NoShd, ShdRecs, NoSpl

LEMMA TruncateShadowInv ==
  ASSUME PoolInv, NEW i \in Items, TruncateShadow(i)
  PROVE  PoolInv'
<1> DEFINE x == [item[i] EXCEPT !.phase = "truncate"]
           e == [NoShd EXCEPT !.file = "empty"]
<1>1. /\ item[i].phase = "leaving" /\ item' = [item EXCEPT ![i] = x]
      /\ shd' = shd \/ shd' = [shd EXCEPT ![i] = e]
      /\ UNCHANGED <<app, port, job, cancelling, hReadFile, FreeFiles, spl>>
  BY ItemFrame DEF TruncateShadow, reader, pool
<1>2. x \in ItemRecs /\ x.phase = "truncate" /\ ~ InUse(x)
  BY <1>1, ItemFrame DEF ItemRecs, InUse
<1> HIDE DEF x
<1>3. e \in ShdRecs /\ e.file = "empty" BY NoFiles
<1> HIDE DEF e
<1>4. item' \in [Items -> ItemRecs] /\ shd' \in [Items -> ShdRecs] BY <1>1, <1>2, <1>3, ItemFrame
<1>5. \A n \in Items :
        /\ item[n].phase = "used" => item'[n] = item[n]
        /\ item[n].phase # "used" => item'[n].phase # "used" /\ ~ InUse(item'[n])
        /\ item'[n].phase # "none" => spl'[n].exists
        /\ shd'[n].file = "good" => shd'[n] = shd[n]
  BY <1>1, <1>2, <1>3, ItemFrame
<1>6. FreeFilesReady' BY <1>1, <1>2, ItemFrame DEF FreeFilesReady, InUse
<1> QED BY <1>1, <1>4, <1>5, <1>6, ItemFrame, UnusedItems

\* Both handles of an item are put somewhere.
LEMMA HandlesSet ==
  ASSUME NEW it \in ItemRecs, NEW w \in Int, NEW r \in Int
  PROVE  [it EXCEPT !.SplWrite = w, !.SplRead = r] \in ItemRecs
BY DEF ItemRecs

LEMMA TruncateSpoolInv ==
  ASSUME PoolInv, NEW i \in Items, TruncateSpool(i)
  PROVE  PoolInv'
<1> DEFINE r == IF item[i].SplWrite # Closed /\ item[i].SplRead # Closed THEN 0 ELSE Closed
           t == [item[i] EXCEPT !.SplWrite = 0, !.SplRead = r]
           x == [t EXCEPT !.phase = "free", !.by = "none"]
<1>1. /\ item[i].phase = "truncate" /\ item' = [item EXCEPT ![i] = [Truncated(item[i]) EXCEPT !.phase = "free", !.by = "none"]]
      /\ spl' = [spl EXCEPT ![i].data = <<>>] /\ FreeFiles' = Append(FreeFiles, i)
      /\ UNCHANGED <<app, port, job, cancelling, hReadFile, shd>>
  BY DEF TruncateSpool, reader
<1>2. [Truncated(item[i]) EXCEPT !.phase = "free", !.by = "none"] = x
  BY DEF Truncated
<1>3. r \in {0, Closed} /\ r \in Int BY DEF Closed
<1> HIDE DEF r
<1>4. /\ x \in ItemRecs /\ x.phase = "free" /\ ~ InUse(x)
      /\ x.SplWrite = 0 /\ x.SplRead \in {Closed, 0}
  <2>1. item[i] \in ItemRecs /\ ~ InUse(item[i]) BY <1>1, ItemFrame
  <2>2. /\ t \in ItemRecs /\ t.Status = item[i].Status
        /\ t.SplWrite = 0 /\ t.SplRead = r
    <3>1. r \in Int /\ 0 \in Int BY <1>3
    <3>2. /\ t.Status = item[i].Status /\ t.phase = item[i].phase /\ t.Shd = item[i].Shd
          /\ t.by = item[i].by /\ t.SplWrite = 0 /\ t.SplRead = r
      BY <2>1 DEF ItemRecs
    <3>3. t \in ItemRecs BY <2>1, <3>1, HandlesSet, Zenon
    <3> QED BY <3>2, <3>3
  <2> HIDE DEF t
  <2>3. /\ x \in ItemRecs /\ x.Status = t.Status
        /\ x.phase = "free" /\ x.SplWrite = 0 /\ x.SplRead = r
    BY <2>2 DEF ItemRecs
  <2> QED BY <1>3, <2>1, <2>2, <2>3 DEF InUse
<1> HIDE DEF x
<1>5. /\ item' \in [Items -> ItemRecs] /\ item'[i] = x
      /\ \A n \in Items : n # i => item'[n] = item[n]
  BY <1>1, <1>2, <1>4, ItemFrame
<1>6. Types BY DEF PoolInv
<1>7. /\ spl' = [n \in Items |-> [exists |-> spl'[n].exists, data |-> spl'[n].data]]
      /\ \A n \in Items : spl'[n].exists = spl[n].exists /\ (n # i => spl'[n] = spl[n])
      /\ spl'[i].data = <<>>
  <2>1. spl' = [spl EXCEPT ![i].data = <<>>] BY <1>1
  <2>2. spl' = [n \in Items |-> [exists |-> spl'[n].exists, data |-> spl'[n].data]]
    BY <1>6, <2>1, SpoolFileWritten
  <2>3. \A n \in Items : spl'[n].exists = spl[n].exists /\ (n # i => spl'[n] = spl[n])
    BY <1>6, <2>1, SpoolFileWritten
  <2>4. spl'[i].data = <<>> BY <1>6, <2>1, SpoolFileWritten
  <2> QED BY <2>2, <2>3, <2>4
<1>8. /\ FreeFiles' \in Seq(Items) /\ DOMAIN FreeFiles' = 1 .. Len(FreeFiles) + 1
      /\ DOMAIN FreeFiles = 1 .. Len(FreeFiles) /\ Len(FreeFiles) \in Nat
      /\ FreeFiles'[Len(FreeFiles) + 1] = i
      /\ \A k \in 1 .. Len(FreeFiles) : FreeFiles'[k] = FreeFiles[k]
  BY <1>1, ItemFrame
<1>9. FreeFilesReady'
  <2>1. FreeFilesReady BY ItemFrame
  <2>2. \A k \in DOMAIN FreeFiles : FreeFiles[k] # i BY <1>1, <2>1 DEF FreeFilesReady
  <2>3. \A k, l \in DOMAIN FreeFiles' : FreeFiles'[k] = FreeFiles'[l] => k = l
    BY <1>8, <2>1, <2>2 DEF FreeFilesReady
  <2>4. ASSUME NEW n \in Items
        PROVE  (\E k \in DOMAIN FreeFiles' : FreeFiles'[k] = n) <=> item'[n].phase = "free"
    <3>1. CASE n = i BY <1>4, <1>5, <1>8, <3>1
    <3>2. CASE n # i
      <4>1. (\E k \in DOMAIN FreeFiles : FreeFiles[k] = n) <=> item'[n].phase = "free"
        BY <1>5, <2>1, <3>2 DEF FreeFilesReady
      <4>2. (\E k \in DOMAIN FreeFiles' : FreeFiles'[k] = n)
              <=> (\E k \in DOMAIN FreeFiles : FreeFiles[k] = n)
        BY <1>8, <3>2
      <4> QED BY <4>1, <4>2
    <3> QED BY <3>1, <3>2
  <2>5. \A n \in Items : item'[n].phase = "free" =>
          /\ item'[n].SplWrite = 0 /\ item'[n].SplRead \in {Closed, 0} /\ ~ InUse(item'[n])
          /\ spl'[n].data = <<>>
    BY <1>4, <1>5, <1>7, <2>1 DEF FreeFilesReady
  <2> QED BY <2>3, <2>4, <2>5 DEF FreeFilesReady, InUse
<1>10. \A n \in Items :
        /\ item[n].phase = "used" => item'[n] = item[n]
        /\ item[n].phase # "used" => item'[n].phase # "used" /\ ~ InUse(item'[n])
        /\ item'[n].phase # "none" => spl'[n].exists
        /\ shd'[n].file = "good" => shd'[n] = shd[n]
  BY <1>1, <1>4, <1>5, <1>7, ItemFrame
<1> QED BY <1>1, <1>5, <1>7, <1>8, <1>9, <1>10, ItemFrame, UnusedItems

LEMMA DeleteSpoolInv ==
  ASSUME PoolInv, NEW i \in Items, DeleteSpool(i)
  PROVE  PoolInv'
<1>1. /\ item[i].phase \in {"delete", "leaving"} /\ item' = [item EXCEPT ![i] = NoItem]
      /\ spl' = [spl EXCEPT ![i] = NoSpl]
      /\ UNCHANGED <<app, port, job, cancelling, hReadFile, FreeFiles, shd>>
  BY DEF DeleteSpool, reader, pool
<1>2. /\ item' \in [Items -> ItemRecs] /\ item'[i] = NoItem
      /\ \A n \in Items : n # i => item'[n] = item[n]
  BY <1>1, NewItemTypes, ItemFrame
<1>3. /\ spl' = [n \in Items |-> [exists |-> spl'[n].exists, data |-> spl'[n].data]]
      /\ \A n \in Items : n # i => spl'[n] = spl[n]
  BY <1>1, NoFiles, ItemFrame
<1>4. FreeFilesReady' BY <1>1, <1>2, <1>3, NewItemTypes, ItemFrame DEF FreeFilesReady, InUse
<1>5. \A n \in Items :
        /\ item[n].phase = "used" => item'[n] = item[n]
        /\ item[n].phase # "used" => item'[n].phase # "used" /\ ~ InUse(item'[n])
        /\ item'[n].phase # "none" => spl'[n].exists
        /\ shd'[n].file = "good" => shd'[n] = shd[n]
  BY <1>1, <1>2, <1>3, NewItemTypes, ItemFrame
<1> QED BY <1>1, <1>2, <1>3, <1>4, <1>5, ItemFrame, UnusedItems

LEMMA DeleteShadowInv ==
  ASSUME PoolInv, NEW i \in Items, DeleteShadow(i)
  PROVE  PoolInv'
<1>1. /\ shd' = shd \/ shd' = [shd EXCEPT ![i] = NoShd]
      /\ UNCHANGED <<app, port, job, cancelling, hReadFile, item, FreeFiles, spl>>
  BY DEF DeleteShadow, reader, pool
<1>2. /\ shd' \in [Items -> ShdRecs]
      /\ \A n \in Items : shd'[n].file = "good" => shd'[n] = shd[n]
  BY <1>1, NoFiles, ItemFrame
<1>3. FreeFilesReady' BY <1>1, ItemFrame DEF FreeFilesReady, InUse
<1>4. \A n \in Items :
        /\ item[n].phase = "used" => item'[n] = item[n]
        /\ item[n].phase # "used" => item'[n].phase # "used" /\ ~ InUse(item'[n])
        /\ item'[n].phase # "none" => spl'[n].exists
        /\ shd'[n].file = "good" => shd'[n] = shd[n]
  BY <1>1, <1>2, ItemFrame
<1> QED BY <1>1, <1>2, <1>3, <1>4, ItemFrame, UnusedItems

LEMMA TrimPoolInv ==
  ASSUME PoolInv, TrimPool
  PROVE  PoolInv'
<1>1. PICK n \in 0 .. Len(FreeFiles) :
        LET trimmed == {FreeFiles[k] : k \in 1 .. n} IN
        /\ FreeFiles' = SubSeq(FreeFiles, n + 1, Len(FreeFiles))
        /\ item' = [i \in Items |-> IF i \in trimmed
                      THEN [FPCloseFiles(item[i]) EXCEPT !.phase = "delete", !.by = "TrimPool"]
                      ELSE item[i]]
  BY DEF TrimPool
<1> DEFINE trimmed == {FreeFiles[k] : k \in 1 .. n}
           x(i) == [FPCloseFiles(item[i]) EXCEPT !.phase = "delete", !.by = "TrimPool"]
<1>2. UNCHANGED <<app, port, job, cancelling, hReadFile, spl, shd>>
  BY DEF TrimPool, reader, disk
<1>3. /\ \A k, l \in DOMAIN FreeFiles : FreeFiles[k] = FreeFiles[l] => k = l
      /\ \A i \in Items : (\E k \in DOMAIN FreeFiles : FreeFiles[k] = i) <=> item[i].phase = "free"
      /\ FreeFiles \in Seq(Items)
  BY ItemFrame DEF FreeFilesReady
<1>4. \A i \in Items : i \in trimmed => item[i].phase = "free"
  <2>1. \A k \in 1 .. n : k \in DOMAIN FreeFiles BY <1>3
  <2> QED BY <1>3, <2>1
<1>5. ASSUME NEW i \in Items, i \in trimmed
      PROVE  x(i) \in ItemRecs /\ x(i).phase = "delete" /\ ~ InUse(x(i))
  <2> DEFINE y == FPCloseFiles(item[i])
             z == [y EXCEPT !.phase = "delete", !.by = "TrimPool"]
  <2>1. item[i] \in ItemRecs /\ ~ InUse(item[i]) BY <1>4, <1>5, ItemFrame
  <2>2. y \in ItemRecs /\ ~ InUse(y) BY <2>1, FilesClosed DEF Same
  <2> HIDE DEF y
  <2>3. z \in ItemRecs /\ z.phase = "delete" /\ z.Status = y.Status
    BY <2>2 DEF ItemRecs, Callers
  <2>4. x(i) = z BY DEF y
  <2> HIDE DEF z
  <2> QED BY <2>2, <2>3, <2>4 DEF InUse
<1>6. item' = [i \in Items |-> IF i \in trimmed THEN x(i) ELSE item[i]] BY <1>1
<1> HIDE DEF x
<1>7. /\ FreeFiles' \in Seq(Items)
      /\ \A k, l \in DOMAIN FreeFiles' : FreeFiles'[k] = FreeFiles'[l] => k = l
      /\ \A i \in Items : (\E k \in DOMAIN FreeFiles' : FreeFiles'[k] = i)
           <=> (\E k \in DOMAIN FreeFiles : FreeFiles[k] = i) /\ i \notin trimmed
  <2> DEFINE r == SubSeq(FreeFiles, n + 1, Len(FreeFiles))
  <2>1. /\ r \in Seq(Items)
        /\ \A k, l \in DOMAIN r : r[k] = r[l] => k = l
        /\ \A i \in Items : (\E k \in DOMAIN r : r[k] = i)
             <=> (\E k \in DOMAIN FreeFiles : FreeFiles[k] = i) /\ i \notin {FreeFiles[k] : k \in 1 .. n}
    BY <1>3, RestOfList
  <2>2. FreeFiles' = r BY <1>1
  <2> HIDE DEF r
  <2> QED BY <2>1, <2>2
<1> HIDE DEF trimmed
<1>8. /\ item' \in [Items -> ItemRecs]
      /\ \A i \in Items : i \in trimmed => item'[i] = x(i)
      /\ \A i \in Items : i \notin trimmed => item'[i] = item[i]
  BY <1>5, <1>6, ItemFrame
<1>9. FreeFilesReady'
  <2>1. \A i \in Items : (\E k \in DOMAIN FreeFiles' : FreeFiles'[k] = i) <=> item'[i].phase = "free"
    BY <1>3, <1>5, <1>7, <1>8
  <2>2. \A i \in Items : item'[i].phase = "free" => item'[i] = item[i] BY <1>5, <1>8
  <2>3. \A i \in Items : item'[i].phase = "free" =>
          /\ item'[i].SplWrite = 0 /\ item'[i].SplRead \in {Closed, 0} /\ ~ InUse(item'[i])
          /\ spl'[i].data = <<>>
    BY <1>2, <2>2, ItemFrame DEF FreeFilesReady
  <2> QED BY <1>7, <2>1, <2>3 DEF FreeFilesReady, InUse
<1>10. \A i \in Items :
        /\ item[i].phase = "used" => item'[i] = item[i]
        /\ item[i].phase # "used" => item'[i].phase # "used" /\ ~ InUse(item'[i])
        /\ item'[i].phase # "none" => spl'[i].exists
        /\ shd'[i].file = "good" => shd'[i] = shd[i]
  <2>1. ASSUME NEW i \in Items, i \in trimmed
        PROVE  /\ item[i].phase = "free" /\ item'[i] = x(i)
               /\ x(i).phase = "delete" /\ ~ InUse(x(i))
    BY <1>4, <1>5, <1>8, <2>1
  <2> QED BY <1>2, <1>8, <2>1, ItemFrame
<1> QED BY <1>2, <1>7, <1>8, <1>9, <1>10, ItemFrame, UnusedItems

\* Time passes without anything that the invariant is about.
LEMMA TimePassesInv ==
  ASSUME PoolInv, NEW i \in Items, TimePasses(i)
  PROVE  PoolInv'
<1>1. UNCHANGED <<app, port, job, cancelling, hReadFile, item, FreeFiles, spl, shd>>
  BY DEF TimePasses, reader, disk
<1>2. FreeFilesReady' BY <1>1, ItemFrame DEF FreeFilesReady, InUse
<1> QED BY <1>1, <1>2, ItemFrame, UnusedItems

\* The scheduler gives jobs to ports: it looks only at jobs in the queue.
LEMMA SchedulerInv ==
  ASSUME PoolInv, SchedulerThread
  PROVE  PoolInv'
<1>1. Types /\ Ownership /\ Users /\ ShadowsNamed BY DEF PoolInv
<1>2. UNCHANGED <<app, cancelling, hReadFile, item, FreeFiles, spl, shd>>
  BY DEF SchedulerThread, reader, pool, disk
<1>3. /\ port' \in [Docs -> PortPlaces] /\ job' \in [Docs -> JobRecs]
      /\ \A d \in Docs :
           /\ job'[d].queued = job[d].queued /\ job'[d].hFileItem = job[d].hFileItem
           /\ "SHADOW_DELETED" \in job'[d].Status <=> "SHADOW_DELETED" \in job[d].Status
           /\ port'[d] = port[d] \/ (port[d] = "none" /\ job[d].queued)
  <2>1. CASE UNCHANGED <<port, job>> BY <1>1, <2>1 DEF Types
  <2>2. CASE ~ UNCHANGED <<port, job>>
    <3>1. PICK S \in SUBSET {d \in Docs : Schedulable(d)} :
            /\ port' = [d \in Docs |-> IF d \in S THEN "assigned" ELSE port[d]]
            /\ job' = [d \in Docs |-> IF d \in S THEN [job[d] EXCEPT !.Status = @ \cup {"DESPOOLING"}]
                                      ELSE job[d]]
      BY <2>2 DEF SchedulerThread
    <3>2. ASSUME NEW d \in Docs, NEW T, T = job[d].Status \cup {"DESPOOLING"}
          PROVE  /\ [job[d] EXCEPT !.Status = T] \in JobRecs
                 /\ [job[d] EXCEPT !.Status = T].Status = T
                 /\ [job[d] EXCEPT !.Status = T].queued = job[d].queued
                 /\ [job[d] EXCEPT !.Status = T].hFileItem = job[d].hFileItem
      <4>1. job[d] \in JobRecs BY <1>1 DEF Types
      <4>2. T \in SUBSET JobFlags BY <3>2, <4>1 DEF JobRecs, JobFlags
      <4> QED BY <4>2, StatusSet
    <3>3. ASSUME NEW d \in Docs
          PROVE  /\ job'[d] \in JobRecs /\ port'[d] \in PortPlaces
                 /\ job'[d].queued = job[d].queued /\ job'[d].hFileItem = job[d].hFileItem
                 /\ "SHADOW_DELETED" \in job'[d].Status <=> "SHADOW_DELETED" \in job[d].Status
                 /\ port'[d] = port[d] \/ (port[d] = "none" /\ job[d].queued)
      <4>1. CASE d \in S
        <5> DEFINE T == job[d].Status \cup {"DESPOOLING"}
                   k == [job[d] EXCEPT !.Status = T]
        <5>1. job'[d] = k /\ port'[d] = "assigned" BY <3>1, <4>1
        <5>2. port[d] = "none" /\ job[d].queued BY <4>1 DEF Schedulable
        <5>3. /\ k \in JobRecs /\ k.Status = T
              /\ k.queued = job[d].queued /\ k.hFileItem = job[d].hFileItem
          BY <3>2
        <5>4. "SHADOW_DELETED" \in T <=> "SHADOW_DELETED" \in job[d].Status OBVIOUS
        <5> HIDE DEF k, T
        <5> QED BY <5>1, <5>2, <5>3, <5>4 DEF PortPlaces
      <4>2. CASE d \notin S BY <1>1, <3>1, <4>2 DEF Types
      <4> QED BY <4>1, <4>2
    <3> QED BY <3>1, <3>3
  <2> QED BY <2>1, <2>2
<1>4. Types' BY <1>1, <1>2, <1>3 DEF Types
<1>5. OwnersSame BY <1>2, <1>3 DEF OwnersSame, Has
<1>6. Ownership' BY <1>1, <1>2, <1>5, KeepOwned
<1>7. Users'
  <2>1. ASSUME NEW d \in Docs PROVE NewItem(d)' /\ RefsQueued(d)' /\ ShadowWriters(d)'
    <3>1. NewItem(d) /\ RefsQueued(d) /\ ShadowWriters(d) BY <1>1 DEF Users
    <3>2. NewItem(d)' BY <1>2, <1>3, <3>1 DEF NewItem, ItemOf
    <3>3. RefsQueued(d)' BY <1>2, <1>3, <3>1 DEF RefsQueued, AppRefs, PortRefs, UserRefs
    <3>4. ShadowWriters(d)' BY <1>2, <1>3, <3>1 DEF ShadowWriters, ItemOf
    <3> QED BY <3>2, <3>3, <3>4
  <2> QED BY <2>1 DEF Users
<1>8. ShadowsNamed' BY <1>1, <1>2, <1>3 DEF ShadowsNamed, Good
<1> QED BY <1>4, <1>6, <1>7, <1>8 DEF PoolInv

----------------------------------------------------------------------------
(* The spooler starts again.                                                *)

\* The job that a shadow file becomes.
LEMMA JobOfShadow ==
  /\ NoJob \in JobRecs /\ ~ NoJob.queued
  /\ \A h \in Nat : /\ [NoJob EXCEPT !.queued = TRUE, !.hFileItem = h] \in JobRecs
                    /\ [NoJob EXCEPT !.queued = TRUE, !.hFileItem = h].queued
                    /\ [NoJob EXCEPT !.queued = TRUE, !.hFileItem = h].hFileItem = h
<1>1. NoJob \in JobRecs /\ ~ NoJob.queued BY DEF NoJob, JobRecs
<1> QED BY <1>1 DEF JobRecs

\* A document is named by one shadow file at most, so its job gets the item of
\* that file, and no other job does.
LEMMA CrashInv ==
  ASSUME PoolInv, Crash
  PROVE  PoolInv'
<1> DEFINE accepted == {i \in Items : Readable(i)}
           Names(d, i) == i \in accepted /\ shd[i].doc = d
           itemOf(d) == CHOOSE i \in accepted : shd[i].doc = d
           used == [NoItem EXCEPT !.phase = "used"]
           jobOf(h) == [NoJob EXCEPT !.queued = TRUE, !.hFileItem = h]
<1>1. Types /\ Ownership /\ Users /\ ShadowsNamed BY DEF PoolInv
<1>2. /\ item' = [i \in Items |-> IF i \in accepted THEN used ELSE NoItem]
      /\ job' = [d \in Docs |-> IF \E i \in accepted : shd[i].doc = d
                                  THEN jobOf(itemOf(d)) ELSE NoJob]
      /\ spl' = [i \in Items |-> IF i \in accepted THEN spl[i] ELSE NoSpl]
      /\ shd' = [i \in Items |-> IF i \in accepted \/ ~ spl[i].exists THEN shd[i] ELSE NoShd]
  BY Zenon DEF Crash
<1>3. /\ app' = [d \in Docs |-> IF app[d] = "new" THEN "new" ELSE "done"]
      /\ port' = [d \in Docs |-> "none"] /\ cancelling' = {}
      /\ hReadFile' = [d \in Docs |-> "none"] /\ FreeFiles' = <<>>
  BY DEF Crash
<1>4. \A i \in accepted : /\ i \in Items /\ shd[i].file = "good" /\ spl[i].exists
                          /\ shd[i].doc \in Docs /\ app[shd[i].doc] # "new"
  BY <1>1 DEF Readable, ShadowsNamed, Good
<1>5. \A d \in Docs, i \in Items : Names(d, i) => itemOf(d) = i
  <2>1. ASSUME NEW d \in Docs, NEW i \in Items, Names(d, i) PROVE itemOf(d) = i
    <3>1. Names(d, itemOf(d)) BY <2>1
    <3>2. \A k \in Items : Names(d, k) => k = i BY <1>1, <2>1 DEF ShadowsNamed, Good, Readable
    <3> QED BY <3>1, <3>2
  <2> QED BY <2>1
<1>6. ASSUME NEW d \in Docs
      PROVE  /\ job'[d] \in JobRecs
             /\ job'[d].queued <=> \E i \in accepted : shd[i].doc = d
             /\ \A i \in Items : Names(d, i) => job'[d].hFileItem = i
  <2>1. CASE \E i \in accepted : shd[i].doc = d
    <3>1. PICK i \in Items : Names(d, i) BY <2>1
    <3>2. job'[d] = jobOf(i) BY <1>2, <1>5, <2>1, <3>1
    <3>3. \A k \in Items : Names(d, k) => k = i BY <1>5, <3>1
    <3>4. jobOf(i) \in JobRecs /\ jobOf(i).queued /\ jobOf(i).hFileItem = i
      BY Known, JobOfShadow
    <3> HIDE DEF jobOf, accepted
    <3> QED BY <2>1, <3>2, <3>3, <3>4
  <2>2. CASE ~ \E i \in accepted : shd[i].doc = d BY <1>2, <2>2, JobOfShadow
  <2> QED BY <2>1, <2>2
<1>7. \A i \in Items : /\ item'[i] \in ItemRecs /\ ~ InUse(item'[i])
                       /\ item'[i].Status = {}
                       /\ item'[i].phase = IF i \in accepted THEN "used" ELSE "none"
  <2>1. /\ used \in ItemRecs /\ used.phase = "used" /\ used.Status = {}
        /\ NoItem \in ItemRecs /\ NoItem.phase = "none" /\ NoItem.Status = {}
    BY NewItemTypes DEF NoItem
  <2> HIDE DEF used, accepted
  <2> QED BY <1>2, <2>1 DEF InUse
<1>8. \A d \in Docs : Has(d)' <=> \E i \in accepted : shd[i].doc = d
  <2>1. \A d \in Docs : app'[d] # "item" BY <1>3
  <2> QED BY <1>6, <2>1 DEF Has
<1>9. \A d \in Docs : Has(d)' => Names(d, job'[d].hFileItem)
  <2>1. ASSUME NEW d \in Docs, Has(d)' PROVE Names(d, job'[d].hFileItem)
    <3>1. PICK i \in Items : Names(d, i) BY <1>8, <2>1
    <3> QED BY <1>6, <3>1
  <2> QED BY <2>1
<1>10. \A i \in Items : /\ spl'[i] = [exists |-> spl'[i].exists, data |-> spl'[i].data]
                        /\ i \in accepted => spl'[i].exists
                        /\ shd'[i] \in ShdRecs
                        /\ Good(i)' => Good(i) /\ shd'[i] = shd[i] /\ (~ spl[i].exists \/ i \in accepted)
  <2>1. \A i \in Items : spl[i] = [exists |-> spl[i].exists, data |-> spl[i].data]
    BY <1>1 DEF Types
  <2>2. \A i \in Items : /\ spl'[i] = [exists |-> spl'[i].exists, data |-> spl'[i].data]
                         /\ i \in accepted => spl'[i].exists
    BY <1>2, <1>4, <2>1, NoFiles
  <2>3. \A i \in Items : /\ shd'[i] \in ShdRecs
                         /\ Good(i)' => Good(i) /\ shd'[i] = shd[i] /\ (~ spl[i].exists \/ i \in accepted)
    BY <1>1, <1>2, NoFiles DEF Types, Good
  <2> QED BY <2>2, <2>3
<1> HIDE DEF accepted
<1>11. Types'
  <2>1. app' \in [Docs -> AppPlaces] /\ port' \in [Docs -> PortPlaces] /\ cancelling' \subseteq Docs
    BY <1>3 DEF AppPlaces, PortPlaces
  <2>2. hReadFile' \in [Docs -> {"none", "SplWrite", "SplRead"}] /\ FreeFiles' \in Seq(Items)
    BY <1>3
  <2>3. job' \in [Docs -> JobRecs] BY <1>2, <1>6
  <2>4. item' \in [Items -> ItemRecs] BY <1>2, <1>7
  <2>5. spl' = [i \in Items |-> [exists |-> spl'[i].exists, data |-> spl'[i].data]]
    BY <1>2, <1>10
  <2>6. shd' \in [Items -> ShdRecs] BY <1>2, <1>10
  <2> QED BY <2>1, <2>2, <2>3, <2>4, <2>5, <2>6 DEF Types
<1>12. Ownership'
  <2>1. FreeFilesReady' BY <1>3, <1>7 DEF FreeFilesReady
  <2>2. OwnersHave' BY <1>4, <1>7, <1>9 DEF OwnersHave, ItemOf
  <2>3. OneOwner' BY <1>9 DEF OneOwner
  <2>4. UsedOwned' BY <1>4, <1>6, <1>7, <1>8 DEF UsedOwned
  <2>5. Idle' BY <1>7 DEF Idle
  <2>6. FilesThere' BY <1>7, <1>10 DEF FilesThere
  <2> QED BY <2>1, <2>2, <2>3, <2>4, <2>5, <2>6 DEF Ownership
<1>13. Users'
  <2>1. ASSUME NEW d \in Docs PROVE NewItem(d)' /\ RefsQueued(d)' /\ ShadowWriters(d)'
    <3>1. app'[d] = (IF app[d] = "new" THEN "new" ELSE "done") /\ port'[d] = "none"
      BY <1>3
    <3>2. NewItem(d)' BY <3>1 DEF NewItem
    <3>3. RefsQueued(d)'
      <4>1. app'[d] = "new" => ~ job'[d].queued BY <1>4, <1>6, <3>1
      <4> QED BY <1>3, <3>1, <4>1 DEF RefsQueued, AppRefs, PortRefs, UserRefs
    <3>4. ShadowWriters(d)' BY <1>4, <1>7, <1>9 DEF ShadowWriters, ItemOf, Has
    <3> QED BY <3>2, <3>3, <3>4
  <2> QED BY <2>1 DEF Users
<1>14. ShadowsNamed'
  <2>1. ASSUME NEW i \in Items, NEW k \in Items, Good(i)', Good(k)', shd'[i].doc = shd'[k].doc
        PROVE  i = k
    <3>1. Good(i) /\ Good(k) /\ shd'[i] = shd[i] /\ shd'[k] = shd[k] BY <1>10, <2>1
    <3>2. shd[i].doc = shd[k].doc BY <2>1, <3>1
    <3> QED BY <1>1, <3>1, <3>2 DEF ShadowsNamed
  <2>2. ASSUME NEW i \in Items, Good(i)'
        PROVE  /\ shd'[i].doc \in Docs /\ app'[shd'[i].doc] \notin {"new", "item"}
               /\ job'[shd'[i].doc].queued => job'[shd'[i].doc].hFileItem = i
    <3>1. /\ Good(i) /\ shd'[i] = shd[i]
          /\ shd[i].doc \in Docs /\ app[shd[i].doc] \notin {"new", "item"}
      BY <1>1, <1>10, <2>2 DEF ShadowsNamed
    <3>2. app'[shd[i].doc] = "done" BY <1>3, <3>1
    <3>3. ASSUME job'[shd[i].doc].queued PROVE job'[shd[i].doc].hFileItem = i
      <4>1. PICK k \in accepted : shd[k].doc = shd[i].doc BY <1>6, <3>1, <3>3
      <4>2. k \in Items /\ Good(k) BY <1>4, <4>1 DEF Good
      <4>3. k = i BY <1>1, <3>1, <4>1, <4>2 DEF ShadowsNamed
      <4> QED BY <1>6, <3>1, <4>1, <4>2, <4>3
    <3> QED BY <3>1, <3>2, <3>3
  <2> QED BY <2>1, <2>2 DEF ShadowsNamed
<1> QED BY <1>11, <1>12, <1>13, <1>14 DEF PoolInv

----------------------------------------------------------------------------
(* The invariant holds.                                                     *)

LEMMA InitInv ==
  ASSUME Init
  PROVE  PoolInv
<1>1. /\ app = [d \in Docs |-> "new"] /\ port = [d \in Docs |-> "none"]
      /\ job = [d \in Docs |-> NoJob] /\ cancelling = {}
      /\ hReadFile = [d \in Docs |-> "none"] /\ item = [i \in Items |-> NoItem]
      /\ FreeFiles = <<>>
      /\ spl = [i \in Items |-> NoSpl] /\ shd = [i \in Items |-> NoShd]
  BY DEF Init
<1>2. \A d \in Docs : app[d] = "new" /\ port[d] = "none" /\ ~ job[d].queued /\ ~ Has(d)
  BY <1>1, JobOfShadow DEF Has
<1>3. \A i \in Items : item[i].phase = "none" /\ ~ InUse(item[i]) /\ ~ Good(i)
  BY <1>1, NewItemTypes, NoFiles DEF Good
<1>4. Types
  <2>1. /\ app \in [Docs -> AppPlaces] /\ port \in [Docs -> PortPlaces] /\ cancelling \subseteq Docs
        /\ hReadFile \in [Docs -> {"none", "SplWrite", "SplRead"}] /\ FreeFiles \in Seq(Items)
    BY <1>1 DEF AppPlaces, PortPlaces
  <2>2. job \in [Docs -> JobRecs] /\ item \in [Items -> ItemRecs] /\ shd \in [Items -> ShdRecs]
    BY <1>1, JobOfShadow, NewItemTypes, NoFiles
  <2>3. spl = [i \in Items |-> [exists |-> spl[i].exists, data |-> spl[i].data]]
    BY <1>1, NoFiles
  <2> QED BY <2>1, <2>2, <2>3 DEF Types
<1>5. Ownership
  <2>1. FreeFilesReady BY <1>1, <1>3 DEF FreeFilesReady
  <2> QED BY <1>2, <1>3, <2>1
      DEF Ownership, OwnersHave, OneOwner, UsedOwned, Idle, FilesThere
<1>6. Users
  BY <1>1, <1>2 DEF Users, NewItem, RefsQueued, ShadowWriters, AppRefs, PortRefs, UserRefs
<1>7. ShadowsNamed BY <1>3 DEF ShadowsNamed
<1> QED BY <1>4, <1>5, <1>6, <1>7 DEF PoolInv

LEMMA NextInv ==
  ASSUME FilesCanBeCreated, PoolInv, [Next]_vars
  PROVE  PoolInv'
<1>1. CASE UNCHANGED vars
  <2>1. UNCHANGED <<app, port, job, cancelling, hReadFile, item, FreeFiles, spl, shd>>
    BY <1>1 DEF vars, reader, pool, disk
  <2> QED BY <2>1 DEF PoolInv, Types, Ownership, FreeFilesReady, OwnersHave, OneOwner, UsedOwned,
      Idle, FilesThere, Users, NewItem, RefsQueued, ShadowWriters, ShadowsNamed, Good, Has, ItemOf,
      InUse, AppRefs, PortRefs, UserRefs
<1>2. ASSUME NEW d \in Docs,
             StartDocPrinter(d) \/ AppStep(d) \/ DeleteByUser(d) \/ Cancelled(d)
      PROVE  PoolInv'
  <2>1. CASE StartDocPrinter(d) BY <2>1, StartDocPrinterInv
  <2>2. CASE AppStep(d)
    BY <2>2, SpoolThisJobInv, GetSpoolFileHandleInv, WritePrinterInv, EndDocPrinterInv,
       EndDocClosesInv, EndDocClosedInv, AppOpensShadowInv, AppWritesShadowInv DEF AppStep
  <2>3. CASE DeleteByUser(d) BY <2>3, DeleteByUserInv
  <2>4. CASE Cancelled(d) BY <2>4, CancelledInv
  <2> QED BY <1>2, <2>1, <2>2, <2>3, <2>4
<1>3. ASSUME NEW d \in Docs, PortStep(d) PROVE PoolInv'
  BY <1>3, PortBeginsInv, PortOpensShadowInv, PortWritesShadowInv, PortPrintsInv, OpenPrinterInv,
     ReadPrinterInv, PortSendsInv, PortSentInv, ClosePrinterInv, PortStopsInv, PortEndsInv
  DEF PortStep
<1>4. ASSUME NEW i \in Items, ReleaseStep(i) \/ TimePasses(i) PROVE PoolInv'
  BY <1>4, TruncateShadowInv, TruncateSpoolInv, DeleteSpoolInv, DeleteShadowInv, TimePassesInv
  DEF ReleaseStep
<1>5. CASE SchedulerThread BY <1>5, SchedulerInv
<1>6. CASE TrimPool BY <1>6, TrimPoolInv
<1>7. CASE Crash BY <1>7, CrashInv
<1> QED BY <1>1, <1>2, <1>3, <1>4, <1>5, <1>6, <1>7 DEF Next

LEMMA PoolInvariant ==
  ASSUME FilesCanBeCreated
  PROVE  Spec => []PoolInv
<1>1. FilesCanBeCreated OBVIOUS
<1>2. Init => PoolInv BY InitInv
<1>3. PoolInv /\ [Next]_vars => PoolInv' BY <1>1, NextInv
<1> QED BY <1>2, <1>3, PTL DEF Spec

\* The owners of an item are one document if it is in use, and none if not.
LEMMA OwnersCounted ==
  ASSUME PoolInv
  PROVE  ItemsOwned
<1>1. SUFFICES ASSUME NEW i \in Items
               PROVE  Cardinality(Owners(i)) = IF item[i].phase = "used" THEN 1 ELSE 0
  BY DEF ItemsOwned
<1>2. Ownership BY DEF PoolInv
<1>3. Owners(i) = {d \in Docs : Has(d) /\ job[d].hFileItem = i} BY DEF Owners, Has
<1>4. CASE item[i].phase = "used"
  <2>1. PICK d \in Docs : Has(d) /\ job[d].hFileItem = i
    BY <1>2, <1>4 DEF Ownership, UsedOwned
  <2>2. Owners(i) = {d} BY <1>2, <1>3, <2>1 DEF Ownership, OneOwner
  <2>3. Cardinality({d}) = 1 BY FS_Singleton
  <2> QED BY <1>4, <2>2, <2>3
<1>5. CASE item[i].phase # "used"
  <2>1. Owners(i) = {} BY <1>2, <1>3, <1>5 DEF Ownership, OwnersHave, ItemOf
  <2>2. Cardinality({}) = 0 BY FS_EmptySet
  <2> QED BY <1>5, <2>1, <2>2
<1> QED BY <1>4, <1>5

\* An item of the pool that is in use has one job, or one StartDocPrinter, that
\* will give it back, and one that is not has none: ReleasePoolHandle never finds
\* a handle of it in use, whoever opens and writes the shadow file meanwhile, and
\* a restart gives every job that it reads an item of its own.
THEOREM NoItemLost ==
  ASSUME FilesCanBeCreated
  PROVE  Spec => []ItemsOwned
<1>1. FilesCanBeCreated OBVIOUS
<1>2. Spec => []PoolInv BY <1>1, PoolInvariant
<1>3. PoolInv => ItemsOwned BY OwnersCounted
<1> QED BY <1>2, <1>3, PTL

\* The free list has the free items, each once, with their spool files empty and
\* open at the beginning, and nobody uses a handle of theirs.
THEOREM FreeItemsReady ==
  ASSUME FilesCanBeCreated
  PROVE  Spec => []FreeFilesReady
<1>1. FilesCanBeCreated OBVIOUS
<1>2. Spec => []PoolInv BY <1>1, PoolInvariant
<1>3. PoolInv => FreeFilesReady BY DEF PoolInv, Ownership
<1> QED BY <1>2, <1>3, PTL

----------------------------------------------------------------------------
(* What is in the spool files, and where the handles are.                   *)

\* The first n pages of document d.
Part(d, n) == [k \in 1 .. n |-> d]
File(d) == spl[job[d].hFileItem]

\* Where an application has a handle to write with, and a port one to read with.
WritePlaces == {"item", "spooling", "closing", "closed"}
ReadPlaces == {"reading", "cancel", "sent", "stopped"}

\* The handle an application writes with is open, behind the last page of its
\* document, and it leaves only a document that is whole or deleted.
Writer(d) ==
  /\ app[d] \in WritePlaces =>
       /\ "SPL_WRITING" \in ItemOf(d).Status /\ ItemOf(d).SplWrite \in 0 .. Pages
       /\ File(d).data = Part(d, ItemOf(d).SplWrite)
  /\ app[d] \in WritePlaces \ {"item"} => Is(d, "SPOOLING")
  /\ app[d] \in {"closing", "closed"} => Is(d, "PENDING_DELETION") \/ ItemOf(d).SplWrite = Pages

\* The handle a port reads with is open, where the port left it, and nobody
\* writes with it.  A document is printed once: its reader never gives up
\* SPL_READING, and only with a document that is deleted the handle.
Reader(d) ==
  /\ port[d] \in ReadPlaces =>
       /\ "SPL_READING" \in ItemOf(d).Status /\ hReadFile[d] # "none"
       /\ hReadFile[d] = "SplWrite" => "SPL_WRITING" \notin ItemOf(d).Status
       /\ Position(d) = read[d] /\ read[d] <= Len(File(d).data)
  /\ port[d] \notin ReadPlaces => read[d] = 0
  /\ port[d] \in ReadPlaces \ {"reading"} => Is(d, "PENDING_DELETION")
  /\ job[d].queued /\ "SPL_READING" \in ItemOf(d).Status
       => port[d] = "reading" \/ Is(d, "PENDING_DELETION")
  /\ Has(d) /\ "SPL_READING" \notin ItemOf(d).Status => ItemOf(d).SplRead \in {Closed, 0}

InFile(it) == it.SplWrite \in Closed .. Pages /\ it.SplRead \in Closed .. Pages
Paged(data) == data \in Seq(Docs) /\ Len(data) <= Pages

HandleTypes ==
  /\ \A i \in Items : InFile(item[i]) /\ Paged(spl[i].data) /\ spl[i].exists \in BOOLEAN
  /\ read \in [Docs -> Nat]
  /\ CurrentNum \in Nat /\ crashes \in Nat

HandleInv == HandleTypes /\ \A d \in Docs : Writer(d) /\ Reader(d)

LEMMA PageWritten ==
  ASSUME NEW d \in Docs, NEW n \in Nat
  PROVE  /\ WriteAt(Part(d, n), n, d) = Part(d, n + 1)
         /\ Part(d, n) \in Seq(Docs) /\ Len(Part(d, n)) = n
<1> DEFINE s == Part(d, n)
<1>1. s \in Seq(Docs) /\ Len(s) = n /\ \A k \in 1 .. n : s[k] = d BY DEF Part
<1> HIDE DEF s
<1>2. SubSeq(s, 1, n) = s BY <1>1
<1>3. SubSeq(s, n + 2, Len(s)) = <<>> BY <1>1
<1>4. WriteAt(s, n, d) = (s \o <<d>>) \o <<>> BY <1>2, <1>3 DEF WriteAt
<1>5. s \o <<d>> \in Seq(Docs) /\ Len(s \o <<d>>) = n + 1 /\ \A k \in 1 .. n + 1 : (s \o <<d>>)[k] = d
  BY <1>1
<1>6. (s \o <<d>>) \o <<>> = s \o <<d>> BY <1>5
<1>7. s \o <<d>> = [k \in 1 .. n + 1 |-> d] BY <1>5
<1> QED BY <1>1, <1>4, <1>6, <1>7 DEF s, Part

----------------------------------------------------------------------------
(* What the operations do to the handles.                                   *)

\* The handles of x are those of it, and used as they were.
SameHandles(it, x) ==
  /\ x.SplWrite = it.SplWrite /\ x.SplRead = it.SplRead /\ (it.Shd => x.Shd) /\ x.phase = it.phase
  /\ "SPL_WRITING" \in x.Status <=> "SPL_WRITING" \in it.Status
  /\ "SPL_READING" \in x.Status <=> "SPL_READING" \in it.Status

LEMMA WriterHandles ==
  ASSUME NEW it \in ItemRecs
  PROVE  /\ GetWriterFromHandle(it).SplWrite = IF it.SplWrite = Closed THEN 0 ELSE it.SplWrite
         /\ GetWriterFromHandle(it).SplRead = it.SplRead /\ GetWriterFromHandle(it).Shd = it.Shd
<1> DEFINE n == IF it.SplWrite = Closed THEN 0 ELSE it.SplWrite
           S == it.Status \cup {"SPL_WRITING"}
           x == [it EXCEPT !.SplWrite = n, !.Status = S]
<1>1. GetWriterFromHandle(it) = x BY Zenon DEF GetWriterFromHandle
<1> HIDE DEF n, S
<1>2. x.SplWrite = n /\ x.SplRead = it.SplRead /\ x.Shd = it.Shd BY DEF ItemRecs
<1> HIDE DEF x
<1> QED BY <1>1, <1>2 DEF n

LEMMA ReaderHandles ==
  ASSUME NEW it \in ItemRecs, "SPL_READING" \notin it.Status
  PROVE  LET x == GetReaderFromHandle(it) IN
         /\ x.Shd = it.Shd
         /\ ReadsFromWriter(it) => x.SplWrite = 0 /\ x.SplRead = it.SplRead
         /\ ~ ReadsFromWriter(it) =>
              /\ x.SplRead = IF it.SplRead = Closed THEN 0 ELSE it.SplRead
              /\ x.SplWrite = it.SplWrite
<1> DEFINE n == IF "SPL_READING" \in it.Status THEN it.SplWrite ELSE 0
           m == IF it.SplRead = Closed THEN 0 ELSE it.SplRead
           S == it.Status \cup {"SPL_READING"}
           x == [it EXCEPT !.SplWrite = n, !.Status = S]
           y == [it EXCEPT !.SplRead = m, !.Status = S]
<1>1. /\ ReadsFromWriter(it) => GetReaderFromHandle(it) = x
      /\ ~ ReadsFromWriter(it) => GetReaderFromHandle(it) = y
  BY Zenon DEF GetReaderFromHandle
<1>2. n = 0 OBVIOUS
<1> HIDE DEF n, m, S
<1>3. x.SplWrite = n /\ x.SplRead = it.SplRead /\ x.Shd = it.Shd BY DEF ItemRecs
<1>4. y.SplRead = m /\ y.SplWrite = it.SplWrite /\ y.Shd = it.Shd BY DEF ItemRecs
<1> HIDE DEF x, y
<1> QED BY <1>1, <1>2, <1>3, <1>4 DEF m

LEMMA FinishedHandles ==
  ASSUME NEW it \in ItemRecs
  PROVE  /\ FinishedWriting(it).SplWrite = it.SplWrite \/ FinishedWriting(it).SplWrite = Closed
         /\ FinishedWriting(it).SplRead = it.SplRead /\ FinishedWriting(it).Shd = it.Shd
         /\ FinishedWriting(it).phase = it.phase /\ FinishedReading(it).phase = it.phase
         /\ FinishedReading(it).SplRead = it.SplRead \/ FinishedReading(it).SplRead = Closed
         /\ FinishedReading(it).SplWrite = it.SplWrite /\ FinishedReading(it).Shd = it.Shd
         /\ SameHandles(it, FinishedShadow(it))
<1> DEFINE n == IF "SPL_WRITE_CLOSED" \in it.Status THEN Closed ELSE it.SplWrite
           S == it.Status \ {"SPL_WRITING"}
           x == [it EXCEPT !.SplWrite = n, !.Status = S]
<1>1. FinishedWriting(it) = x BY Zenon DEF FinishedWriting
<1>2. n = it.SplWrite \/ n = Closed OBVIOUS
<1> HIDE DEF n, S
<1>3. x.SplWrite = n /\ x.SplRead = it.SplRead /\ x.Shd = it.Shd /\ x.phase = it.phase BY DEF ItemRecs
<1> DEFINE m == IF "SPL_READ_CLOSED" \in it.Status THEN Closed ELSE it.SplRead
           T == it.Status \ {"SPL_READING"}
           y == [it EXCEPT !.SplRead = m, !.Status = T]
<1>4. FinishedReading(it) = y BY Zenon DEF FinishedReading
<1>5. m = it.SplRead \/ m = Closed OBVIOUS
<1> HIDE DEF m, T
<1>6. y.SplRead = m /\ y.SplWrite = it.SplWrite /\ y.Shd = it.Shd /\ y.phase = it.phase BY DEF ItemRecs
<1> DEFINE b == it.Shd /\ "SHD_CLOSED" \notin it.Status
           U == it.Status \ {"SHD_WRITING"}
           z == [it EXCEPT !.Shd = b, !.Status = U]
<1>7. FinishedShadow(it) = z BY Zenon DEF FinishedShadow
<1>8. /\ "SPL_WRITING" \in U <=> "SPL_WRITING" \in it.Status
      /\ "SPL_READING" \in U <=> "SPL_READING" \in it.Status
  OBVIOUS
<1>9. it.Shd => b BY DEF ItemRecs, ItemFlags
<1> HIDE DEF b, U
<1>10. /\ z.Shd = b /\ z.Status = U /\ z.SplWrite = it.SplWrite /\ z.SplRead = it.SplRead
       /\ z.phase = it.phase
  BY DEF ItemRecs
<1> HIDE DEF x, y, z
<1>11. SameHandles(it, z) BY <1>8, <1>9, <1>10 DEF SameHandles
<1> QED BY <1>1, <1>2, <1>3, <1>4, <1>5, <1>6, <1>7, <1>11

\* FPCloseFiles closes no handle that is in use.
LEMMA ClosedHandles ==
  ASSUME NEW it \in ItemRecs
  PROVE  LET x == FPCloseFiles(it) IN
         /\ x.SplWrite = IF "SPL_WRITING" \in it.Status THEN it.SplWrite ELSE Closed
         /\ x.SplRead = IF "SPL_READING" \in it.Status THEN it.SplRead ELSE Closed
         /\ it.Shd /\ "SPL_WRITING" \in it.Status => x.Shd
         /\ "SPL_WRITING" \in x.Status <=> "SPL_WRITING" \in it.Status
         /\ "SPL_READING" \in x.Status <=> "SPL_READING" \in it.Status
<1> DEFINE w == IF "SPL_WRITING" \in it.Status THEN it.SplWrite ELSE Closed
           r == IF "SPL_READING" \in it.Status THEN it.SplRead ELSE Closed
           b == it.Shd /\ "SPL_WRITING" \in it.Status
           S == it.Status \cup
         (IF "SPL_WRITING" \in it.Status /\ (it.SplWrite # Closed \/ it.Shd) THEN {"SPL_WRITE_CLOSED"} ELSE {})
         \cup (IF "SPL_READING" \in it.Status /\ it.SplRead # Closed THEN {"SPL_READ_CLOSED"} ELSE {})
         x == [it EXCEPT !.SplWrite = w, !.SplRead = r, !.Shd = b, !.Status = S]
<1>1. FPCloseFiles(it) = x BY Zenon DEF FPCloseFiles
<1>2. \A f \in {"SPL_READING", "SPL_WRITING"} : f \in S <=> f \in it.Status OBVIOUS
<1> HIDE DEF w, r, b, S
<1>3. x.SplWrite = w /\ x.SplRead = r /\ x.Shd = b /\ x.Status = S BY DEF ItemRecs
<1> HIDE DEF x
<1> QED BY <1>1, <1>2, <1>3 DEF w, r, b

\* A handle is moved, and the other left where it is.
LEMMA OneHandleMoved ==
  ASSUME NEW it \in ItemRecs, NEW h \in {"SplWrite", "SplRead"}, NEW n \in Int
  PROVE  LET x == [it EXCEPT ![h] = n] IN
         /\ x[h] = n /\ x.Status = it.Status /\ x.Shd = it.Shd /\ x.phase = it.phase
         /\ h = "SplWrite" => x.SplWrite = n /\ x.SplRead = it.SplRead
         /\ h = "SplRead" => x.SplRead = n /\ x.SplWrite = it.SplWrite
<1>1. CASE h = "SplWrite"
  <2>1. [it EXCEPT ![h] = n] = [it EXCEPT !.SplWrite = n] BY <1>1
  <2>2. LET x == [it EXCEPT !.SplWrite = n] IN
        x.SplWrite = n /\ x.SplRead = it.SplRead /\ x.Status = it.Status /\ x.Shd = it.Shd /\ x.phase = it.phase
    BY DEF ItemRecs
  <2> QED BY <1>1, <2>1, <2>2
<1>2. CASE h = "SplRead"
  <2>1. [it EXCEPT ![h] = n] = [it EXCEPT !.SplRead = n] BY <1>2
  <2>2. LET x == [it EXCEPT !.SplRead = n] IN
        x.SplWrite = it.SplWrite /\ x.SplRead = n /\ x.Status = it.Status /\ x.Shd = it.Shd /\ x.phase = it.phase
    BY DEF ItemRecs
  <2> QED BY <1>2, <2>1, <2>2
<1> QED BY <1>1, <1>2

\* An item that is released keeps its handles.
LEMMA ReleasedHandles ==
  ASSUME NEW it \in ItemRecs, NEW by \in Callers
  PROVE  LET x == ReleasePoolHandle(it, by) IN
         /\ x.SplWrite = it.SplWrite /\ x.SplRead = it.SplRead /\ x.Shd = it.Shd
         /\ x.phase \in {it.phase, "leaving"}
BY DEF ReleasePoolHandle, ItemRecs

----------------------------------------------------------------------------
(* What a step of one document does, and what it leaves alone.              *)

\* A step of document d leaves the others and their items alone.
OnlyDoc(d) ==
  /\ \A c \in Docs : c # d =>
       /\ app'[c] = app[c] /\ port'[c] = port[c] /\ job'[c] = job[c]
       /\ hReadFile'[c] = hReadFile[c] /\ read'[c] = read[c]
  /\ \A i \in Items : i # job[d].hFileItem =>
       item'[i] = item[i] /\ spl'[i] = spl[i] /\ shd'[i] = shd[i]
  /\ UNCHANGED <<CurrentNum, crashes>>

\* The job and the item of document d are j and it, but for marks that it is
\* deleted and for its shadow file.
Becomes(d, j, it) ==
  /\ job'[d].queued /\ job'[d].hFileItem = job[d].hFileItem
  /\ "SPOOLING" \in job'[d].Status <=> "SPOOLING" \in j.Status
  /\ "PENDING_DELETION" \in j.Status => "PENDING_DELETION" \in job'[d].Status
  /\ SameHandles(it, ItemOf(d)')

\* The job of document d is gone, and its handles are where it had them, or
\* closed.
Gone(d, it) ==
  LET x == item'[job[d].hFileItem] IN
  /\ ~ job'[d].queued
  /\ x.SplWrite \in {it.SplWrite, Closed} /\ x.SplRead \in {it.SplRead, Closed}
  /\ it.Shd => x.Shd
  /\ x.phase \in {it.phase, "leaving"}

LEMMA DocFacts ==
  ASSUME PoolInv, NEW d \in Docs, Has(d)
  PROVE  /\ job[d].hFileItem \in Items /\ ItemOf(d) = item[job[d].hFileItem]
         /\ ItemOf(d) \in ItemRecs /\ job[d] \in JobRecs /\ spl[job[d].hFileItem].exists
         /\ spl = [i \in Items |-> [exists |-> spl[i].exists, data |-> spl[i].data]]
         /\ item \in [Items -> ItemRecs] /\ job \in [Docs -> JobRecs]
BY DEF PoolInv, Types, Ownership, OwnersHave, FilesThere, ItemOf

\* A document that has no item is at no place where it would use one.
LEMMA HasNone ==
  ASSUME PoolInv, NEW d \in Docs, ~ Has(d)
  PROVE  app[d] \notin WritePlaces \cup {"shadow", "write"} /\ port[d] = "none" /\ ~ job[d].queued
BY DEF PoolInv, Users, RefsQueued, Has, AppRefs, PortRefs, WritePlaces

\* SetItem sets one item.
LEMMA ItemSet ==
  ASSUME PoolInv, NEW d \in Docs, Has(d), NEW x, SetItem(d, x)
  PROVE  /\ item'[job[d].hFileItem] = x
         /\ \A i \in Items : i # job[d].hFileItem => item'[i] = item[i]
BY DocFacts DEF SetItem

LEMMA JobSet ==
  ASSUME PoolInv, NEW d \in Docs, NEW k, job' = [job EXCEPT ![d] = k]
  PROVE  job'[d] = k /\ \A c \in Docs : c # d => job'[c] = job[c]
BY DEF PoolInv, Types

\* DeleteJob of a job, now j, that has item it by now.
LEMMA DeleteJobDoes ==
  ASSUME PoolInv, NEW d \in Docs, job[d].queued, NEW j \in JobRecs, j.queued,
         j.hFileItem = job[d].hFileItem, NEW it \in ItemRecs, NEW refs \in BOOLEAN,
         DeleteJob(d, j, it, refs)
  PROVE  /\ refs => Becomes(d, j, it) /\ "PENDING_DELETION" \in job'[d].Status
         /\ ~ refs => Gone(d, it)
         /\ \A c \in Docs : c # d => job'[c] = job[c]
         /\ \A i \in Items : i # job[d].hFileItem => item'[i] = item[i]
<1>1. Has(d) BY DEF Has
<1>2. CASE refs
  <2> DEFINE S == j.Status \cup {"PENDING_DELETION", "SHADOW_DELETED"}
             k == [j EXCEPT !.Status = S]
             x == FinishedShadow(it)
  <2>1. job' = [job EXCEPT ![d] = k] /\ SetItem(d, x) BY <1>2 DEF DeleteJob
  <2>2. "PENDING_DELETION" \in S /\ ("SPOOLING" \in S <=> "SPOOLING" \in j.Status) OBVIOUS
  <2> HIDE DEF S
  <2>3. k.queued /\ k.hFileItem = job[d].hFileItem /\ k.Status = S BY DEF JobRecs
  <2> HIDE DEF k
  <2>4. SameHandles(it, x) BY FinishedHandles
  <2> HIDE DEF x
  <2>5. job'[d] = k /\ \A c \in Docs : c # d => job'[c] = job[c] BY <2>1, JobSet
  <2>6. item'[job[d].hFileItem] = x /\ \A i \in Items : i # job[d].hFileItem => item'[i] = item[i]
    BY <1>1, <2>1, ItemSet
  <2>7. ItemOf(d)' = x BY <2>3, <2>5, <2>6 DEF ItemOf
  <2> QED BY <1>2, <2>2, <2>3, <2>4, <2>5, <2>6, <2>7 DEF Becomes
<1>3. CASE ~ refs
  <2> DEFINE sh == IF "SHADOW_DELETED" \in j.Status THEN it ELSE FinishedShadow(it)
             w == FinishedWriting(sh)
             fin == FinishedReading(w)
             x == ReleasePoolHandle(fin, "DeleteJob")
  <2>1. job' = [job EXCEPT ![d] = NoJob] /\ SetItem(d, x) BY <1>3 DEF DeleteJob, Released
  <2>2. sh \in ItemRecs /\ SameHandles(it, sh) BY ShadowFinished, FinishedHandles DEF Same, SameHandles
  <2> HIDE DEF sh
  <2>3. /\ w \in ItemRecs /\ w.SplWrite \in {sh.SplWrite, Closed} /\ w.SplRead = sh.SplRead
        /\ w.Shd = sh.Shd /\ w.phase = sh.phase
    BY <2>2, WritingFinished, FinishedHandles DEF Same
  <2> HIDE DEF w
  <2>4. /\ fin \in ItemRecs /\ fin.SplWrite = w.SplWrite /\ fin.SplRead \in {w.SplRead, Closed}
        /\ fin.Shd = w.Shd /\ fin.phase = w.phase
    BY <2>3, ReadingFinished, FinishedHandles DEF Same
  <2> HIDE DEF fin
  <2>5. /\ x.SplWrite = fin.SplWrite /\ x.SplRead = fin.SplRead /\ x.Shd = fin.Shd
        /\ x.phase \in {fin.phase, "leaving"}
    BY <2>4, ReleasedHandles DEF Callers
  <2> HIDE DEF x
  <2>6. job'[d] = NoJob /\ \A c \in Docs : c # d => job'[c] = job[c] BY <2>1, JobSet
  <2>7. item'[job[d].hFileItem] = x /\ \A i \in Items : i # job[d].hFileItem => item'[i] = item[i]
    BY <1>1, <2>1, ItemSet
  <2>8. ~ NoJob.queued BY DEF NoJob
  <2>9. /\ x.SplWrite \in {it.SplWrite, Closed} /\ x.SplRead \in {it.SplRead, Closed}
        /\ (it.Shd => x.Shd) /\ x.phase \in {it.phase, "leaving"}
    BY <2>2, <2>3, <2>4, <2>5 DEF SameHandles
  <2>10. Gone(d, it) BY <2>6, <2>7, <2>8, <2>9 DEF Gone
  <2> QED BY <1>3, <2>6, <2>7, <2>10
<1> QED BY <1>2, <1>3

\* A job kept as k, with item x.
LEMMA JobKept ==
  ASSUME PoolInv, NEW d \in Docs, job[d].queued, NEW k, k.queued, k.hFileItem = job[d].hFileItem,
         job' = [job EXCEPT ![d] = k], NEW x, SetItem(d, x)
  PROVE  /\ job'[d] = k /\ ItemOf(d)' = x
         /\ \A c \in Docs : c # d => job'[c] = job[c]
         /\ \A i \in Items : i # job[d].hFileItem => item'[i] = item[i]
<1>1. Has(d) BY DEF Has
<1>2. job'[d] = k /\ \A c \in Docs : c # d => job'[c] = job[c] BY JobSet
<1>3. item'[job[d].hFileItem] = x /\ \A i \in Items : i # job[d].hFileItem => item'[i] = item[i]
  BY <1>1, ItemSet
<1> QED BY <1>2, <1>3 DEF ItemOf

\* The job and its item are kept as they are, or with other marks.
LEMMA StatusStep ==
  ASSUME PoolInv, NEW d \in Docs, job[d].queued, NEW S \in SUBSET JobFlags,
         job' = [job EXCEPT ![d].Status = S], UNCHANGED item,
         "SPOOLING" \in S <=> Is(d, "SPOOLING"),
         Is(d, "PENDING_DELETION") => "PENDING_DELETION" \in S
  PROVE  /\ Becomes(d, job[d], ItemOf(d)) /\ job'[d].Status = S
         /\ \A c \in Docs : c # d => job'[c] = job[c]
<1> DEFINE k == [job[d] EXCEPT !.Status = S]
<1>1. job' = [job EXCEPT ![d] = k] BY DEF PoolInv, Types
<1>2. k.queued /\ k.hFileItem = job[d].hFileItem /\ k.Status = S BY StatusSet
<1> HIDE DEF k
<1>3. job'[d] = k /\ \A c \in Docs : c # d => job'[c] = job[c] BY <1>1, JobSet
<1>4. ItemOf(d)' = ItemOf(d) BY <1>2, <1>3 DEF ItemOf
<1> QED BY <1>2, <1>3, <1>4 DEF Becomes, SameHandles, Is

LEMMA NothingBecomes ==
  ASSUME NEW d \in Docs, job[d].queued, UNCHANGED job, SameHandles(ItemOf(d), ItemOf(d)')
  PROVE  Becomes(d, job[d], ItemOf(d))
BY DEF Becomes

\* A step that leaves the handles and the files of its document as they were.
Simple(d) ==
  /\ Becomes(d, job[d], ItemOf(d))
  /\ spl'[job[d].hFileItem] = spl[job[d].hFileItem]
  /\ hReadFile'[d] = hReadFile[d] /\ read' = read
  /\ app'[d] = app[d] \/ {app[d], app'[d]} \subseteq {"shadow", "write", "done"}
  /\ \/ port'[d] = port[d]
     \/ port[d] \notin ReadPlaces /\ port'[d] \notin ReadPlaces
     \/ port[d] \in ReadPlaces /\ port'[d] \in ReadPlaces /\ "PENDING_DELETION" \in job'[d].Status

\* A step that is the last of its job.
Ends(d) ==
  /\ Gone(d, ItemOf(d))
  /\ spl'[job[d].hFileItem] = spl[job[d].hFileItem] /\ read' = read
  /\ app'[d] = "done" /\ port'[d] = "none" /\ port[d] \notin ReadPlaces

\* The shadow file is opened, by the application or the port.
LEMMA OpensShadow ==
  ASSUME PoolInv, NEW d \in Docs, job[d].queued, OpenShadow(d), UNCHANGED job
  PROVE  /\ Becomes(d, job[d], ItemOf(d)) /\ ItemOf(d)'.Shd
         /\ \A i \in Items : i # job[d].hFileItem => item'[i] = item[i] /\ shd'[i] = shd[i]
<1> DEFINE h == job[d].hFileItem
           S == item[h].Status \cup {"SHD_WRITING"}
           x == [item[h] EXCEPT !.Shd = TRUE, !.Status = S]
<1>0. Has(d) BY DEF Has
<1>1. /\ item' = [item EXCEPT ![h].Shd = TRUE, ![h].Status = S]
      /\ shd' = shd \/ \E e : shd' = [shd EXCEPT ![h] = e]
  BY DEF OpenShadow
<1>2. h \in Items /\ item[h] \in ItemRecs /\ ItemOf(d) = item[h] BY <1>0, DocFacts
<1>3. item' = [item EXCEPT ![h] = x] BY <1>1, <1>2 DEF PoolInv, Types
<1>4. /\ "SPL_WRITING" \in S <=> "SPL_WRITING" \in item[h].Status
      /\ "SPL_READING" \in S <=> "SPL_READING" \in item[h].Status
  OBVIOUS
<1> HIDE DEF S
<1>5. /\ x.Shd /\ x.SplWrite = item[h].SplWrite /\ x.SplRead = item[h].SplRead /\ x.Status = S
      /\ x.phase = item[h].phase
  BY <1>2 DEF ItemRecs
<1> HIDE DEF x
<1>6. item'[h] = x /\ \A i \in Items : i # h => item'[i] = item[i] BY <1>2, <1>3 DEF PoolInv, Types
<1>7. \A i \in Items : i # h => shd'[i] = shd[i] BY <1>1 DEF PoolInv, Types
<1>8. ItemOf(d)' = x BY <1>6 DEF ItemOf
<1>9. SameHandles(ItemOf(d), ItemOf(d)') BY <1>2, <1>4, <1>5, <1>8 DEF SameHandles
<1> QED BY <1>5, <1>6, <1>7, <1>8, <1>9, NothingBecomes

\* The shadow file is written.
LEMMA WritesShadow ==
  ASSUME PoolInv, NEW d \in Docs, WriteShadow(d)
  PROVE  \A i \in Items : i # job[d].hFileItem => shd'[i] = shd[i]
BY DEF WriteShadow, PoolInv, Types

LEMMA GetSpoolFileHandleDoes ==
  ASSUME PoolInv, NEW d \in Docs, GetSpoolFileHandle(d)
  PROVE  OnlyDoc(d) /\ Simple(d)
<1>1. job[d].queued /\ Has(d) BY AppJob DEF GetSpoolFileHandle, AppRefs, Has
<1> DEFINE S == ItemOf(d).Status \cup {"DONT_RECYCLE"}
           x == [ItemOf(d) EXCEPT !.Status = S]
<1>2. SetItem(d, x) BY DEF GetSpoolFileHandle
<1>3. /\ "SPL_WRITING" \in S <=> "SPL_WRITING" \in ItemOf(d).Status
      /\ "SPL_READING" \in S <=> "SPL_READING" \in ItemOf(d).Status
  OBVIOUS
<1>4. ItemOf(d) \in ItemRecs BY <1>1, DocFacts
<1> HIDE DEF S
<1>5. SameHandles(ItemOf(d), x) BY <1>3, <1>4 DEF ItemRecs, SameHandles
<1> HIDE DEF x
<1>6. item'[job[d].hFileItem] = x /\ \A i \in Items : i # job[d].hFileItem => item'[i] = item[i]
  BY <1>1, <1>2, ItemSet
<1>7. UNCHANGED <<app, port, job, hReadFile, read, CurrentNum, spl, shd, crashes>>
  BY DEF GetSpoolFileHandle, reader, pool, disk
<1>8. Becomes(d, job[d], ItemOf(d)) BY <1>1, <1>5, <1>6, <1>7, NothingBecomes DEF ItemOf
<1> QED BY <1>6, <1>7, <1>8 DEF OnlyDoc, Simple

LEMMA AppOpensShadowDoes ==
  ASSUME PoolInv, NEW d \in Docs, AppOpensShadow(d)
  PROVE  OnlyDoc(d) /\ Simple(d) /\ ItemOf(d)'.Shd
<1>1. job[d].queued BY AppJob DEF AppOpensShadow, AppRefs
<1>2. /\ UNCHANGED <<port, job, hReadFile, read, CurrentNum, spl, crashes>> /\ OpenShadow(d)
      /\ app[d] = "shadow" /\ app' = [app EXCEPT ![d] = "write"]
  BY DEF AppOpensShadow, AppAt, reader, pool
<1>3. /\ Becomes(d, job[d], ItemOf(d)) /\ ItemOf(d)'.Shd
      /\ \A i \in Items : i # job[d].hFileItem => item'[i] = item[i] /\ shd'[i] = shd[i]
  BY <1>1, <1>2, OpensShadow
<1>4. app'[d] = "write" /\ \A c \in Docs : c # d => app'[c] = app[c]
  BY <1>2 DEF PoolInv, Types
<1> QED BY <1>2, <1>3, <1>4 DEF OnlyDoc, Simple

LEMMA PortOpensShadowDoes ==
  ASSUME PoolInv, NEW d \in Docs, PortOpensShadow(d)
  PROVE  OnlyDoc(d) /\ Simple(d) /\ ItemOf(d)'.Shd
<1>1. job[d].queued BY AppJob DEF PortOpensShadow, PortRefs
<1>2. /\ UNCHANGED <<app, job, hReadFile, read, CurrentNum, spl, crashes>> /\ OpenShadow(d)
      /\ port[d] = "shadow" /\ port' = [port EXCEPT ![d] = "write"]
  BY DEF PortOpensShadow, PortAt, reader, pool
<1>3. /\ Becomes(d, job[d], ItemOf(d)) /\ ItemOf(d)'.Shd
      /\ \A i \in Items : i # job[d].hFileItem => item'[i] = item[i] /\ shd'[i] = shd[i]
  BY <1>1, <1>2, OpensShadow
<1>4. port'[d] = "write" /\ \A c \in Docs : c # d => port'[c] = port[c]
  BY <1>2 DEF PoolInv, Types
<1> QED BY <1>2, <1>3, <1>4 DEF OnlyDoc, Simple, ReadPlaces

\* A port thread that changes at most the marks of its job.
LEMMA PortMarks ==
  ASSUME PoolInv, NEW d \in Docs, job[d].queued,
         NEW p, port' = [port EXCEPT ![d] = p], NEW S \in SUBSET JobFlags,
         job' = [job EXCEPT ![d].Status = S],
         "SPOOLING" \in S <=> Is(d, "SPOOLING"),
         Is(d, "PENDING_DELETION") => "PENDING_DELETION" \in S,
         \/ port[d] \notin ReadPlaces /\ p \notin ReadPlaces
         \/ port[d] \in ReadPlaces /\ p \in ReadPlaces /\ "PENDING_DELETION" \in S,
         UNCHANGED <<app, item, hReadFile, read, CurrentNum, spl, crashes>>,
         \A i \in Items : i # job[d].hFileItem => shd'[i] = shd[i]
  PROVE  OnlyDoc(d) /\ Simple(d)
<1>1. /\ Becomes(d, job[d], ItemOf(d)) /\ job'[d].Status = S
      /\ \A c \in Docs : c # d => job'[c] = job[c]
  BY StatusStep
<1>2. port'[d] = p /\ \A c \in Docs : c # d => port'[c] = port[c] BY DEF PoolInv, Types
<1> QED BY <1>1, <1>2 DEF OnlyDoc, Simple

LEMMA PortMarksDo ==
  ASSUME PoolInv, NEW d \in Docs,
         \/ PortBegins(d) \/ PortWritesShadow(d) \/ PortPrints(d) \/ PortSends(d) \/ PortStops(d)
         \/ OpenPrinter(d) /\ Is(d, "PENDING_DELETION")
  PROVE  OnlyDoc(d) /\ Simple(d)
<1>1. job[d].queued
  BY AppJob DEF PortBegins, PortWritesShadow, PortPrints, PortSends, PortStops, OpenPrinter, PortRefs
<1> DEFINE S == job[d].Status
<1>2. S \in SUBSET JobFlags BY <1>1, JobFrame DEF JobRecs
<1>3. job = [job EXCEPT ![d].Status = S] BY <1>1, JobFrame DEF PoolInv, Types, JobRecs
<1>4. CASE PortBegins(d)
  <2>1. /\ port[d] = "assigned" /\ port' = [port EXCEPT ![d] = "shadow"]
        /\ job' = [job EXCEPT ![d].Status = S]
        /\ UNCHANGED <<app, item, hReadFile, read, CurrentNum, spl, shd, crashes>>
    BY <1>3, <1>4 DEF PortBegins, PortAt, reader, pool, disk
  <2>2. port[d] \notin ReadPlaces /\ "shadow" \notin ReadPlaces BY <2>1 DEF ReadPlaces
  <2>3. /\ "SPOOLING" \in S <=> Is(d, "SPOOLING")
        /\ Is(d, "PENDING_DELETION") => "PENDING_DELETION" \in S
    BY DEF Is
  <2> HIDE DEF S
  <2> QED BY <1>1, <1>2, <2>1, <2>2, <2>3, PortMarks
<1>5. CASE PortWritesShadow(d)
  <2> DEFINE T == S \ {"SHADOW_DELETED"}
  <2>1. /\ port[d] = "write" /\ port' = [port EXCEPT ![d] = "begin"]
        /\ job' = [job EXCEPT ![d].Status = T]
        /\ UNCHANGED <<app, item, hReadFile, read, CurrentNum, spl, crashes>>
    BY <1>5 DEF PortWritesShadow, PortAt, ShadowExists, reader, pool, PoolInv, Types
  <2>2. \A i \in Items : i # job[d].hFileItem => shd'[i] = shd[i]
    BY <1>5, WritesShadow DEF PortWritesShadow
  <2>3. T \in SUBSET JobFlags BY <1>2
  <2>4. /\ "SPOOLING" \in T <=> Is(d, "SPOOLING")
        /\ Is(d, "PENDING_DELETION") => "PENDING_DELETION" \in T
    BY DEF Is
  <2> HIDE DEF T
  <2>5. port[d] \notin ReadPlaces /\ "begin" \notin ReadPlaces BY <2>1 DEF ReadPlaces
  <2> QED BY <1>1, <2>1, <2>2, <2>3, <2>4, <2>5, PortMarks
<1>6. CASE PortPrints(d)
  <2> DEFINE T == S \cup {"PRINTING"}
  <2>1. /\ port[d] \in {"begin", "assigned"} /\ port' = [port EXCEPT ![d] = "open"]
        /\ job' = [job EXCEPT ![d].Status = T]
        /\ UNCHANGED <<app, item, hReadFile, read, CurrentNum, spl, shd, crashes>>
    BY <1>6 DEF PortPrints, PortAt, reader, pool, disk
  <2>3. T \in SUBSET JobFlags BY <1>2 DEF JobFlags
  <2>4. /\ "SPOOLING" \in T <=> Is(d, "SPOOLING")
        /\ Is(d, "PENDING_DELETION") => "PENDING_DELETION" \in T
    BY DEF Is
  <2> HIDE DEF T
  <2>5. port[d] \notin ReadPlaces /\ "open" \notin ReadPlaces BY <2>1 DEF ReadPlaces
  <2> QED BY <1>1, <2>1, <2>3, <2>4, <2>5, PortMarks
<1>7. CASE PortSends(d)
  <2>1. /\ port[d] = "reading"
        /\ UNCHANGED <<app, item, hReadFile, read, CurrentNum, spl, shd, crashes>>
    BY <1>7 DEF PortSends, reader, pool, disk
  <2>2. CASE Pending(d) /\ PortAt(d, "cancel")
    <3> DEFINE T == S \cup {"PENDING_DELETION"}
    <3>1. /\ port' = [port EXCEPT ![d] = "cancel"] /\ job' = [job EXCEPT ![d].Status = T]
      BY <2>2 DEF Pending, PortAt
    <3>3. T \in SUBSET JobFlags BY <1>2 DEF JobFlags
    <3>4. "SPOOLING" \in T <=> Is(d, "SPOOLING") BY DEF Is
    <3>5. "PENDING_DELETION" \in T OBVIOUS
    <3> HIDE DEF T
    <3> QED BY <1>1, <2>1, <3>1, <3>3, <3>4, <3>5, PortMarks DEF ReadPlaces
  <2>3. CASE Is(d, "PENDING_DELETION") /\ PortAt(d, "stopped") /\ UNCHANGED job
    <3>1. port' = [port EXCEPT ![d] = "stopped"] /\ job' = [job EXCEPT ![d].Status = S]
      BY <1>3, <2>3 DEF PortAt
    <3>2. "PENDING_DELETION" \in S BY <2>3 DEF Is
    <3> HIDE DEF S
    <3> QED BY <1>1, <1>2, <2>1, <3>1, <3>2, PortMarks DEF ReadPlaces, Is, S
  <2> QED BY <1>7, <2>2, <2>3 DEF PortSends
<1>8. CASE PortStops(d)
  <2> DEFINE T == S \ {"PRINTING"}
  <2>1. /\ port[d] = "printed" /\ port' = [port EXCEPT ![d] = "end"]
        /\ job' = [job EXCEPT ![d].Status = T]
        /\ UNCHANGED <<app, item, hReadFile, read, CurrentNum, spl, shd, crashes>>
    BY <1>8 DEF PortStops, PortAt, reader, pool, disk
  <2>3. T \in SUBSET JobFlags BY <1>2
  <2>4. /\ "SPOOLING" \in T <=> Is(d, "SPOOLING")
        /\ Is(d, "PENDING_DELETION") => "PENDING_DELETION" \in T
    BY DEF Is
  <2> HIDE DEF T
  <2>5. port[d] \notin ReadPlaces /\ "end" \notin ReadPlaces BY <2>1 DEF ReadPlaces
  <2> QED BY <1>1, <2>1, <2>3, <2>4, <2>5, PortMarks
<1>9. CASE OpenPrinter(d) /\ Is(d, "PENDING_DELETION")
  <2>1. /\ port[d] = "open" /\ port' = [port EXCEPT ![d] = "printed"]
        /\ job' = [job EXCEPT ![d].Status = S]
        /\ UNCHANGED <<app, item, hReadFile, read, CurrentNum, spl, shd, crashes>>
    BY <1>3, <1>9 DEF OpenPrinter, PortAt, reader, pool, disk
  <2>2. port[d] \notin ReadPlaces /\ "printed" \notin ReadPlaces BY <2>1 DEF ReadPlaces
  <2>3. /\ "SPOOLING" \in S <=> Is(d, "SPOOLING")
        /\ Is(d, "PENDING_DELETION") => "PENDING_DELETION" \in S
    BY DEF Is
  <2> HIDE DEF S
  <2> QED BY <1>1, <1>2, <2>1, <2>2, <2>3, PortMarks
<1> QED BY <1>4, <1>5, <1>6, <1>7, <1>8, <1>9

\* A step that may call DeleteJob with references, or else ends the job.
LEMMA DeletesOrMarks ==
  ASSUME PoolInv, NEW d \in Docs, job[d].queued,
         NEW j \in JobRecs, j.queued, j.hFileItem = job[d].hFileItem, NEW refs \in BOOLEAN,
         "SPOOLING" \in j.Status <=> Is(d, "SPOOLING"),
         Is(d, "PENDING_DELETION") => "PENDING_DELETION" \in j.Status,
         \/ DeleteJob(d, j, ItemOf(d), refs)
         \/ refs /\ job' = [job EXCEPT ![d] = j] /\ SetItem(d, ItemOf(d))
  PROVE  /\ refs => Becomes(d, job[d], ItemOf(d))
         /\ ~ refs => Gone(d, ItemOf(d))
         /\ \A c \in Docs : c # d => job'[c] = job[c]
         /\ \A i \in Items : i # job[d].hFileItem => item'[i] = item[i]
         /\ DeleteJob(d, j, ItemOf(d), refs) /\ refs => "PENDING_DELETION" \in job'[d].Status
<1>1. ItemOf(d) \in ItemRecs BY DocFacts DEF Has
<1>2. CASE DeleteJob(d, j, ItemOf(d), refs)
  <2>1. /\ refs => Becomes(d, j, ItemOf(d)) /\ "PENDING_DELETION" \in job'[d].Status
        /\ ~ refs => Gone(d, ItemOf(d))
        /\ \A c \in Docs : c # d => job'[c] = job[c]
        /\ \A i \in Items : i # job[d].hFileItem => item'[i] = item[i]
    BY <1>1, <1>2, DeleteJobDoes
  <2>2. Becomes(d, j, ItemOf(d)) => Becomes(d, job[d], ItemOf(d)) BY DEF Becomes, Is
  <2> QED BY <2>1, <2>2
<1>3. CASE ~ DeleteJob(d, j, ItemOf(d), refs)
  <2>1. /\ job'[d] = j /\ ItemOf(d)' = ItemOf(d)
        /\ \A c \in Docs : c # d => job'[c] = job[c]
        /\ \A i \in Items : i # job[d].hFileItem => item'[i] = item[i]
    BY <1>3, JobKept
  <2>2. SameHandles(ItemOf(d), ItemOf(d)') BY <2>1 DEF SameHandles
  <2> QED BY <1>3, <2>1, <2>2 DEF Becomes, Is
<1> QED BY <1>2, <1>3

LEMMA AppWritesShadowDoes ==
  ASSUME PoolInv, NEW d \in Docs, AppWritesShadow(d)
  PROVE  OnlyDoc(d) /\ (Simple(d) \/ Ends(d))
<1>1. job[d].queued BY AppJob DEF AppWritesShadow, AppRefs
<1> DEFINE j == ShadowExists(job[d])
           refs == "PENDING_DELETION" \in j.Status => PortRefs(d) \/ UserRefs(d)
<1>2. /\ app[d] = "write" /\ app' = [app EXCEPT ![d] = "done"]
      /\ UNCHANGED <<port, hReadFile, read, CurrentNum, spl, crashes>>
      /\ \A i \in Items : i # job[d].hFileItem => shd'[i] = shd[i]
  BY WritesShadow DEF AppWritesShadow, EndDocPrinterRest, AppAt, reader, pool
<1>3. \/ DeleteJob(d, j, ItemOf(d), refs)
      \/ refs /\ job' = [job EXCEPT ![d] = j] /\ SetItem(d, ItemOf(d))
  <2>1. CASE "PENDING_DELETION" \in j.Status
    <3> DEFINE b == PortRefs(d) \/ UserRefs(d)
    <3>1. DeleteJob(d, j, ItemOf(d), b) BY <2>1 DEF AppWritesShadow, EndDocPrinterRest
    <3>2. b \in BOOLEAN /\ refs \in BOOLEAN /\ (b <=> refs) BY <2>1 DEF PortRefs, UserRefs
    <3> HIDE DEF b, refs
    <3> QED BY <3>1, <3>2
  <2>2. CASE "PENDING_DELETION" \notin j.Status
    BY <2>2 DEF AppWritesShadow, EndDocPrinterRest
  <2> QED BY <2>1, <2>2
<1>4. /\ j \in JobRecs /\ j.queued /\ j.hFileItem = job[d].hFileItem
      /\ "SPOOLING" \in j.Status <=> Is(d, "SPOOLING")
      /\ Is(d, "PENDING_DELETION") => "PENDING_DELETION" \in j.Status
  <2>1. job[d] \in JobRecs BY <1>1, JobFrame
  <2>2. j.Status = job[d].Status \ {"SHADOW_DELETED"} BY <2>1 DEF ShadowExists, JobRecs
  <2> QED BY <1>1, <2>2, ShadowThere DEF Is
<1>5. refs \in BOOLEAN /\ (~ refs => port[d] = "none") BY DEF PortRefs, UserRefs
<1> HIDE DEF j, refs
<1>6. /\ refs => Becomes(d, job[d], ItemOf(d))
      /\ ~ refs => Gone(d, ItemOf(d))
      /\ \A c \in Docs : c # d => job'[c] = job[c]
      /\ \A i \in Items : i # job[d].hFileItem => item'[i] = item[i]
  BY <1>1, <1>3, <1>4, <1>5, DeletesOrMarks
<1>7. app'[d] = "done" /\ \A c \in Docs : c # d => app'[c] = app[c] BY <1>2 DEF PoolInv, Types
<1>8. OnlyDoc(d) BY <1>2, <1>6, <1>7 DEF OnlyDoc
<1>9. CASE refs BY <1>2, <1>6, <1>7, <1>8, <1>9 DEF Simple
<1>10. CASE ~ refs BY <1>2, <1>5, <1>6, <1>7, <1>8, <1>10 DEF Ends, ReadPlaces
<1> QED BY <1>9, <1>10

LEMMA PortSentDoes ==
  ASSUME PoolInv, NEW d \in Docs, PortSent(d)
  PROVE  OnlyDoc(d) /\ Simple(d)
<1>1. job[d].queued BY AppJob DEF PortSent, PortRefs
<1>2. /\ port[d] = "cancel" /\ port' = [port EXCEPT ![d] = "sent"]
      /\ DeleteJob(d, job[d], ItemOf(d), TRUE)
      /\ UNCHANGED <<app, hReadFile, read, CurrentNum, spl, shd, crashes>>
  BY DEF PortSent, PortAt, reader, pool, disk
<1>3. job[d] \in JobRecs BY <1>1, JobFrame
<1>4. /\ Becomes(d, job[d], ItemOf(d)) /\ "PENDING_DELETION" \in job'[d].Status
      /\ \A c \in Docs : c # d => job'[c] = job[c]
      /\ \A i \in Items : i # job[d].hFileItem => item'[i] = item[i]
  BY <1>1, <1>2, <1>3, DeletesOrMarks DEF Is
<1>5. port'[d] = "sent" /\ \A c \in Docs : c # d => port'[c] = port[c] BY <1>2 DEF PoolInv, Types
<1> QED BY <1>2, <1>4, <1>5 DEF OnlyDoc, Simple, ReadPlaces

LEMMA PortEndsDoes ==
  ASSUME PoolInv, NEW d \in Docs, PortEnds(d)
  PROVE  OnlyDoc(d) /\ (Simple(d) \/ Ends(d))
<1>1. job[d].queued /\ job[d] \in JobRecs BY AppJob, JobFrame DEF PortEnds, PortRefs
<1> DEFINE S == job[d].Status \ {"DESPOOLING"}
           j == [job[d] EXCEPT !.Status = S]
           refs == ~ (Is(d, "PENDING_DELETION") /\ ~ AppRefs(d) /\ ~ UserRefs(d))
<1>2. /\ port[d] = "end" /\ port' = [port EXCEPT ![d] = "none"]
      /\ UNCHANGED <<app, hReadFile, read, CurrentNum, spl, shd, crashes>>
      /\ \/ ~ refs /\ DeleteJob(d, j, ItemOf(d), FALSE)
         \/ refs /\ job' = [job EXCEPT ![d] = j] /\ UNCHANGED item
  BY DEF PortEnds, PortAt, reader, pool, disk
<1>3. /\ S \in SUBSET JobFlags
      /\ "SPOOLING" \in S <=> Is(d, "SPOOLING")
      /\ Is(d, "PENDING_DELETION") => "PENDING_DELETION" \in S
  BY <1>1 DEF JobRecs, Is
<1>4. refs \in BOOLEAN /\ (~ refs => app[d] = "done")
  <2>1. app[d] \in AppPlaces \ {"new", "item"} BY <1>1, JobFrame
  <2> QED BY <2>1 DEF AppRefs, UserRefs, Is, AppPlaces
<1> HIDE DEF S, refs
<1>5. j \in JobRecs /\ j.queued /\ j.hFileItem = job[d].hFileItem /\ j.Status = S
  BY <1>1, <1>3, StatusSet
<1> HIDE DEF j
<1>6. \/ DeleteJob(d, j, ItemOf(d), refs)
      \/ refs /\ job' = [job EXCEPT ![d] = j] /\ SetItem(d, ItemOf(d))
  <2>1. CASE ~ refs
    <3>1. refs = FALSE BY <1>4, <2>1
    <3> QED BY <1>2, <2>1, <3>1
  <2>2. CASE refs BY <1>1, <1>2, <2>2, JobFrame DEF SetItem
  <2> QED BY <2>1, <2>2
<1>7. /\ refs => Becomes(d, job[d], ItemOf(d))
      /\ ~ refs => Gone(d, ItemOf(d))
      /\ \A c \in Docs : c # d => job'[c] = job[c]
      /\ \A i \in Items : i # job[d].hFileItem => item'[i] = item[i]
  BY <1>1, <1>3, <1>4, <1>5, <1>6, DeletesOrMarks
<1>8. port'[d] = "none" /\ \A c \in Docs : c # d => port'[c] = port[c] BY <1>2 DEF PoolInv, Types
<1>9. OnlyDoc(d) BY <1>2, <1>7, <1>8 DEF OnlyDoc
<1>10. CASE refs BY <1>2, <1>7, <1>8, <1>9, <1>10 DEF Simple, ReadPlaces
<1>11. CASE ~ refs BY <1>2, <1>4, <1>7, <1>8, <1>9, <1>11 DEF Ends, ReadPlaces
<1> QED BY <1>10, <1>11

LEMMA UserDoes ==
  ASSUME PoolInv, NEW d \in Docs, DeleteByUser(d) \/ Cancelled(d)
  PROVE  OnlyDoc(d) /\ (Simple(d) \/ Ends(d))
<1>1. job[d].queued /\ job[d] \in JobRecs BY AppJob, JobFrame DEF DeleteByUser, Cancelled, UserRefs
<1>2. UNCHANGED <<app, port, hReadFile, read, CurrentNum, spl, shd, crashes>>
  BY DEF DeleteByUser, Cancelled, reader, pool, disk
<1>3. app[d] \in AppPlaces \ {"new", "item"} BY <1>1, JobFrame
<1>4. CASE DeleteByUser(d) /\ Cancels(d)
  <2> DEFINE S == job[d].Status \cup {"PENDING_DELETION"}
  <2>1. job' = [job EXCEPT ![d].Status = S] /\ UNCHANGED item BY <1>4 DEF DeleteByUser, Pending
  <2>2. /\ S \in SUBSET JobFlags
        /\ "SPOOLING" \in S <=> Is(d, "SPOOLING")
        /\ Is(d, "PENDING_DELETION") => "PENDING_DELETION" \in S
    BY <1>1 DEF JobRecs, JobFlags, Is
  <2> HIDE DEF S
  <2>3. Becomes(d, job[d], ItemOf(d)) /\ \A c \in Docs : c # d => job'[c] = job[c]
    BY <1>1, <2>1, <2>2, StatusStep
  <2> QED BY <1>2, <2>1, <2>3 DEF OnlyDoc, Simple
<1>5. ASSUME NEW refs \in BOOLEAN, DeleteJob(d, job[d], ItemOf(d), refs),
             ~ refs => ~ AppRefs(d) /\ ~ PortRefs(d)
      PROVE  OnlyDoc(d) /\ (Simple(d) \/ Ends(d))
  <2>1. /\ refs => Becomes(d, job[d], ItemOf(d))
        /\ ~ refs => Gone(d, ItemOf(d))
        /\ \A c \in Docs : c # d => job'[c] = job[c]
        /\ \A i \in Items : i # job[d].hFileItem => item'[i] = item[i]
    BY <1>1, <1>5, DeletesOrMarks DEF Is
  <2>2. ~ refs => app[d] = "done" /\ port[d] = "none"
    BY <1>3, <1>5 DEF AppRefs, PortRefs, AppPlaces
  <2>3. CASE refs BY <1>2, <2>1, <2>3 DEF OnlyDoc, Simple
  <2>4. CASE ~ refs BY <1>2, <2>1, <2>2, <2>4 DEF OnlyDoc, Ends, ReadPlaces
  <2> QED BY <2>3, <2>4
<1>6. CASE DeleteByUser(d) /\ ~ Cancels(d)
  <2> DEFINE refs == AppRefs(d) \/ PortRefs(d) \/ UserRefs(d)
  <2>1. DeleteJob(d, job[d], ItemOf(d), refs) BY <1>6 DEF DeleteByUser
  <2>2. refs \in BOOLEAN /\ (~ refs => ~ AppRefs(d) /\ ~ PortRefs(d))
    BY DEF AppRefs, PortRefs, UserRefs
  <2> HIDE DEF refs
  <2> QED BY <1>5, <2>1, <2>2
<1>7. CASE Cancelled(d)
  <2> DEFINE refs == AppRefs(d) \/ PortRefs(d)
  <2>1. DeleteJob(d, job[d], ItemOf(d), refs) BY <1>7 DEF Cancelled
  <2>2. refs \in BOOLEAN /\ (~ refs => ~ AppRefs(d) /\ ~ PortRefs(d)) BY DEF AppRefs, PortRefs
  <2> HIDE DEF refs
  <2> QED BY <1>5, <2>1, <2>2
<1> QED BY <1>4, <1>6, <1>7

----------------------------------------------------------------------------
(* The steps that open, move or finish with a handle.                       *)

\* The port of document d is where it was.
ReaderSame(d) == port'[d] = port[d] /\ hReadFile'[d] = hReadFile[d] /\ read' = read
FilesSame(d) ==
  spl'[job[d].hFileItem] = spl[job[d].hFileItem] /\ shd'[job[d].hFileItem] = shd[job[d].hFileItem]

\* The job enters the queue.
Queued(d) ==
  /\ app[d] = "item" /\ app'[d] = "spooling"
  /\ job'[d].queued /\ job'[d].hFileItem = job[d].hFileItem /\ job'[d].Status = {"SPOOLING"}
  /\ item'[job[d].hFileItem] = item[job[d].hFileItem]

LEMMA SpoolThisJobDoes ==
  ASSUME PoolInv, NEW d \in Docs, SpoolThisJob(d)
  PROVE  /\ OnlyDoc(d) /\ Has(d) /\ FilesSame(d) /\ ReaderSame(d) /\ port[d] = "none"
         /\ Queued(d) \/ Ends(d)
<1>1. app[d] = "item" /\ Has(d) /\ ~ job[d].queued /\ port[d] = "none"
  BY DEF SpoolThisJob, PoolInv, Users, RefsQueued, Has, PortRefs
<1>2. UNCHANGED <<port, hReadFile, read, CurrentNum, spl, shd, crashes>>
  BY DEF SpoolThisJob, reader, pool, disk
<1>3. ItemOf(d) \in ItemRecs /\ job[d] \in JobRecs BY <1>1, DocFacts
<1>4. CASE /\ job' = [job EXCEPT ![d].queued = TRUE, ![d].Status = {"SPOOLING"}]
           /\ AppAt(d, "spooling") /\ UNCHANGED item
  <2> DEFINE k == [job[d] EXCEPT !.queued = TRUE, !.Status = {"SPOOLING"}]
  <2>1. job' = [job EXCEPT ![d] = k] BY <1>4 DEF PoolInv, Types
  <2>2. k.queued /\ k.hFileItem = job[d].hFileItem /\ k.Status = {"SPOOLING"} BY <1>3 DEF JobRecs
  <2> HIDE DEF k
  <2>3. job'[d] = k /\ \A c \in Docs : c # d => job'[c] = job[c] BY <2>1, JobSet
  <2>4. app'[d] = "spooling" /\ \A c \in Docs : c # d => app'[c] = app[c]
    BY <1>4 DEF PoolInv, Types, AppAt
  <2>5. OnlyDoc(d) BY <1>2, <1>4, <2>3, <2>4 DEF OnlyDoc
  <2>6. Queued(d) BY <1>1, <1>4, <2>2, <2>3, <2>4 DEF Queued
  <2> QED BY <1>1, <1>2, <2>5, <2>6 DEF FilesSame, ReaderSame
<1>5. CASE /\ SetItem(d, ReleasePoolHandle(FinishedWriting(ItemOf(d)), "SpoolThisJob"))
           /\ AppAt(d, "done") /\ UNCHANGED job
  <2> DEFINE w == FinishedWriting(ItemOf(d))
             x == ReleasePoolHandle(w, "SpoolThisJob")
  <2>1. SetItem(d, x) BY <1>5
  <2>2. /\ w \in ItemRecs /\ w.SplWrite \in {ItemOf(d).SplWrite, Closed}
        /\ w.SplRead = ItemOf(d).SplRead /\ w.Shd = ItemOf(d).Shd /\ w.phase = ItemOf(d).phase
    BY <1>3, WritingFinished, FinishedHandles DEF Same
  <2> HIDE DEF w
  <2>3. /\ x.SplWrite = w.SplWrite /\ x.SplRead = w.SplRead /\ x.Shd = w.Shd
        /\ x.phase \in {w.phase, "leaving"}
    BY <2>2, ReleasedHandles DEF Callers
  <2> HIDE DEF x
  <2>4. item'[job[d].hFileItem] = x /\ \A i \in Items : i # job[d].hFileItem => item'[i] = item[i]
    BY <1>1, <2>1, ItemSet
  <2>5. app'[d] = "done" /\ \A c \in Docs : c # d => app'[c] = app[c]
    BY <1>5 DEF PoolInv, Types, AppAt
  <2>6. Gone(d, ItemOf(d)) BY <1>1, <1>5, <2>2, <2>3, <2>4 DEF Gone
  <2>7. Ends(d) BY <1>1, <1>2, <2>5, <2>6 DEF Ends, ReadPlaces
  <2>8. OnlyDoc(d) BY <1>2, <1>5, <2>4, <2>5 DEF OnlyDoc
  <2> QED BY <1>1, <1>2, <2>7, <2>8 DEF FilesSame, ReaderSame
<1> QED BY <1>4, <1>5 DEF SpoolThisJob

\* A page is written behind the last.
PageAdded(d) ==
  /\ ItemOf(d).SplWrite \in 0 .. Pages - 1
  /\ ItemOf(d)'.SplWrite = ItemOf(d).SplWrite + 1
  /\ ItemOf(d)'.SplRead = ItemOf(d).SplRead /\ ItemOf(d)'.Status = ItemOf(d).Status
  /\ ItemOf(d)'.Shd = ItemOf(d).Shd /\ ItemOf(d)'.phase = ItemOf(d).phase
  /\ spl'[job[d].hFileItem].data = WriteAt(File(d).data, ItemOf(d).SplWrite, d)
  /\ spl'[job[d].hFileItem].exists = File(d).exists
  /\ shd'[job[d].hFileItem] = shd[job[d].hFileItem]

LEMMA WritePrinterDoes ==
  ASSUME PoolInv, NEW d \in Docs, WritePrinter(d)
  PROVE  /\ OnlyDoc(d) /\ job[d].queued /\ app[d] = "spooling" /\ ReaderSame(d)
         /\ UNCHANGED <<app, job>> /\ PageAdded(d)
<1> DEFINE h == job[d].hFileItem
           n == item[h].SplWrite + 1
           x == [item[h] EXCEPT !.SplWrite = n]
           D == WriteAt(spl[h].data, item[h].SplWrite, d)
<1>1. job[d].queued /\ app[d] = "spooling" /\ Has(d) BY AppJob DEF WritePrinter, AppRefs, Has
<1>2. /\ item' = [item EXCEPT ![h].SplWrite = n] /\ item[h].SplWrite \in 0 .. Pages - 1
      /\ spl' = [spl EXCEPT ![h].data = D]
      /\ UNCHANGED <<app, port, job, hReadFile, read, CurrentNum, shd, crashes>>
  BY DEF WritePrinter, reader, pool
<1>3. h \in Items /\ item[h] \in ItemRecs /\ ItemOf(d) = item[h] /\ Types
  BY <1>1, DocFacts DEF PoolInv
<1>4. item' = [item EXCEPT ![h] = x] BY <1>2, <1>3 DEF Types
<1>5. /\ x.SplWrite = n /\ x.SplRead = item[h].SplRead /\ x.Status = item[h].Status
      /\ x.Shd = item[h].Shd /\ x.phase = item[h].phase
  <2> HIDE DEF n
  <2> QED BY <1>3 DEF ItemRecs
<1> HIDE DEF x
<1>6. item'[h] = x /\ \A i \in Items : i # h => item'[i] = item[i] BY <1>3, <1>4 DEF Types
<1>7. /\ \A i \in Items : spl'[i].exists = spl[i].exists /\ (i # h => spl'[i] = spl[i])
      /\ spl'[h].data = D
  <2> HIDE DEF D
  <2>1. \A i \in Items : spl'[i].exists = spl[i].exists /\ (i # h => spl'[i] = spl[i])
    BY <1>2, <1>3, SpoolFileWritten
  <2>2. spl'[h].data = D BY <1>2, <1>3, SpoolFileWritten
  <2> QED BY <2>1, <2>2
<1>8. ItemOf(d)' = x BY <1>2, <1>6 DEF ItemOf
<1>9. PageAdded(d) BY <1>2, <1>3, <1>5, <1>7, <1>8 DEF PageAdded, File
<1>10. OnlyDoc(d) BY <1>2, <1>6, <1>7 DEF OnlyDoc
<1> QED BY <1>1, <1>2, <1>9, <1>10 DEF ReaderSame

\* The application has finished with the spool file.
Spooled(d) ==
  /\ app'[d] \in {"shadow", "done"}
  /\ job'[d].queued /\ job'[d].hFileItem = job[d].hFileItem
  /\ Is(d, "PENDING_DELETION") => "PENDING_DELETION" \in job'[d].Status
  /\ "SPOOLING" \notin job'[d].Status
  /\ SameHandles(FinishedWriting(ItemOf(d)), ItemOf(d)')

LEMMA EndSpoolingDoes ==
  ASSUME PoolInv, NEW d \in Docs, app[d] \in {"spooling", "closed"}, EndSpooling(d),
         UNCHANGED <<port, cancelling, reader, pool, disk, crashes>>
  PROVE  /\ OnlyDoc(d) /\ job[d].queued /\ FilesSame(d) /\ ReaderSame(d)
         /\ Spooled(d) \/ Ends(d)
<1> DEFINE S == job[d].Status \ {"SPOOLING"}
           j == [job[d] EXCEPT !.Status = S]
           it == FinishedWriting(ItemOf(d))
           refs == "PENDING_DELETION" \in j.Status => PortRefs(d) \/ UserRefs(d)
           b == PortRefs(d) \/ UserRefs(d)
<1>1. job[d].queued /\ Has(d) BY AppJob DEF AppRefs, Has
<1>2. /\ S \in SUBSET JobFlags /\ "SPOOLING" \notin S
      /\ Is(d, "PENDING_DELETION") => "PENDING_DELETION" \in S
  BY <1>1, JobFrame DEF JobRecs, Is
<1>3. /\ app' = [app EXCEPT ![d] = "shadow"] \/ app' = [app EXCEPT ![d] = "done"]
      /\ \/ DeleteJob(d, j, it, b) /\ "PENDING_DELETION" \in j.Status
            /\ app' = [app EXCEPT ![d] = "done"]
         \/ job' = [job EXCEPT ![d] = j] /\ SetItem(d, it)
  BY DEF EndSpooling, EndDocPrinterRest, AppAt
<1>4. b \in BOOLEAN /\ (~ b => port[d] = "none") BY DEF PortRefs, UserRefs
<1> HIDE DEF S, b
<1>5. j \in JobRecs /\ j.queued /\ j.hFileItem = job[d].hFileItem /\ j.Status = S
  BY <1>1, <1>2, StatusSet
<1> HIDE DEF j
<1>6. ItemOf(d) \in ItemRecs BY <1>1, DocFacts
<1>7. /\ it \in ItemRecs /\ it.SplWrite \in {ItemOf(d).SplWrite, Closed}
      /\ it.SplRead = ItemOf(d).SplRead /\ it.Shd = ItemOf(d).Shd /\ it.phase = ItemOf(d).phase
  BY <1>6, WritingFinished, FinishedHandles DEF Same
<1>8. UNCHANGED <<port, hReadFile, read, CurrentNum, spl, shd, crashes>> BY DEF reader, pool, disk
<1>9. app'[d] \in {"shadow", "done"} /\ \A c \in Docs : c # d => app'[c] = app[c]
  BY <1>3 DEF PoolInv, Types
<1>10. CASE job' = [job EXCEPT ![d] = j] /\ SetItem(d, it)
  <2>1. /\ job'[d] = j /\ ItemOf(d)' = it
        /\ \A c \in Docs : c # d => job'[c] = job[c]
        /\ \A i \in Items : i # job[d].hFileItem => item'[i] = item[i]
    <3> HIDE DEF it
    <3> QED BY <1>1, <1>5, <1>10, JobKept
  <2>2. Spooled(d) BY <1>2, <1>5, <1>9, <2>1 DEF Spooled, SameHandles
  <2>3. OnlyDoc(d) BY <1>8, <1>9, <2>1 DEF OnlyDoc
  <2> QED BY <1>1, <1>8, <2>2, <2>3 DEF FilesSame, ReaderSame
<1>11. CASE DeleteJob(d, j, it, b) /\ app' = [app EXCEPT ![d] = "done"]
  <2>1. /\ b => Becomes(d, j, it)
        /\ ~ b => Gone(d, it)
        /\ \A c \in Docs : c # d => job'[c] = job[c]
        /\ \A i \in Items : i # job[d].hFileItem => item'[i] = item[i]
    <3> HIDE DEF it
    <3> QED BY <1>1, <1>4, <1>5, <1>7, <1>11, DeleteJobDoes
  <2>2. OnlyDoc(d) BY <1>8, <1>9, <2>1 DEF OnlyDoc
  <2>3. CASE b
    <3>1. Spooled(d) BY <1>2, <1>5, <1>9, <2>1, <2>3 DEF Spooled, Becomes
    <3> QED BY <1>1, <1>8, <2>2, <3>1 DEF FilesSame, ReaderSame
  <2>4. CASE ~ b
    <3>1. Gone(d, ItemOf(d)) BY <1>7, <2>1, <2>4 DEF Gone
    <3>2. app'[d] = "done" BY <1>11 DEF PoolInv, Types
    <3>3. Ends(d) BY <1>4, <1>8, <2>4, <3>1, <3>2 DEF Ends, ReadPlaces
    <3> QED BY <1>1, <1>8, <2>2, <3>3 DEF FilesSame, ReaderSame
  <2> QED BY <2>3, <2>4
<1> QED BY <1>3, <1>10, <1>11

\* The application goes on to close the files of its document, or has closed them.
ClosesFiles(d) ==
  /\ UNCHANGED job
  /\ \/ /\ app[d] = "spooling" /\ app'[d] = "closing"
        /\ Is(d, "PENDING_DELETION") \/ ItemOf(d).SplWrite = Pages
        /\ ItemOf(d)' = ItemOf(d)
     \/ /\ app[d] = "closing" /\ app'[d] = "closed"
        /\ ItemOf(d)' = FPCloseFiles(ItemOf(d))

LEMMA EndDocDoes ==
  ASSUME PoolInv, NEW d \in Docs, EndDocPrinter(d) \/ EndDocCloses(d) \/ EndDocClosed(d)
  PROVE  /\ OnlyDoc(d) /\ job[d].queued /\ FilesSame(d) /\ ReaderSame(d)
         /\ app[d] \in {"spooling", "closing", "closed"}
         /\ app[d] = "spooling" => Is(d, "PENDING_DELETION") \/ ItemOf(d).SplWrite = Pages
         /\ ClosesFiles(d) \/ (app[d] \in {"spooling", "closed"} /\ (Spooled(d) \/ Ends(d)))
<1>1. job[d].queued /\ Has(d) BY AppJob DEF EndDocPrinter, EndDocCloses, EndDocClosed, AppRefs, Has
<1>2. UNCHANGED <<port, cancelling, reader, pool, disk, crashes>>
  BY DEF EndDocPrinter, EndDocCloses, EndDocClosed
<1>3. UNCHANGED <<port, hReadFile, read, CurrentNum, spl, shd, crashes>> BY <1>2 DEF reader, pool, disk
<1>4. CASE /\ EndDocPrinter(d) /\ AppAt(d, "closing") /\ UNCHANGED <<job, item>>
  <2>1. app'[d] = "closing" /\ \A c \in Docs : c # d => app'[c] = app[c]
    BY <1>4 DEF PoolInv, Types, AppAt
  <2>2. app[d] = "spooling" /\ (Is(d, "PENDING_DELETION") \/ ItemOf(d).SplWrite = Pages)
    BY <1>4 DEF EndDocPrinter
  <2>3. OnlyDoc(d) BY <1>3, <1>4, <2>1 DEF OnlyDoc
  <2>4. ClosesFiles(d) BY <1>4, <2>1, <2>2 DEF ClosesFiles, ItemOf
  <2> QED BY <1>1, <1>3, <2>2, <2>3, <2>4 DEF FilesSame, ReaderSame
<1>5. CASE EndDocPrinter(d) /\ EndSpooling(d)
  <2>1. app[d] = "spooling" /\ (Is(d, "PENDING_DELETION") \/ ItemOf(d).SplWrite = Pages)
    BY <1>5 DEF EndDocPrinter
  <2> QED BY <1>2, <1>5, <2>1, EndSpoolingDoes
<1>6. CASE EndDocClosed(d)
  <2>1. app[d] = "closed" /\ EndSpooling(d) BY <1>6 DEF EndDocClosed
  <2> QED BY <1>2, <2>1, EndSpoolingDoes
<1>7. CASE EndDocCloses(d)
  <2> DEFINE x == FPCloseFiles(ItemOf(d))
  <2>1. app[d] = "closing" /\ SetItem(d, x) /\ UNCHANGED job BY <1>7 DEF EndDocCloses
  <2>2. app'[d] = "closed" /\ \A c \in Docs : c # d => app'[c] = app[c]
    BY <1>7 DEF EndDocCloses, PoolInv, Types, AppAt
  <2>3. item'[job[d].hFileItem] = x /\ \A i \in Items : i # job[d].hFileItem => item'[i] = item[i]
    <3> HIDE DEF x
    <3> QED BY <1>1, <2>1, ItemSet
  <2>4. ItemOf(d)' = x
    <3> HIDE DEF x
    <3> QED BY <2>1, <2>3 DEF ItemOf
  <2>5. ClosesFiles(d) BY <2>1, <2>2, <2>4 DEF ClosesFiles
  <2> HIDE DEF x
  <2>6. OnlyDoc(d) BY <1>3, <2>1, <2>2, <2>3 DEF OnlyDoc
  <2> QED BY <1>1, <1>3, <2>1, <2>5, <2>6 DEF FilesSame, ReaderSame
<1> QED BY <1>4, <1>5, <1>6, <1>7 DEF EndDocPrinter

\* The port gets the handle that it reads from.
StartsReading(d) ==
  /\ port[d] = "open" /\ port'[d] = "reading" /\ ~ Is(d, "PENDING_DELETION")
  /\ read' = read /\ ItemOf(d)' = GetReaderFromHandle(ItemOf(d))
  /\ hReadFile'[d] = IF ReadsFromWriter(ItemOf(d)) THEN "SplWrite" ELSE "SplRead"

\* It moves the handle.
MovesReader(d, n, p) ==
  /\ ItemOf(d)' = [ItemOf(d) EXCEPT ![hReadFile[d]] = n] /\ port'[d] = p

LEMMA OpenPrinterDoes ==
  ASSUME PoolInv, NEW d \in Docs, OpenPrinter(d), ~ Is(d, "PENDING_DELETION")
  PROVE  /\ OnlyDoc(d) /\ job[d].queued /\ FilesSame(d) /\ UNCHANGED <<app, job>>
         /\ StartsReading(d)
<1> DEFINE x == GetReaderFromHandle(ItemOf(d))
           hd == IF ReadsFromWriter(ItemOf(d)) THEN "SplWrite" ELSE "SplRead"
<1>1. job[d].queued /\ Has(d) BY AppJob DEF OpenPrinter, PortRefs, Has
<1>2. /\ port[d] = "open" /\ port' = [port EXCEPT ![d] = "reading"] /\ SetItem(d, x)
      /\ hReadFile' = [hReadFile EXCEPT ![d] = hd]
      /\ UNCHANGED <<app, job, read, CurrentNum, spl, shd, crashes>>
  BY DEF OpenPrinter, PortAt, pool, disk
<1>3. /\ port'[d] = "reading" /\ hReadFile'[d] = hd
      /\ \A c \in Docs : c # d => port'[c] = port[c] /\ hReadFile'[c] = hReadFile[c]
  <2> HIDE DEF hd
  <2> QED BY <1>2 DEF PoolInv, Types
<1>4. item'[job[d].hFileItem] = x /\ \A i \in Items : i # job[d].hFileItem => item'[i] = item[i]
  <2> HIDE DEF x
  <2> QED BY <1>1, <1>2, ItemSet
<1>5. ItemOf(d)' = x
  <2> HIDE DEF x
  <2> QED BY <1>2, <1>4 DEF ItemOf
<1>6. StartsReading(d) BY <1>2, <1>3, <1>5 DEF StartsReading
<1> HIDE DEF x, hd
<1>7. OnlyDoc(d) BY <1>2, <1>3, <1>4 DEF OnlyDoc
<1> QED BY <1>1, <1>2, <1>6, <1>7 DEF FilesSame

LEMMA ReadPrinterDoes ==
  ASSUME PoolInv, read \in [Docs -> Nat], NEW d \in Docs, ReadPrinter(d)
  PROVE  /\ OnlyDoc(d) /\ job[d].queued /\ FilesSame(d) /\ UNCHANGED <<app, job, hReadFile>>
         /\ port[d] = "reading" /\ ~ AtEnd(d) /\ read'[d] = read[d] + 1 /\ read' \in [Docs -> Nat]
         /\ hReadFile[d] # "none" => MovesReader(d, Position(d) + 1, "reading")
<1>1. job[d].queued /\ Has(d) BY AppJob DEF ReadPrinter, PortRefs, Has
<1> DEFINE x == [ItemOf(d) EXCEPT ![hReadFile[d]] = @ + 1]
           n == read[d] + 1
<1>2. /\ port[d] = "reading" /\ ~ AtEnd(d) /\ SetItem(d, x)
      /\ UNCHANGED <<app, port, job, hReadFile, CurrentNum, spl, shd, crashes>>
  BY DEF ReadPrinter, pool, disk
<1>3. item'[job[d].hFileItem] = x /\ \A i \in Items : i # job[d].hFileItem => item'[i] = item[i]
  <2> HIDE DEF x
  <2> QED BY <1>1, <1>2, ItemSet
<1>4. ItemOf(d)' = x
  <2> HIDE DEF x
  <2> QED BY <1>2, <1>3 DEF ItemOf
<1>5. hReadFile[d] # "none" => x = [ItemOf(d) EXCEPT ![hReadFile[d]] = Position(d) + 1]
  BY DEF Position
<1>6. read' = [read EXCEPT ![d] = n] BY DEF ReadPrinter
<1>7. n \in Nat OBVIOUS
<1> HIDE DEF n
<1>9. /\ read' \in [Docs -> Nat] /\ read'[d] = n
      /\ \A c \in Docs : c # d => read'[c] = read[c]
  BY <1>6, <1>7
<1> HIDE DEF x
<1>8. OnlyDoc(d) BY <1>2, <1>3, <1>9 DEF OnlyDoc
<1> QED BY <1>1, <1>2, <1>4, <1>5, <1>8, <1>9 DEF FilesSame, MovesReader, n

LEMMA ClosePrinterDoes ==
  ASSUME PoolInv, read \in [Docs -> Nat], NEW d \in Docs, ClosePrinter(d)
  PROVE  /\ OnlyDoc(d) /\ job[d].queued /\ FilesSame(d) /\ UNCHANGED <<app, job>>
         /\ port[d] \in {"sent", "stopped"} /\ read'[d] = 0 /\ read' \in [Docs -> Nat]
         /\ MovesReader(d, 0, "printed")
<1> DEFINE x == [ItemOf(d) EXCEPT ![hReadFile[d]] = 0]
<1>1. job[d].queued /\ Has(d) BY AppJob DEF ClosePrinter, PortRefs, Has
<1>2. /\ port[d] \in {"sent", "stopped"} /\ SetItem(d, x) /\ port' = [port EXCEPT ![d] = "printed"]
      /\ hReadFile' = [hReadFile EXCEPT ![d] = "none"] /\ read' = [read EXCEPT ![d] = 0]
      /\ UNCHANGED <<app, job, CurrentNum, spl, shd, crashes>>
  BY DEF ClosePrinter, PortAt, pool, disk
<1>3. /\ port'[d] = "printed" /\ read'[d] = 0 /\ read' \in [Docs -> Nat]
      /\ \A c \in Docs : c # d =>
           port'[c] = port[c] /\ hReadFile'[c] = hReadFile[c] /\ read'[c] = read[c]
  BY <1>2 DEF PoolInv, Types
<1>4. item'[job[d].hFileItem] = x /\ \A i \in Items : i # job[d].hFileItem => item'[i] = item[i]
  <2> HIDE DEF x
  <2> QED BY <1>1, <1>2, ItemSet
<1>5. ItemOf(d)' = x
  <2> HIDE DEF x
  <2> QED BY <1>2, <1>4 DEF ItemOf
<1>6. MovesReader(d, 0, "printed") BY <1>3, <1>5 DEF MovesReader
<1> HIDE DEF x
<1>7. OnlyDoc(d) BY <1>2, <1>3, <1>4 DEF OnlyDoc
<1> QED BY <1>1, <1>2, <1>3, <1>6, <1>7 DEF FilesSame

----------------------------------------------------------------------------
(* The handles stay where they should be.                                   *)

\* What is left to show of a step of one document.
LEMMA HandlesAfter ==
  ASSUME PoolInv, HandleInv, NEW d \in Docs, Has(d), OnlyDoc(d), read' \in [Docs -> Nat],
         InFile(item'[job[d].hFileItem]), Paged(spl'[job[d].hFileItem].data),
         spl'[job[d].hFileItem].exists \in BOOLEAN, Writer(d)', Reader(d)'
  PROVE  HandleInv'
<1>1. HandleTypes' BY DEF HandleInv, HandleTypes, OnlyDoc
<1>2. ASSUME NEW c \in Docs, c # d PROVE Writer(c)' /\ Reader(c)'
  <2>1. /\ app'[c] = app[c] /\ port'[c] = port[c] /\ job'[c] = job[c]
        /\ hReadFile'[c] = hReadFile[c] /\ read'[c] = read[c]
    BY <1>2 DEF OnlyDoc
  <2>2. Writer(c) /\ Reader(c) BY DEF HandleInv
  <2>3. CASE Has(c)
    <3>1. job[c].hFileItem \in Items /\ job[c].hFileItem # job[d].hFileItem
      BY <1>2, <2>3, DocFacts DEF PoolInv, Ownership, OneOwner
    <3>2. ItemOf(c)' = ItemOf(c) /\ File(c)' = File(c) BY <2>1, <3>1 DEF OnlyDoc, ItemOf, File
    <3>3. Writer(c)' BY <2>1, <2>2, <3>2 DEF Writer, Is
    <3>4. Reader(c)' BY <2>1, <2>2, <3>2 DEF Reader, Is, Position, Has
    <3> QED BY <3>3, <3>4
  <2>4. CASE ~ Has(c)
    <3>1. app[c] \notin WritePlaces /\ port[c] = "none" /\ ~ job[c].queued BY <2>4, HasNone
    <3>2. Writer(c)' BY <2>1, <3>1 DEF Writer, WritePlaces
    <3>3. read[c] = 0 BY <2>2, <3>1 DEF Reader, ReadPlaces
    <3>4. Reader(c)' BY <2>1, <2>4, <3>1, <3>3 DEF Reader, ReadPlaces, Has
    <3> QED BY <3>2, <3>4
  <2> QED BY <2>3, <2>4
<1> QED BY <1>1, <1>2 DEF HandleInv

\* What is known of a document that has an item.
LEMMA HandleFacts ==
  ASSUME PoolInv, HandleInv, NEW d \in Docs, Has(d)
  PROVE  /\ InFile(ItemOf(d)) /\ Paged(File(d).data) /\ File(d).exists \in BOOLEAN
         /\ File(d) = spl[job[d].hFileItem] /\ ItemOf(d) = item[job[d].hFileItem]
         /\ ItemOf(d) \in ItemRecs /\ read \in [Docs -> Nat] /\ Writer(d) /\ Reader(d)
         /\ hReadFile[d] \in {"none", "SplWrite", "SplRead"} /\ Pages \in Nat
BY DocFacts, Known DEF HandleInv, HandleTypes, File, PoolInv, Types

LEMMA SimpleKeeps ==
  ASSUME PoolInv, HandleInv, NEW d \in Docs, job[d].queued, OnlyDoc(d), Simple(d)
  PROVE  HandleInv'
<1>1. Has(d) BY DEF Has
<1> DEFINE it == ItemOf(d)
           x == ItemOf(d)'
<1>2. /\ x.SplWrite = it.SplWrite /\ x.SplRead = it.SplRead
      /\ "SPL_WRITING" \in x.Status <=> "SPL_WRITING" \in it.Status
      /\ "SPL_READING" \in x.Status <=> "SPL_READING" \in it.Status
      /\ job'[d].queued /\ job'[d].hFileItem = job[d].hFileItem
      /\ Is(d, "SPOOLING")' <=> Is(d, "SPOOLING")
      /\ Is(d, "PENDING_DELETION") => Is(d, "PENDING_DELETION")'
  BY DEF Simple, Becomes, SameHandles, Is
<1>3. /\ File(d)' = File(d) /\ spl'[job[d].hFileItem] = File(d) /\ item'[job[d].hFileItem] = x
  BY <1>2 DEF Simple, File, ItemOf
<1>4. /\ InFile(it) /\ Paged(File(d).data) /\ File(d).exists \in BOOLEAN
      /\ read \in [Docs -> Nat] /\ Writer(d) /\ Reader(d)
      /\ hReadFile[d] \in {"none", "SplWrite", "SplRead"}
  BY <1>1, HandleFacts
<1> HIDE DEF x, it
<1>5. InFile(x) BY <1>2, <1>4 DEF InFile
<1>6. app'[d] = app[d] \/ {app[d], app'[d]} \cap WritePlaces = {} BY DEF Simple, WritePlaces
<1>7. Writer(d)'
  <2>1. CASE app'[d] = app[d] BY <1>2, <1>3, <1>4, <2>1 DEF Writer, x, it
  <2>2. CASE app'[d] \notin WritePlaces BY <2>2 DEF Writer, WritePlaces
  <2> QED BY <1>6, <2>1, <2>2
<1>8. hReadFile'[d] = hReadFile[d] /\ read' = read
  BY DEF Simple
<1>9. Position(d)' = Position(d) \/ hReadFile[d] = "none"
  BY <1>2, <1>4, <1>8 DEF Position, x, it
<1>10. Reader(d)'
  <2>1. CASE port'[d] = port[d]
    BY <1>1, <1>2, <1>3, <1>4, <1>8, <1>9, <2>1 DEF Reader, x, it
  <2>2. CASE port[d] \notin ReadPlaces /\ port'[d] \notin ReadPlaces
    <3>1. "SPL_READING" \in it.Status => Is(d, "PENDING_DELETION")
      BY <1>4, <2>2 DEF Reader, ReadPlaces, it
    <3>2. "SPL_READING" \notin it.Status => it.SplRead \in {Closed, 0}
      BY <1>1, <1>4 DEF Reader, it
    <3>3. read[d] = 0 BY <1>4, <2>2 DEF Reader
    <3> QED BY <1>2, <1>8, <2>2, <3>1, <3>2, <3>3 DEF Reader, x, it
  <2>3. CASE port[d] \in ReadPlaces /\ port'[d] \in ReadPlaces /\ "PENDING_DELETION" \in job'[d].Status
    <3>1. Is(d, "PENDING_DELETION")' BY <2>3 DEF Is
    <3> QED BY <1>1, <1>2, <1>3, <1>4, <1>8, <1>9, <2>3, <3>1 DEF Reader, x, it
  <2> QED BY <2>1, <2>2, <2>3 DEF Simple
<1> QED BY <1>1, <1>3, <1>4, <1>5, <1>7, <1>8, <1>10, HandlesAfter

LEMMA EndsKeeps ==
  ASSUME PoolInv, HandleInv, NEW d \in Docs, Has(d), OnlyDoc(d), Ends(d)
  PROVE  HandleInv'
<1> DEFINE x == item'[job[d].hFileItem]
<1>1. /\ InFile(ItemOf(d)) /\ Paged(File(d).data) /\ File(d).exists \in BOOLEAN
      /\ read \in [Docs -> Nat] /\ Reader(d) /\ Pages \in Nat
  BY HandleFacts
<1>2. x.SplWrite \in {ItemOf(d).SplWrite, Closed} /\ x.SplRead \in {ItemOf(d).SplRead, Closed}
  BY DEF Ends, Gone
<1>3. InFile(x)
  <2>1. Closed \in Closed .. Pages BY <1>1 DEF Closed
  <2> QED BY <1>1, <1>2, <2>1 DEF InFile
<1>4. /\ spl'[job[d].hFileItem] = File(d) /\ read' = read /\ ~ job'[d].queued
      /\ app'[d] = "done" /\ port'[d] = "none" /\ port[d] \notin ReadPlaces
  BY DEF Ends, Gone, File
<1>5. Writer(d)' BY <1>4 DEF Writer, WritePlaces
<1>6. Reader(d)' BY <1>1, <1>4 DEF Reader, ReadPlaces, Has
<1> HIDE DEF x
<1> QED BY <1>1, <1>3, <1>4, <1>5, <1>6, HandlesAfter DEF x

\* While an application writes with the writer's handle, a port reads with the
\* other.
LEMMA TwoHandles ==
  ASSUME PoolInv, HandleInv, NEW d \in Docs, Has(d), app[d] \in WritePlaces, port[d] \in ReadPlaces
  PROVE  hReadFile[d] = "SplRead" /\ Position(d) = ItemOf(d).SplRead
BY HandleFacts DEF Writer, Reader, Position

LEMMA SpoolThisJobKeeps ==
  ASSUME PoolInv, HandleInv, NEW d \in Docs, SpoolThisJob(d)
  PROVE  HandleInv'
<1>1. /\ OnlyDoc(d) /\ Has(d) /\ FilesSame(d) /\ ReaderSame(d) /\ port[d] = "none"
      /\ Queued(d) \/ Ends(d)
  BY SpoolThisJobDoes
<1>2. CASE Ends(d) BY <1>1, <1>2, EndsKeeps
<1>3. CASE Queued(d)
  <2>1. /\ app[d] = "item" /\ app'[d] = "spooling"
        /\ job'[d].queued /\ job'[d].hFileItem = job[d].hFileItem /\ job'[d].Status = {"SPOOLING"}
        /\ item'[job[d].hFileItem] = item[job[d].hFileItem]
    BY <1>3 DEF Queued
  <2>2. ItemOf(d)' = ItemOf(d) /\ File(d)' = File(d) /\ spl'[job[d].hFileItem] = File(d)
    BY <1>1, <2>1 DEF ItemOf, File, FilesSame
  <2>3. /\ InFile(ItemOf(d)) /\ Paged(File(d).data) /\ File(d).exists \in BOOLEAN
        /\ read \in [Docs -> Nat] /\ Writer(d) /\ Reader(d)
    BY <1>1, HandleFacts
  <2>4. Writer(d)' BY <2>1, <2>2, <2>3 DEF Writer, WritePlaces, Is
  <2>5. "SPL_READING" \notin ItemOf(d).Status BY <2>1 DEF PoolInv, Users, NewItem
  <2>6. port'[d] = "none" /\ read' = read BY <1>1 DEF ReaderSame
  <2>7. Reader(d)' BY <1>1, <2>2, <2>3, <2>5, <2>6 DEF Reader, ReadPlaces
  <2>8. InFile(item'[job[d].hFileItem]) BY <2>1, <2>3 DEF ItemOf
  <2> QED BY <1>1, <2>2, <2>3, <2>4, <2>6, <2>7, <2>8, HandlesAfter
<1> QED BY <1>1, <1>2, <1>3

LEMMA WritePrinterKeeps ==
  ASSUME PoolInv, HandleInv, NEW d \in Docs, WritePrinter(d)
  PROVE  HandleInv'
<1> DEFINE n == ItemOf(d).SplWrite
           x == ItemOf(d)'
<1>1. /\ OnlyDoc(d) /\ job[d].queued /\ app[d] = "spooling" /\ ReaderSame(d)
      /\ UNCHANGED <<app, job>> /\ PageAdded(d)
  BY WritePrinterDoes
<1>2. Has(d) BY <1>1 DEF Has
<1>3. /\ InFile(ItemOf(d)) /\ Paged(File(d).data) /\ File(d).exists \in BOOLEAN
      /\ read \in [Docs -> Nat] /\ Writer(d) /\ Reader(d) /\ Pages \in Nat
  BY <1>2, HandleFacts
<1>4. /\ n \in 0 .. Pages - 1 /\ x.SplWrite = n + 1
      /\ x.SplRead = ItemOf(d).SplRead /\ x.Status = ItemOf(d).Status
      /\ spl'[job[d].hFileItem].data = WriteAt(File(d).data, n, d)
      /\ spl'[job[d].hFileItem].exists = File(d).exists
      /\ File(d)' = spl'[job[d].hFileItem] /\ item'[job[d].hFileItem] = x
  BY <1>1 DEF PageAdded, File, ItemOf
<1>5. File(d).data = Part(d, n) /\ "SPL_WRITING" \in ItemOf(d).Status /\ Is(d, "SPOOLING")
  BY <1>1, <1>3 DEF Writer, WritePlaces
<1>6. n \in Nat /\ n + 1 \in 0 .. Pages BY <1>3, <1>4
<1> HIDE DEF n, x
<1>7. /\ File(d)'.data = Part(d, n + 1) /\ Len(Part(d, n + 1)) = n + 1 /\ Part(d, n + 1) \in Seq(Docs)
      /\ Len(File(d).data) = n
  <2>1. /\ WriteAt(Part(d, n), n, d) = Part(d, n + 1) /\ Len(Part(d, n)) = n
    BY <1>6, PageWritten
  <2>2. Len(Part(d, n + 1)) = n + 1 /\ Part(d, n + 1) \in Seq(Docs)
    <3>1. n + 1 \in Nat BY <1>6
    <3> QED BY <3>1, PageWritten
  <2>3. File(d)'.data = WriteAt(File(d).data, n, d) BY <1>4
  <2> QED BY <1>5, <2>1, <2>2, <2>3
<1>8. Paged(spl'[job[d].hFileItem].data) /\ InFile(x)
  BY <1>3, <1>4, <1>6, <1>7, Known DEF Paged, InFile, Closed
<1>9. Writer(d)'
  <2>1. app'[d] = "spooling" /\ Is(d, "SPOOLING")' BY <1>1, <1>5 DEF Is
  <2>2. "SPL_WRITING" \in x.Status /\ x.SplWrite \in 0 .. Pages BY <1>4, <1>5, <1>6
  <2>3. File(d)'.data = Part(d, x.SplWrite) BY <1>4, <1>7
  <2> QED BY <2>1, <2>2, <2>3 DEF Writer, WritePlaces, Part, x
<1>10. port'[d] = port[d] /\ hReadFile'[d] = hReadFile[d] /\ read' = read BY <1>1 DEF ReaderSame
<1>11. Reader(d)'
  <2>1. port[d] \in ReadPlaces => /\ hReadFile[d] = "SplRead" /\ Position(d) = ItemOf(d).SplRead
                                  /\ Position(d)' = x.SplRead
    BY <1>1, <1>2, <1>10, TwoHandles DEF WritePlaces, Position, x
  <2>2. port[d] \in ReadPlaces => read[d] <= Len(File(d)'.data)
    BY <1>3, <1>6, <1>7 DEF Reader
  <2>3. Is(d, "PENDING_DELETION")' <=> Is(d, "PENDING_DELETION") BY <1>1 DEF Is
  <2>4. Has(d)' <=> Has(d) BY <1>1 DEF Has
  <2> QED BY <1>1, <1>3, <1>4, <1>10, <2>1, <2>2, <2>3, <2>4 DEF Reader, x
<1> QED BY <1>1, <1>2, <1>3, <1>4, <1>8, <1>9, <1>10, <1>11, HandlesAfter

LEMMA EndDocKeeps ==
  ASSUME PoolInv, HandleInv, NEW d \in Docs, EndDocPrinter(d) \/ EndDocCloses(d) \/ EndDocClosed(d)
  PROVE  HandleInv'
<1> DEFINE x == ItemOf(d)'
<1>1. /\ OnlyDoc(d) /\ job[d].queued /\ FilesSame(d) /\ ReaderSame(d)
      /\ app[d] \in {"spooling", "closing", "closed"}
      /\ ClosesFiles(d) \/ Spooled(d) \/ Ends(d)
  BY EndDocDoes
<1>2. Has(d) /\ app[d] \in WritePlaces BY <1>1 DEF Has, WritePlaces
<1>3. /\ InFile(ItemOf(d)) /\ Paged(File(d).data) /\ File(d).exists \in BOOLEAN
      /\ ItemOf(d) \in ItemRecs /\ read \in [Docs -> Nat] /\ Writer(d) /\ Reader(d) /\ Pages \in Nat
  BY <1>2, HandleFacts
<1>4. /\ spl'[job[d].hFileItem] = File(d)
      /\ port'[d] = port[d] /\ hReadFile'[d] = hReadFile[d] /\ read' = read
  BY <1>1 DEF FilesSame, ReaderSame, File
<1>5. port[d] \in ReadPlaces => hReadFile[d] = "SplRead" /\ Position(d) = ItemOf(d).SplRead
  BY <1>2, TwoHandles
<1>6. CASE Ends(d) BY <1>1, <1>2, <1>6, EndsKeeps
<1>7. ASSUME job'[d].queued, job'[d].hFileItem = job[d].hFileItem,
             Is(d, "PENDING_DELETION") => Is(d, "PENDING_DELETION")', InFile(x), Writer(d)',
             "SPL_READING" \in x.Status <=> "SPL_READING" \in ItemOf(d).Status,
             \/ x.SplRead = ItemOf(d).SplRead
             \/ "SPL_READING" \notin ItemOf(d).Status /\ x.SplRead = Closed
      PROVE  HandleInv'
  <2>1. File(d)' = File(d) /\ item'[job[d].hFileItem] = x BY <1>4, <1>7 DEF File, ItemOf
  <2>2. port[d] \in ReadPlaces => Position(d)' = Position(d) /\ "SPL_READING" \in ItemOf(d).Status
    BY <1>3, <1>4, <1>5, <1>7 DEF Position, Reader
  <2>3. Reader(d)'
    <3>1. ASSUME port[d] \in ReadPlaces
          PROVE  /\ "SPL_READING" \in x.Status /\ hReadFile'[d] = "SplRead"
                 /\ Position(d)' = read'[d] /\ read'[d] <= Len(File(d)'.data)
                 /\ port[d] # "reading" => Is(d, "PENDING_DELETION")'
      BY <1>3, <1>4, <1>5, <1>7, <2>1, <2>2, <3>1 DEF Reader
    <3>2. port[d] \notin ReadPlaces => read'[d] = 0 BY <1>3, <1>4 DEF Reader
    <3>3. "SPL_READING" \in x.Status => port'[d] = "reading" \/ Is(d, "PENDING_DELETION")'
      BY <1>1, <1>3, <1>4, <1>7 DEF Reader
    <3>4. "SPL_READING" \notin x.Status => x.SplRead \in {Closed, 0}
      BY <1>2, <1>3, <1>7 DEF Reader
    <3> QED BY <1>4, <3>1, <3>2, <3>3, <3>4 DEF Reader
  <2> QED BY <1>1, <1>2, <1>3, <1>4, <1>7, <2>1, <2>3, HandlesAfter
<1>8. CASE Spooled(d)
  <2> DEFINE w == FinishedWriting(ItemOf(d))
  <2>1. /\ app'[d] \in {"shadow", "done"} /\ job'[d].queued /\ job'[d].hFileItem = job[d].hFileItem
        /\ Is(d, "PENDING_DELETION") => Is(d, "PENDING_DELETION")'
        /\ x.SplWrite = w.SplWrite /\ x.SplRead = w.SplRead
        /\ "SPL_READING" \in x.Status <=> "SPL_READING" \in w.Status
    BY <1>8 DEF Spooled, SameHandles, Is
  <2>2. /\ w.SplWrite \in {ItemOf(d).SplWrite, Closed} /\ w.SplRead = ItemOf(d).SplRead
        /\ w.Status = ItemOf(d).Status \ {"SPL_WRITING"}
    BY <1>3, FinishedHandles, WritingFinished
  <2> HIDE DEF w
  <2>3. InFile(x)
    <3>1. Closed \in Closed .. Pages BY <1>3 DEF Closed
    <3> QED BY <1>3, <2>1, <2>2, <3>1 DEF InFile
  <2>4. Writer(d)' BY <2>1 DEF Writer, WritePlaces
  <2>5. "SPL_READING" \in x.Status <=> "SPL_READING" \in ItemOf(d).Status BY <2>1, <2>2
  <2>6. x.SplRead = ItemOf(d).SplRead BY <2>1, <2>2
  <2> QED BY <1>7, <2>1, <2>3, <2>4, <2>5, <2>6
<1>9. CASE ClosesFiles(d)
  <2>1. UNCHANGED job BY <1>9 DEF ClosesFiles
  <2>2. "SPL_WRITING" \in ItemOf(d).Status /\ Is(d, "SPOOLING") /\ File(d).data = Part(d, ItemOf(d).SplWrite)
    BY <1>1, <1>3 DEF Writer, WritePlaces
  <2>3. CASE /\ app[d] = "spooling" /\ app'[d] = "closing" /\ x = ItemOf(d)
             /\ Is(d, "PENDING_DELETION") \/ ItemOf(d).SplWrite = Pages
    <3>1. Writer(d)' BY <1>2, <1>3, <1>4, <2>1, <2>2, <2>3 DEF Writer, WritePlaces, File, Is
    <3> QED BY <1>1, <1>3, <1>7, <2>1, <2>3, <3>1 DEF Is
  <2>4. CASE app[d] = "closing" /\ app'[d] = "closed" /\ x = FPCloseFiles(ItemOf(d))
    <3> DEFINE y == FPCloseFiles(ItemOf(d))
    <3>1. /\ y.SplWrite = ItemOf(d).SplWrite
          /\ y.SplRead = IF "SPL_READING" \in ItemOf(d).Status THEN ItemOf(d).SplRead ELSE Closed
          /\ "SPL_WRITING" \in y.Status
          /\ "SPL_READING" \in y.Status <=> "SPL_READING" \in ItemOf(d).Status
      BY <1>3, <2>2, ClosedHandles
    <3>2. x = y BY <2>4
    <3> HIDE DEF y, x
    <3>3. InFile(x)
      <4>1. Closed \in Closed .. Pages BY <1>3 DEF Closed
      <4> QED BY <1>3, <3>1, <3>2, <4>1 DEF InFile
    <3>4. Writer(d)' BY <1>2, <1>3, <1>4, <2>1, <2>2, <2>4, <3>1, <3>2 DEF Writer, WritePlaces, File, Is, x
    <3>5. \/ x.SplRead = ItemOf(d).SplRead
          \/ "SPL_READING" \notin ItemOf(d).Status /\ x.SplRead = Closed
      BY <3>1, <3>2
    <3> QED BY <1>1, <1>7, <2>1, <3>1, <3>2, <3>3, <3>4, <3>5 DEF Is, x
  <2> QED BY <1>9, <2>3, <2>4 DEF ClosesFiles
<1> QED BY <1>1, <1>6, <1>8, <1>9

LEMMA OpenPrinterKeeps ==
  ASSUME PoolInv, HandleInv, NEW d \in Docs, OpenPrinter(d), ~ Is(d, "PENDING_DELETION")
  PROVE  HandleInv'
<1> DEFINE it == ItemOf(d)
           y == GetReaderFromHandle(ItemOf(d))
           x == ItemOf(d)'
<1>1. /\ OnlyDoc(d) /\ job[d].queued /\ FilesSame(d) /\ UNCHANGED <<app, job>>
      /\ StartsReading(d)
  BY OpenPrinterDoes
<1>2. Has(d) BY <1>1 DEF Has
<1>3. /\ InFile(it) /\ Paged(File(d).data) /\ File(d).exists \in BOOLEAN
      /\ it \in ItemRecs /\ read \in [Docs -> Nat] /\ Writer(d) /\ Reader(d) /\ Pages \in Nat
  BY <1>2, HandleFacts
<1>4. /\ port[d] = "open" /\ port'[d] = "reading" /\ read' = read /\ x = y
      /\ hReadFile'[d] = IF ReadsFromWriter(it) THEN "SplWrite" ELSE "SplRead"
  BY <1>1 DEF StartsReading
<1>5. "SPL_READING" \notin it.Status /\ it.SplRead \in {Closed, 0} /\ read[d] = 0
  BY <1>1, <1>2, <1>3, <1>4 DEF Reader, ReadPlaces
<1>6. /\ ReadsFromWriter(it) => y.SplWrite = 0 /\ y.SplRead = it.SplRead
      /\ ~ ReadsFromWriter(it) => y.SplRead = 0 /\ y.SplWrite = it.SplWrite
      /\ y.Status = it.Status \cup {"SPL_READING"}
  <2>1. y.Status = it.Status \cup {"SPL_READING"} BY <1>3, ReaderOfItem
  <2>2. ReadsFromWriter(it) => y.SplWrite = 0 /\ y.SplRead = it.SplRead
    BY <1>3, <1>5, ReaderHandles
  <2>3. ~ ReadsFromWriter(it) =>
          /\ y.SplRead = IF it.SplRead = Closed THEN 0 ELSE it.SplRead
          /\ y.SplWrite = it.SplWrite
    BY <1>3, <1>5, ReaderHandles
  <2> HIDE DEF y
  <2> QED BY <1>5, <2>1, <2>2, <2>3
<1>7. ReadsFromWriter(it) => "SPL_WRITING" \notin it.Status BY DEF ReadsFromWriter
<1>8. File(d)' = File(d) /\ item'[job[d].hFileItem] = x /\ spl'[job[d].hFileItem] = File(d)
  BY <1>1 DEF FilesSame, File, ItemOf
<1> HIDE DEF x, y, it
<1>9. InFile(x)
  <2>1. 0 \in Closed .. Pages BY <1>3 DEF Closed
  <2> QED BY <1>3, <1>4, <1>6, <2>1 DEF InFile
<1>10. Writer(d)'
  <2>1. app[d] \in WritePlaces => ~ ReadsFromWriter(it) /\ "SPL_WRITING" \in it.Status
    BY <1>3, <1>7 DEF Writer, it
  <2> QED BY <1>1, <1>3, <1>4, <1>6, <1>8, <2>1 DEF Writer, Is, x, it, WritePlaces
<1>11. Reader(d)'
  <2>1. Position(d)' = 0 /\ hReadFile'[d] # "none" BY <1>4, <1>6 DEF Position, x
  <2>2. Len(File(d)'.data) \in Nat BY <1>3, <1>8 DEF Paged
  <2>3. hReadFile'[d] = "SplWrite" => "SPL_WRITING" \notin x.Status BY <1>4, <1>6, <1>7
  <2> QED BY <1>4, <1>5, <1>6, <2>1, <2>2, <2>3 DEF Reader, ReadPlaces, x
<1> QED BY <1>1, <1>2, <1>3, <1>4, <1>8, <1>9, <1>10, <1>11, HandlesAfter

\* The handle a port reads with is moved to n, and what is written is not.
LEMMA ReaderMoves ==
  ASSUME PoolInv, HandleInv, NEW d \in Docs, job[d].queued, OnlyDoc(d), FilesSame(d),
         UNCHANGED <<app, job>>, port[d] \in ReadPlaces, NEW n \in 0 .. Pages, NEW p, MovesReader(d, n, p),
         read' \in [Docs -> Nat], read'[d] = n,
         p = "reading" => hReadFile'[d] = hReadFile[d] /\ n <= Len(File(d).data),
         p # "reading" => p \notin ReadPlaces /\ n = 0, p = "reading" <=> port[d] = "reading"
  PROVE  HandleInv'
<1> DEFINE it == ItemOf(d)
           x == ItemOf(d)'
           h == hReadFile[d]
<1>1. Has(d) BY DEF Has
<1>2. /\ InFile(it) /\ Paged(File(d).data) /\ File(d).exists \in BOOLEAN
      /\ it \in ItemRecs /\ Writer(d) /\ Reader(d) /\ Pages \in Nat
      /\ h \in {"none", "SplWrite", "SplRead"}
  BY <1>1, HandleFacts
<1>3. h \in {"SplWrite", "SplRead"} /\ (h = "SplWrite" => "SPL_WRITING" \notin it.Status)
      /\ "SPL_READING" \in it.Status
  BY <1>2 DEF Reader
<1>4. x = [it EXCEPT ![h] = n] /\ port'[d] = p BY DEF MovesReader
<1> HIDE DEF it, x, h
<1>5. /\ x[h] = n /\ x.Status = it.Status
      /\ h = "SplWrite" => x.SplWrite = n /\ x.SplRead = it.SplRead
      /\ h = "SplRead" => x.SplRead = n /\ x.SplWrite = it.SplWrite
  BY <1>2, <1>3, <1>4, OneHandleMoved
<1>6. File(d)' = File(d) /\ item'[job[d].hFileItem] = x /\ spl'[job[d].hFileItem] = File(d)
  BY DEF FilesSame, File, ItemOf, x
<1>7. InFile(x)
  <2>1. n \in Closed .. Pages BY <1>2 DEF Closed
  <2> QED BY <1>2, <1>3, <1>5, <2>1 DEF InFile
<1>8. Writer(d)'
  <2>1. app[d] \in WritePlaces => "SPL_WRITING" \in it.Status BY <1>2 DEF Writer, it
  <2>2. app[d] \in WritePlaces => x.SplWrite = it.SplWrite BY <1>3, <1>5, <2>1
  <2>3. app'[d] = app[d] /\ (Is(d, "SPOOLING")' <=> Is(d, "SPOOLING"))
        /\ (Is(d, "PENDING_DELETION")' <=> Is(d, "PENDING_DELETION"))
    BY DEF Is
  <2> QED BY <1>2, <1>5, <1>6, <2>2, <2>3 DEF Writer, x, it, WritePlaces
<1>9. Reader(d)'
  <2>1. "SPL_READING" \in x.Status BY <1>3, <1>5
  <2>2. CASE p = "reading"
    <3>1. Position(d)' = n BY <1>5, <2>2 DEF Position, x, h
    <3>2. hReadFile'[d] = h BY <2>2 DEF h
    <3> QED BY <1>3, <1>4, <1>5, <1>6, <2>1, <2>2, <3>1, <3>2 DEF Reader, ReadPlaces, x
  <2>3. CASE p # "reading"
    <3>1. Is(d, "PENDING_DELETION")' BY <1>2, <2>3 DEF Reader, Is, ReadPlaces
    <3> QED BY <1>4, <2>1, <2>3, <3>1 DEF Reader, x
  <2> QED BY <2>2, <2>3
<1> QED BY <1>1, <1>2, <1>6, <1>7, <1>8, <1>9, HandlesAfter

LEMMA ReadPrinterKeeps ==
  ASSUME PoolInv, HandleInv, NEW d \in Docs, ReadPrinter(d)
  PROVE  HandleInv'
<1>0. read \in [Docs -> Nat] BY DEF HandleInv, HandleTypes
<1>1. /\ OnlyDoc(d) /\ job[d].queued /\ FilesSame(d) /\ UNCHANGED <<app, job, hReadFile>>
      /\ port[d] = "reading" /\ ~ AtEnd(d) /\ read'[d] = read[d] + 1 /\ read' \in [Docs -> Nat]
      /\ hReadFile[d] # "none" => MovesReader(d, Position(d) + 1, "reading")
  BY <1>0, ReadPrinterDoes
<1>2. Paged(File(d).data) /\ Reader(d) /\ Pages \in Nat BY <1>1, HandleFacts DEF Has
<1>3. hReadFile[d] # "none" /\ Position(d) = read[d] /\ port[d] \in ReadPlaces
  BY <1>1, <1>2 DEF Reader, ReadPlaces
<1>4. ~ (read[d] >= Len(File(d).data)) BY <1>1, <1>3 DEF AtEnd, File
<1> DEFINE n == read[d] + 1
<1>5. n \in 0 .. Pages /\ n <= Len(File(d).data) BY <1>0, <1>2, <1>4 DEF Paged
<1>6. MovesReader(d, n, "reading") /\ read'[d] = n BY <1>1, <1>3
<1> HIDE DEF n
<1> QED BY <1>1, <1>3, <1>5, <1>6, ReaderMoves

LEMMA ClosePrinterKeeps ==
  ASSUME PoolInv, HandleInv, NEW d \in Docs, ClosePrinter(d)
  PROVE  HandleInv'
<1>0. read \in [Docs -> Nat] BY DEF HandleInv, HandleTypes
<1>1. /\ OnlyDoc(d) /\ job[d].queued /\ FilesSame(d) /\ UNCHANGED <<app, job>>
      /\ port[d] \in {"sent", "stopped"} /\ read'[d] = 0 /\ read' \in [Docs -> Nat]
      /\ MovesReader(d, 0, "printed")
  BY <1>0, ClosePrinterDoes
<1>2. 0 \in 0 .. Pages /\ port[d] \in ReadPlaces /\ "printed" \notin ReadPlaces
  BY <1>1, Known DEF ReadPlaces
<1> QED BY <1>1, <1>2, ReaderMoves

----------------------------------------------------------------------------
(* A job begins with an empty spool file.                                   *)

\* Document d takes item i, which is free or of a new number.
Takes(d, i) ==
  LET x == item'[i] IN
  /\ x.phase = "used" /\ x.SplWrite = 0 /\ x.SplRead \in {Closed, 0}
  /\ "SPL_WRITING" \in x.Status /\ "SPL_READING" \notin x.Status
  /\ spl'[i] = [exists |-> TRUE, data |-> <<>>]
  /\ \/ item[i].phase = "free" /\ CurrentNum' = CurrentNum
     \/ item[i].phase = "none" /\ i >= CurrentNum /\ CurrentNum' = i + 1
  /\ app'[d] = "item" /\ ~ job'[d].queued /\ job'[d].hFileItem = i /\ read' = read
  /\ \A c \in Docs : c # d =>
       app'[c] = app[c] /\ port'[c] = port[c] /\ job'[c] = job[c] /\ hReadFile'[c] = hReadFile[c]
  /\ \A n \in Items : n # i => item'[n] = item[n] /\ spl'[n] = spl[n]
  /\ UNCHANGED <<port, shd, crashes>>

LEMMA StartDocPrinterDoes ==
  ASSUME PoolInv, FilesCanBeCreated, NEW d \in Docs, StartDocPrinter(d)
  PROVE  app[d] = "new" /\ ~ Has(d) /\ port[d] = "none" /\ \E i \in Items : Takes(d, i)
<1>1. Types /\ Ownership BY DEF PoolInv
<1>2. app[d] = "new" /\ ~ job[d].queued /\ ~ Has(d) /\ port[d] = "none"
  BY DEF StartDocPrinter, PoolInv, Users, RefsQueued, Has, PortRefs
<1>3. PICK i \in Items :
        /\ GetFreeItem(i) \/ GetNewItem(i)
        /\ job' = [job EXCEPT ![d].hFileItem = i] /\ app' = [app EXCEPT ![d] = "item"]
  BY DEF StartDocPrinter, CreateSplWriterFails, FilesCanBeCreated, AppAt
<1>4. UNCHANGED <<port, hReadFile, read, shd, crashes>> BY DEF StartDocPrinter, reader
<1> DEFINE k == [job[d] EXCEPT !.hFileItem = i]
<1>5. job' = [job EXCEPT ![d] = k] BY <1>1, <1>3 DEF Types
<1>6. k.hFileItem = i /\ k.queued = job[d].queued BY <1>1 DEF Types, JobRecs
<1> HIDE DEF k
<1>7. job'[d] = k /\ \A c \in Docs : c # d => job'[c] = job[c] BY <1>5, JobSet
<1>8. app'[d] = "item" /\ \A c \in Docs : c # d => app'[c] = app[c] BY <1>1, <1>3 DEF Types
<1>9. item[i] \in ItemRecs BY <1>1 DEF Types
<1>10. CASE GetFreeItem(i)
  <2> DEFINE y == [item[i] EXCEPT !.phase = "used", !.by = "none"]
             x == GetWriterFromHandle(y)
  <2>1. /\ FreeFiles # <<>> /\ i = Head(FreeFiles) /\ item' = [item EXCEPT ![i] = x]
        /\ spl' = spl /\ CurrentNum' = CurrentNum
    BY <1>10 DEF GetFreeItem
  <2>2. 1 \in DOMAIN FreeFiles /\ i = FreeFiles[1] BY <1>1, <2>1 DEF Types
  <2>3. item[i].phase = "free" BY <1>1, <2>2 DEF Ownership, FreeFilesReady
  <2>4. /\ spl[i].exists /\ spl[i].data = <<>> /\ item[i].SplWrite = 0
        /\ item[i].SplRead \in {Closed, 0} /\ "SPL_READING" \notin item[i].Status
    BY <1>1, <2>3 DEF Ownership, FreeFilesReady, FilesThere, InUse
  <2>5. /\ y \in ItemRecs /\ y.phase = "used" /\ y.Status = item[i].Status
        /\ y.SplWrite = item[i].SplWrite /\ y.SplRead = item[i].SplRead
    BY <1>9 DEF ItemRecs
  <2> HIDE DEF y
  <2>6. /\ x.phase = "used" /\ x.SplWrite = 0 /\ x.SplRead \in {Closed, 0}
        /\ "SPL_WRITING" \in x.Status /\ "SPL_READING" \notin x.Status
    BY <2>4, <2>5, WriterOfItem, WriterHandles DEF Same, Closed
  <2> HIDE DEF x
  <2>7. item'[i] = x /\ \A n \in Items : n # i => item'[n] = item[n] BY <1>1, <2>1 DEF Types
  <2>8. spl'[i] = [exists |-> TRUE, data |-> <<>>]
    <3>1. spl[i] = [exists |-> spl[i].exists, data |-> spl[i].data] /\ spl[i].exists \in BOOLEAN
      BY <1>1, <2>4 DEF Types
    <3> QED BY <2>1, <2>4, <3>1
  <2>9. Takes(d, i) BY <1>2, <1>4, <1>6, <1>7, <1>8, <2>1, <2>3, <2>6, <2>7, <2>8 DEF Takes
  <2> QED BY <1>2, <2>9
<1>11. CASE GetNewItem(i)
  <2> DEFINE y == [NoItem EXCEPT !.phase = "used"]
             x == GetWriterFromHandle(y)
             e == [exists |-> TRUE, data |-> <<>>]
  <2>1. /\ item' = [item EXCEPT ![i] = x] /\ spl' = [spl EXCEPT ![i] = e]
        /\ CurrentNum' = i + 1 /\ i >= CurrentNum /\ ~ spl[i].exists
    BY <1>11 DEF GetNewItem, NextNumber
  <2>2. item[i].phase = "none" BY <1>1, <2>1 DEF Ownership, FilesThere
  <2>3. y \in ItemRecs /\ y.phase = "used" /\ y.Status = {} BY NewItemTypes
  <2>4. y.SplWrite = Closed /\ y.SplRead = Closed BY DEF NoItem
  <2> HIDE DEF y
  <2>5. /\ x.phase = "used" /\ x.SplWrite = 0 /\ x.SplRead \in {Closed, 0}
        /\ "SPL_WRITING" \in x.Status /\ "SPL_READING" \notin x.Status
    BY <2>3, <2>4, WriterOfItem, WriterHandles DEF Same, Closed
  <2> HIDE DEF x, e
  <2>6. item'[i] = x /\ \A n \in Items : n # i => item'[n] = item[n] BY <1>1, <2>1 DEF Types
  <2>7. spl'[i] = e /\ \A n \in Items : n # i => spl'[n] = spl[n] BY <1>1, <2>1 DEF Types
  <2>8. Takes(d, i) BY <1>2, <1>4, <1>6, <1>7, <1>8, <2>1, <2>2, <2>5, <2>6, <2>7 DEF Takes, e
  <2> QED BY <1>2, <2>8
<1> QED BY <1>3, <1>10, <1>11

LEMMA StartDocPrinterKeeps ==
  ASSUME PoolInv, FilesCanBeCreated, HandleInv, NEW d \in Docs, StartDocPrinter(d)
  PROVE  HandleInv'
<1>1. app[d] = "new" /\ ~ Has(d) /\ port[d] = "none" BY StartDocPrinterDoes
<1>2. PICK i \in Items : Takes(d, i) BY StartDocPrinterDoes
<1>3. /\ item'[i].SplWrite = 0 /\ item'[i].SplRead \in {Closed, 0}
      /\ "SPL_WRITING" \in item'[i].Status /\ "SPL_READING" \notin item'[i].Status
      /\ spl'[i].exists = TRUE /\ spl'[i].data = <<>> /\ item[i].phase # "used"
      /\ app'[d] = "item" /\ ~ job'[d].queued /\ job'[d].hFileItem = i /\ read' = read
      /\ \A c \in Docs : c # d =>
           app'[c] = app[c] /\ port'[c] = port[c] /\ job'[c] = job[c] /\ hReadFile'[c] = hReadFile[c]
      /\ \A n \in Items : n # i => item'[n] = item[n] /\ spl'[n] = spl[n]
      /\ port' = port /\ crashes' = crashes
      /\ CurrentNum' = CurrentNum \/ CurrentNum' = i + 1
  BY <1>2 DEF Takes
<1>4. Pages \in Nat /\ i \in Nat BY Known
<1>5. HandleTypes'
  <2>1. InFile(item'[i]) /\ Paged(spl'[i].data) BY <1>3, <1>4 DEF InFile, Paged, Closed
  <2>2. HandleTypes BY DEF HandleInv
  <2>3. CurrentNum' \in Nat BY <1>3, <1>4, <2>2 DEF HandleTypes
  <2>4. ASSUME NEW n \in Items
        PROVE  InFile(item'[n]) /\ Paged(spl'[n].data) /\ spl'[n].exists \in BOOLEAN
    BY <1>3, <2>1, <2>2 DEF HandleTypes
  <2> QED BY <1>3, <2>2, <2>3, <2>4 DEF HandleTypes
<1>6. Writer(d)'
  <2>1. Part(d, 0) = <<>>
    <3>1. Part(d, 0) \in Seq(Docs) /\ Len(Part(d, 0)) = 0 BY PageWritten
    <3> QED BY <3>1
  <2>2. ItemOf(d)' = item'[i] /\ File(d)' = spl'[i] BY <1>3 DEF ItemOf, File
  <2> QED BY <1>3, <1>4, <2>1, <2>2 DEF Writer, WritePlaces, Part
<1>7. Reader(d)'
  <2>1. ItemOf(d)' = item'[i] BY <1>3 DEF ItemOf
  <2>2. read[d] = 0 BY <1>1 DEF HandleInv, Reader, ReadPlaces
  <2> QED BY <1>1, <1>3, <2>1, <2>2 DEF Reader, ReadPlaces
<1>8. ASSUME NEW c \in Docs, c # d PROVE Writer(c)' /\ Reader(c)'
  <2>1. Writer(c) /\ Reader(c) BY DEF HandleInv
  <2>2. CASE Has(c)
    <3>1. job[c].hFileItem \in Items /\ job[c].hFileItem # i
      BY <1>3, <2>2 DEF PoolInv, Ownership, OwnersHave, ItemOf
    <3>2. ItemOf(c)' = ItemOf(c) /\ File(c)' = File(c) BY <1>3, <1>8, <3>1 DEF ItemOf, File
    <3>3. Writer(c)' BY <1>3, <1>8, <2>1, <3>2 DEF Writer, Is
    <3>4. Reader(c)' BY <1>3, <1>8, <2>1, <3>2 DEF Reader, Is, Position, Has
    <3> QED BY <3>3, <3>4
  <2>3. CASE ~ Has(c)
    <3>1. app[c] \notin WritePlaces /\ port[c] = "none" /\ ~ job[c].queued BY <2>3, HasNone
    <3>2. Writer(c)' BY <1>3, <1>8, <3>1 DEF Writer, WritePlaces
    <3>3. read[c] = 0 BY <2>1, <3>1 DEF Reader, ReadPlaces
    <3>4. Reader(c)' BY <1>3, <1>8, <2>3, <3>1, <3>3 DEF Reader, ReadPlaces, Has
    <3> QED BY <3>2, <3>4
  <2> QED BY <2>2, <2>3
<1> QED BY <1>5, <1>6, <1>7, <1>8 DEF HandleInv

----------------------------------------------------------------------------
(* Items that nobody has, the scheduler, and a restart.                     *)

\* A step that changes only items that nobody has: they are emptied or deleted,
\* their shadow files first.
Unused ==
  /\ UNCHANGED <<app, port, job, hReadFile, read, CurrentNum, crashes>>
  /\ \A n \in Items :
       /\ item[n].phase = "used" => item'[n] = item[n] /\ spl'[n] = spl[n]
       /\ shd'[n] = shd[n] \/ shd'[n].file # "good"
       /\ spl'[n] = spl[n] \/ ~ spl'[n].exists \/ item[n].phase = "truncate"
       /\ \/ item'[n].phase = item[n].phase /\ item'[n].Shd = item[n].Shd
          \/ item[n].phase = "leaving" /\ item'[n].phase = "truncate"
               /\ (item[n].Shd => shd'[n].file # "good")
          \/ item[n].phase \in {"truncate", "free"} /\ item'[n].phase \in {"free", "delete"}
          \/ item'[n].phase = "none"

\* And puts no handle anywhere else than at the beginning.
HandlesStay ==
  \A n \in Items :
    /\ item'[n].SplWrite \in {item[n].SplWrite, 0, Closed}
    /\ item'[n].SplRead \in {item[n].SplRead, 0, Closed}
    /\ spl'[n] = spl[n] \/ (spl'[n].data = <<>> /\ spl'[n].exists \in {spl[n].exists, FALSE})

LEMMA TruncateShadowDoes ==
  ASSUME PoolInv, NEW i \in Items, TruncateShadow(i)
  PROVE  Unused /\ HandlesStay
<1> DEFINE x == [item[i] EXCEPT !.phase = "truncate"]
           e == [NoShd EXCEPT !.file = "empty"]
<1>1. /\ item[i].phase = "leaving" /\ item' = [item EXCEPT ![i] = x]
      /\ shd' = IF item[i].Shd THEN [shd EXCEPT ![i] = e] ELSE shd
      /\ UNCHANGED <<app, port, job, hReadFile, read, CurrentNum, crashes, spl>>
  BY ItemFrame DEF TruncateShadow, reader, pool
<1>2. x.phase = "truncate" /\ x.SplWrite = item[i].SplWrite /\ x.SplRead = item[i].SplRead
  BY ItemFrame DEF ItemRecs
<1> HIDE DEF x
<1>3. e.file # "good" BY NoFiles
<1> HIDE DEF e
<1>4. item'[i] = x /\ \A n \in Items : n # i => item'[n] = item[n] BY <1>1, ItemFrame
<1>5. /\ \A n \in Items : shd'[n] = shd[n] \/ shd'[n].file # "good"
      /\ item[i].Shd => shd'[i].file # "good"
  BY <1>1, <1>3, ItemFrame
<1>6. HandlesStay BY <1>1, <1>2, <1>4 DEF HandlesStay
<1> QED BY <1>1, <1>2, <1>4, <1>5, <1>6 DEF Unused

LEMMA TruncateSpoolDoes ==
  ASSUME PoolInv, NEW i \in Items, TruncateSpool(i)
  PROVE  Unused /\ HandlesStay
<1> DEFINE r == IF item[i].SplWrite # Closed /\ item[i].SplRead # Closed THEN 0 ELSE Closed
           t == [item[i] EXCEPT !.SplWrite = 0, !.SplRead = r]
           x == [t EXCEPT !.phase = "free", !.by = "none"]
<1>1. /\ item[i].phase = "truncate"
      /\ item' = [item EXCEPT ![i] = [Truncated(item[i]) EXCEPT !.phase = "free", !.by = "none"]]
      /\ spl' = [spl EXCEPT ![i].data = <<>>]
      /\ UNCHANGED <<app, port, job, hReadFile, read, CurrentNum, crashes, shd>>
  BY DEF TruncateSpool, reader
<1>2. [Truncated(item[i]) EXCEPT !.phase = "free", !.by = "none"] = x BY DEF Truncated
<1>3. r \in {0, Closed} OBVIOUS
<1> HIDE DEF r
<1>4. t.SplWrite = 0 /\ t.SplRead = r /\ DOMAIN t = DOMAIN item[i]
      /\ DOMAIN item[i] = {"phase", "Status", "SplWrite", "SplRead", "Shd", "by"}
  BY ItemFrame DEF ItemRecs
<1> HIDE DEF t
<1>5. x.phase = "free" /\ x.SplWrite = 0 /\ x.SplRead = r BY <1>4
<1> HIDE DEF x
<1>6. item'[i] = x /\ \A n \in Items : n # i => item'[n] = item[n] BY <1>1, <1>2, ItemFrame
<1>7. Types BY DEF PoolInv
<1>8. /\ \A n \in Items : spl'[n].exists = spl[n].exists /\ (n # i => spl'[n] = spl[n])
      /\ spl'[i].data = <<>>
  <2>1. spl' = [spl EXCEPT ![i].data = <<>>] BY <1>1
  <2>2. \A n \in Items : spl'[n].exists = spl[n].exists /\ (n # i => spl'[n] = spl[n])
    BY <1>7, <2>1, SpoolFileWritten
  <2>3. spl'[i].data = <<>> BY <1>7, <2>1, SpoolFileWritten
  <2> QED BY <2>2, <2>3
<1>9. HandlesStay BY <1>3, <1>5, <1>6, <1>8 DEF HandlesStay
<1> QED BY <1>1, <1>5, <1>6, <1>8, <1>9 DEF Unused

LEMMA DeleteFilesDo ==
  ASSUME PoolInv, NEW i \in Items, DeleteSpool(i) \/ DeleteShadow(i) \/ TimePasses(i)
  PROVE  Unused /\ HandlesStay
<1>1. CASE DeleteSpool(i)
  <2>1. /\ item[i].phase # "used" /\ item' = [item EXCEPT ![i] = NoItem]
        /\ spl' = [spl EXCEPT ![i] = NoSpl]
        /\ UNCHANGED <<app, port, job, hReadFile, read, CurrentNum, crashes, shd>>
    BY <1>1 DEF DeleteSpool, reader, pool
  <2>2. /\ item'[i] = NoItem /\ spl'[i] = NoSpl
        /\ \A n \in Items : n # i => item'[n] = item[n] /\ spl'[n] = spl[n]
    BY <2>1, ItemFrame
  <2>3. /\ NoItem.phase = "none" /\ NoItem.SplWrite = Closed /\ NoItem.SplRead = Closed
        /\ NoSpl.exists = FALSE /\ NoSpl.data = <<>>
    BY DEF NoItem, NoSpl
  <2>4. HandlesStay BY <2>2, <2>3 DEF HandlesStay
  <2> QED BY <2>1, <2>2, <2>3, <2>4 DEF Unused
<1>2. CASE DeleteShadow(i)
  <2>1. /\ shd' = shd \/ shd' = [shd EXCEPT ![i] = NoShd]
        /\ UNCHANGED <<app, port, job, hReadFile, read, CurrentNum, crashes, item, spl>>
    BY <1>2 DEF DeleteShadow, reader, pool
  <2>2. \A n \in Items : shd'[n] = shd[n] \/ shd'[n].file # "good" BY <2>1, NoFiles, ItemFrame
  <2> QED BY <2>1, <2>2 DEF Unused, HandlesStay
<1>3. CASE TimePasses(i)
  BY <1>3 DEF TimePasses, Unused, HandlesStay, reader, disk
<1> QED BY <1>1, <1>2, <1>3

LEMMA TrimPoolDoes ==
  ASSUME PoolInv, TrimPool
  PROVE  Unused /\ HandlesStay
<1>1. PICK n \in 0 .. Len(FreeFiles) :
        item' = [i \in Items |-> IF i \in {FreeFiles[k] : k \in 1 .. n}
                   THEN [FPCloseFiles(item[i]) EXCEPT !.phase = "delete", !.by = "TrimPool"]
                   ELSE item[i]]
  BY DEF TrimPool
<1> DEFINE trimmed == {FreeFiles[k] : k \in 1 .. n}
<1>2. UNCHANGED <<app, port, job, hReadFile, read, CurrentNum, crashes, spl, shd>>
  BY DEF TrimPool, reader, disk
<1>3. /\ \A i \in Items : (\E k \in DOMAIN FreeFiles : FreeFiles[k] = i) <=> item[i].phase = "free"
      /\ FreeFiles \in Seq(Items)
  BY ItemFrame DEF FreeFilesReady
<1>4. \A i \in Items : i \in trimmed => item[i].phase = "free"
  <2>1. \A k \in 1 .. n : k \in DOMAIN FreeFiles BY <1>3
  <2> QED BY <1>3, <2>1
<1>5. \A i \in Items :
        item'[i] = IF i \in trimmed
                     THEN [FPCloseFiles(item[i]) EXCEPT !.phase = "delete", !.by = "TrimPool"]
                     ELSE item[i]
  BY <1>1
<1> HIDE DEF trimmed
<1>6. ASSUME NEW i \in Items, i \in trimmed
      PROVE  /\ item'[i].phase = "delete"
             /\ item'[i].SplWrite \in {item[i].SplWrite, Closed}
             /\ item'[i].SplRead \in {item[i].SplRead, Closed}
  <2> DEFINE y == FPCloseFiles(item[i])
             z == [y EXCEPT !.phase = "delete", !.by = "TrimPool"]
  <2>1. item[i] \in ItemRecs BY ItemFrame
  <2>2. /\ y \in ItemRecs /\ y.SplWrite \in {item[i].SplWrite, Closed}
        /\ y.SplRead \in {item[i].SplRead, Closed}
    BY <2>1, FilesClosed, ClosedHandles DEF Same
  <2>3. item'[i] = z BY <1>5, <1>6
  <2> HIDE DEF y
  <2>4. z.phase = "delete" /\ z.SplWrite = y.SplWrite /\ z.SplRead = y.SplRead BY <2>2 DEF ItemRecs
  <2> HIDE DEF z
  <2> QED BY <2>2, <2>3, <2>4
<1>7. \A i \in Items : i \notin trimmed => item'[i] = item[i] BY <1>5
<1>8. HandlesStay BY <1>2, <1>6, <1>7 DEF HandlesStay
<1>9. Unused BY <1>2, <1>4, <1>6, <1>7 DEF Unused
<1> QED BY <1>8, <1>9

LEMMA UnusedKeeps ==
  ASSUME PoolInv, HandleInv, Unused, HandlesStay
  PROVE  HandleInv'
<1>1. \A n \in Items : item[n].phase = "used" => item'[n] = item[n] /\ spl'[n] = spl[n]
  BY DEF Unused
<1>2. UNCHANGED <<app, port, job, hReadFile, read, CurrentNum, crashes>> BY DEF Unused
<1>3. Closed \in Closed .. Pages /\ 0 \in Closed .. Pages /\ Pages \in Nat BY Known DEF Closed
<1>4. HandleTypes'
  <2>1. ASSUME NEW n \in Items
        PROVE  InFile(item'[n]) /\ Paged(spl'[n].data) /\ spl'[n].exists \in BOOLEAN
    <3>1. InFile(item[n]) /\ Paged(spl[n].data) /\ spl[n].exists \in BOOLEAN
      BY DEF HandleInv, HandleTypes
    <3>2. InFile(item'[n])
      <4>1. /\ item'[n].SplWrite \in {item[n].SplWrite, 0, Closed}
            /\ item'[n].SplRead \in {item[n].SplRead, 0, Closed}
        BY DEF HandlesStay
      <4> QED BY <1>3, <3>1, <4>1 DEF InFile
    <3>3. Paged(<<>>) BY <1>3 DEF Paged
    <3>4. spl'[n] = spl[n] \/ (spl'[n].data = <<>> /\ spl'[n].exists \in {spl[n].exists, FALSE})
      BY DEF HandlesStay
    <3> QED BY <3>1, <3>2, <3>3, <3>4
  <2> QED BY <1>2, <2>1 DEF HandleInv, HandleTypes
<1>5. ASSUME NEW c \in Docs PROVE Writer(c)' /\ Reader(c)'
  <2>1. Writer(c) /\ Reader(c) BY DEF HandleInv
  <2>2. CASE Has(c)
    <3>1. ItemOf(c)' = ItemOf(c) /\ File(c)' = File(c)
      BY <1>1, <1>2, <2>2 DEF PoolInv, Ownership, OwnersHave, ItemOf, File
    <3>2. Writer(c)' BY <1>2, <2>1, <3>1 DEF Writer, Is
    <3>3. Reader(c)' BY <1>2, <2>1, <3>1 DEF Reader, Is, Position, Has
    <3> QED BY <3>2, <3>3
  <2>3. CASE ~ Has(c)
    <3>1. app[c] \notin WritePlaces /\ port[c] = "none" /\ ~ job[c].queued BY <2>3, HasNone
    <3>2. Writer(c)' BY <1>2, <3>1 DEF Writer, WritePlaces
    <3>3. read[c] = 0 BY <2>1, <3>1 DEF Reader, ReadPlaces
    <3>4. Reader(c)' BY <1>2, <2>3, <3>1, <3>3 DEF Reader, ReadPlaces, Has
    <3> QED BY <3>2, <3>4
  <2> QED BY <2>2, <2>3
<1> QED BY <1>4, <1>5 DEF HandleInv

\* The scheduler gives jobs that are whole enough to port threads.
Schedules ==
  /\ UNCHANGED <<app, hReadFile, read, item, spl, shd, CurrentNum, crashes>>
  /\ \A d \in Docs :
       /\ job'[d].queued = job[d].queued /\ job'[d].hFileItem = job[d].hFileItem
       /\ "SPOOLING" \in job'[d].Status <=> "SPOOLING" \in job[d].Status
       /\ "PENDING_DELETION" \in job'[d].Status <=> "PENDING_DELETION" \in job[d].Status
       /\ port'[d] = port[d] \/ (port[d] = "none" /\ port'[d] = "assigned")

LEMMA SchedulerDoes ==
  ASSUME PoolInv, SchedulerThread
  PROVE  Schedules
<1>1. UNCHANGED <<app, hReadFile, read, item, spl, shd, CurrentNum, crashes>>
  BY DEF SchedulerThread, reader, pool, disk
<1>2. CASE UNCHANGED <<port, job>> BY <1>1, <1>2 DEF Schedules
<1>3. CASE ~ UNCHANGED <<port, job>>
  <2>1. PICK S \in SUBSET {d \in Docs : Schedulable(d)} :
          /\ port' = [d \in Docs |-> IF d \in S THEN "assigned" ELSE port[d]]
          /\ job' = [d \in Docs |-> IF d \in S THEN [job[d] EXCEPT !.Status = @ \cup {"DESPOOLING"}]
                                    ELSE job[d]]
    BY <1>3 DEF SchedulerThread
  <2>2. ASSUME NEW d \in Docs, NEW T, T = job[d].Status \cup {"DESPOOLING"}
        PROVE  /\ [job[d] EXCEPT !.Status = T].Status = T
               /\ [job[d] EXCEPT !.Status = T].queued = job[d].queued
               /\ [job[d] EXCEPT !.Status = T].hFileItem = job[d].hFileItem
    <3>1. job[d] \in JobRecs BY DEF PoolInv, Types
    <3> QED BY <3>1 DEF JobRecs
  <2>3. ASSUME NEW d \in Docs
        PROVE  /\ job'[d].queued = job[d].queued /\ job'[d].hFileItem = job[d].hFileItem
               /\ "SPOOLING" \in job'[d].Status <=> "SPOOLING" \in job[d].Status
               /\ "PENDING_DELETION" \in job'[d].Status <=> "PENDING_DELETION" \in job[d].Status
               /\ port'[d] = port[d] \/ (port[d] = "none" /\ port'[d] = "assigned")
    <3>1. CASE d \in S
      <4> DEFINE T == job[d].Status \cup {"DESPOOLING"}
                 k == [job[d] EXCEPT !.Status = T]
      <4>1. job'[d] = k /\ port'[d] = "assigned" BY <2>1, <3>1
      <4>2. port[d] = "none" BY <3>1 DEF Schedulable
      <4>3. /\ k.Status = T /\ k.queued = job[d].queued /\ k.hFileItem = job[d].hFileItem
        BY <2>2
      <4>4. /\ "SPOOLING" \in T <=> "SPOOLING" \in job[d].Status
            /\ "PENDING_DELETION" \in T <=> "PENDING_DELETION" \in job[d].Status
        OBVIOUS
      <4> HIDE DEF k, T
      <4> QED BY <4>1, <4>2, <4>3, <4>4
    <3>2. CASE d \notin S BY <2>1, <3>2
    <3> QED BY <3>1, <3>2
  <2> QED BY <1>1, <2>3 DEF Schedules
<1> QED BY <1>2, <1>3

LEMMA SchedulerKeeps ==
  ASSUME PoolInv, HandleInv, Schedules
  PROVE  HandleInv'
<1>1. UNCHANGED <<app, hReadFile, read, item, spl, CurrentNum, crashes>> BY DEF Schedules
<1>2. HandleTypes' BY <1>1 DEF HandleInv, HandleTypes
<1>3. ASSUME NEW d \in Docs PROVE Writer(d)' /\ Reader(d)'
  <2>1. Writer(d) /\ Reader(d) BY DEF HandleInv
  <2>2. /\ job'[d].queued = job[d].queued /\ job'[d].hFileItem = job[d].hFileItem
        /\ Is(d, "SPOOLING")' <=> Is(d, "SPOOLING")
        /\ Is(d, "PENDING_DELETION")' <=> Is(d, "PENDING_DELETION")
        /\ port'[d] = port[d] \/ (port[d] = "none" /\ port'[d] = "assigned")
    BY DEF Schedules, Is
  <2>3. ItemOf(d)' = ItemOf(d) /\ File(d)' = File(d) BY <1>1, <2>2 DEF ItemOf, File
  <2>4. Writer(d)' BY <1>1, <2>1, <2>2, <2>3 DEF Writer
  <2>5. Has(d)' <=> Has(d) BY <1>1, <2>2 DEF Has
  <2>6. Position(d)' = Position(d) BY <1>1, <2>3 DEF Position
  <2>7. Reader(d)' BY <1>1, <2>1, <2>2, <2>3, <2>5, <2>6 DEF Reader, ReadPlaces
  <2> QED BY <2>4, <2>7
<1> QED BY <1>2, <1>3 DEF HandleInv

\* A restart takes the pairs of files it can read, with no handle of theirs open.
Restarts ==
  /\ crashes < MaxCrashes /\ crashes' = crashes + 1 /\ CurrentNum' = 0
  /\ \A d \in Docs :
       /\ app'[d] \in {"new", "done"} /\ port'[d] = "none" /\ read'[d] = 0
       /\ job'[d].queued =>
            /\ job'[d].Status = {}
            /\ job'[d].hFileItem \in Items /\ Readable(job'[d].hFileItem)
            /\ shd[job'[d].hFileItem].doc = d
            /\ spl'[job'[d].hFileItem] = spl[job'[d].hFileItem]
  /\ read' \in [Docs -> Nat]
  /\ \A i \in Items :
       /\ item'[i].SplWrite = Closed /\ item'[i].SplRead = Closed /\ item'[i].Status = {}
       /\ spl'[i] \in {spl[i], NoSpl}

LEMMA CrashDoes ==
  ASSUME PoolInv, Crash
  PROVE  Restarts
<1> DEFINE accepted == {i \in Items : Readable(i)}
           itemOf(d) == CHOOSE i \in accepted : shd[i].doc = d
           used == [NoItem EXCEPT !.phase = "used"]
           jobOf(h) == [NoJob EXCEPT !.queued = TRUE, !.hFileItem = h]
<1>1. /\ crashes < MaxCrashes /\ crashes' = crashes + 1 /\ CurrentNum' = 0
      /\ app' = [d \in Docs |-> IF app[d] = "new" THEN "new" ELSE "done"]
      /\ port' = [d \in Docs |-> "none"] /\ read' = [d \in Docs |-> 0]
  BY DEF Crash
<1>2. /\ item' = [i \in Items |-> IF i \in accepted THEN used ELSE NoItem]
      /\ job' = [d \in Docs |-> IF \E i \in accepted : shd[i].doc = d
                                  THEN jobOf(itemOf(d)) ELSE NoJob]
      /\ spl' = [i \in Items |-> IF i \in accepted THEN spl[i] ELSE NoSpl]
  BY Zenon DEF Crash
<1>3. ~ NoJob.queued /\ \A h : /\ jobOf(h).hFileItem = h /\ jobOf(h).Status = {}
  BY DEF NoJob
<1>4. /\ used.SplWrite = Closed /\ used.SplRead = Closed /\ used.Status = {}
      /\ NoItem.SplWrite = Closed /\ NoItem.SplRead = Closed /\ NoItem.Status = {}
  BY DEF NoItem
<1> HIDE DEF used
<1>5. ASSUME NEW d \in Docs, job'[d].queued
      PROVE  /\ job'[d].Status = {}
             /\ job'[d].hFileItem \in Items /\ Readable(job'[d].hFileItem)
             /\ shd[job'[d].hFileItem].doc = d
             /\ spl'[job'[d].hFileItem] = spl[job'[d].hFileItem]
  <2>1. \E i \in accepted : shd[i].doc = d BY <1>2, <1>3, <1>5
  <2>2. job'[d] = jobOf(itemOf(d)) BY <1>2, <2>1
  <2>3. itemOf(d) \in accepted /\ shd[itemOf(d)].doc = d BY <2>1
  <2> HIDE DEF jobOf, itemOf
  <2>4. job'[d].hFileItem = itemOf(d) /\ job'[d].Status = {} BY <1>3, <2>2
  <2>5. spl'[itemOf(d)] = spl[itemOf(d)] BY <1>2, <2>3
  <2> QED BY <2>3, <2>4, <2>5
<1>6. ASSUME NEW i \in Items
      PROVE  /\ item'[i].SplWrite = Closed /\ item'[i].SplRead = Closed /\ item'[i].Status = {}
             /\ spl'[i] \in {spl[i], NoSpl}
  BY <1>2, <1>4
<1> QED BY <1>1, <1>5, <1>6 DEF Restarts

LEMMA CrashKeeps ==
  ASSUME PoolInv, HandleInv, Restarts
  PROVE  HandleInv'
<1>1. Closed \in Closed .. Pages /\ Pages \in Nat BY Known DEF Closed
<1>2. HandleTypes'
  <2>1. ASSUME NEW i \in Items
        PROVE  InFile(item'[i]) /\ Paged(spl'[i].data) /\ spl'[i].exists \in BOOLEAN
    <3>1. InFile(item'[i]) BY <1>1 DEF Restarts, InFile
    <3>2. spl'[i] \in {spl[i], NoSpl} BY DEF Restarts
    <3>3. Paged(NoSpl.data) /\ NoSpl.exists \in BOOLEAN BY <1>1 DEF Paged, NoSpl
    <3>4. Paged(spl[i].data) /\ spl[i].exists \in BOOLEAN BY DEF HandleInv, HandleTypes
    <3> QED BY <3>1, <3>2, <3>3, <3>4
  <2>2. crashes' \in Nat /\ CurrentNum' \in Nat /\ read' \in [Docs -> Nat]
    BY DEF Restarts, HandleInv, HandleTypes
  <2> QED BY <2>1, <2>2 DEF HandleTypes
<1>3. ASSUME NEW d \in Docs PROVE Writer(d)' /\ Reader(d)'
  <2>1. app'[d] \in {"new", "done"} /\ port'[d] = "none" /\ read'[d] = 0 BY DEF Restarts
  <2>2. Writer(d)' BY <2>1 DEF Writer, WritePlaces
  <2>3. Has(d)' => /\ job'[d].queued /\ job'[d].hFileItem \in Items
                   /\ ItemOf(d)'.SplRead = Closed /\ ItemOf(d)'.Status = {}
    BY <2>1 DEF Has, Restarts, ItemOf
  <2>4. Reader(d)' BY <2>1, <2>3 DEF Reader, ReadPlaces, Has
  <2> QED BY <2>2, <2>4
<1> QED BY <1>2, <1>3 DEF HandleInv

----------------------------------------------------------------------------
(* The invariant of the handles holds.                                      *)

LEMMA InitHandles ==
  ASSUME Init
  PROVE  HandleInv
<1>1. /\ app = [d \in Docs |-> "new"] /\ port = [d \in Docs |-> "none"]
      /\ job = [d \in Docs |-> NoJob] /\ read = [d \in Docs |-> 0]
      /\ item = [i \in Items |-> NoItem] /\ spl = [i \in Items |-> NoSpl]
      /\ CurrentNum = 0 /\ crashes = 0
  BY DEF Init
<1>2. Pages \in Nat BY Known
<1>3. InFile(NoItem) /\ Paged(NoSpl.data) /\ NoSpl.exists \in BOOLEAN
  BY <1>2 DEF InFile, Paged, NoItem, NoSpl, Closed
<1>4. HandleTypes BY <1>1, <1>3 DEF HandleTypes
<1>5. ASSUME NEW d \in Docs PROVE Writer(d) /\ Reader(d)
  <2>1. app[d] = "new" /\ port[d] = "none" /\ read[d] = 0 /\ ~ job[d].queued
    BY <1>1 DEF NoJob
  <2> QED BY <2>1 DEF Writer, Reader, WritePlaces, ReadPlaces, Has
<1> QED BY <1>4, <1>5 DEF HandleInv

LEMMA NextHandles ==
  ASSUME FilesCanBeCreated, PoolInv, HandleInv, [Next]_vars
  PROVE  HandleInv'
<1>1. CASE UNCHANGED vars
  <2>1. UNCHANGED <<app, port, job, hReadFile, read, item, spl, CurrentNum, crashes>>
    BY <1>1 DEF vars, reader, pool, disk
  <2> QED BY <2>1 DEF HandleInv, HandleTypes, Writer, Reader, Is, Has, ItemOf, File, Position
<1>2. ASSUME NEW d \in Docs,
             StartDocPrinter(d) \/ AppStep(d) \/ DeleteByUser(d) \/ Cancelled(d)
      PROVE  HandleInv'
  <2>1. CASE StartDocPrinter(d) BY <2>1, StartDocPrinterKeeps
  <2>2. CASE SpoolThisJob(d) BY <2>2, SpoolThisJobKeeps
  <2>3. CASE WritePrinter(d) BY <2>3, WritePrinterKeeps
  <2>4. CASE EndDocPrinter(d) \/ EndDocCloses(d) \/ EndDocClosed(d) BY <2>4, EndDocKeeps
  <2>5. CASE GetSpoolFileHandle(d) \/ AppOpensShadow(d)
    <3>1. job[d].queued BY <2>5, AppJob DEF GetSpoolFileHandle, AppOpensShadow, AppRefs
    <3> QED BY <2>5, <3>1, GetSpoolFileHandleDoes, AppOpensShadowDoes, SimpleKeeps
  <2>6. CASE AppWritesShadow(d)
    <3>1. job[d].queued /\ Has(d) BY <2>6, AppJob DEF AppWritesShadow, AppRefs, Has
    <3> QED BY <2>6, <3>1, AppWritesShadowDoes, SimpleKeeps, EndsKeeps
  <2>7. CASE DeleteByUser(d) \/ Cancelled(d)
    <3>1. job[d].queued /\ Has(d) BY <2>7, AppJob DEF DeleteByUser, Cancelled, UserRefs, Has
    <3> QED BY <2>7, <3>1, UserDoes, SimpleKeeps, EndsKeeps
  <2> QED BY <1>2, <2>1, <2>2, <2>3, <2>4, <2>5, <2>6, <2>7 DEF AppStep
<1>3. ASSUME NEW d \in Docs, PortStep(d) PROVE HandleInv'
  <2>1. job[d].queued /\ Has(d)
    BY <1>3, AppJob DEF PortStep, PortBegins, PortOpensShadow, PortWritesShadow, PortPrints, OpenPrinter,
       ReadPrinter, PortSends, PortSent, ClosePrinter, PortStops, PortEnds, PortRefs, Has
  <2>2. CASE \/ PortBegins(d) \/ PortWritesShadow(d) \/ PortPrints(d) \/ PortSends(d) \/ PortStops(d)
             \/ OpenPrinter(d) /\ Is(d, "PENDING_DELETION")
    BY <2>1, <2>2, PortMarksDo, SimpleKeeps
  <2>3. CASE PortOpensShadow(d) \/ PortSent(d)
    BY <2>1, <2>3, PortOpensShadowDoes, PortSentDoes, SimpleKeeps
  <2>4. CASE PortEnds(d) BY <2>1, <2>4, PortEndsDoes, SimpleKeeps, EndsKeeps
  <2>5. CASE OpenPrinter(d) /\ ~ Is(d, "PENDING_DELETION") BY <2>5, OpenPrinterKeeps
  <2>6. CASE ReadPrinter(d) BY <2>6, ReadPrinterKeeps
  <2>7. CASE ClosePrinter(d) BY <2>7, ClosePrinterKeeps
  <2> QED BY <1>3, <2>2, <2>3, <2>4, <2>5, <2>6, <2>7 DEF PortStep
<1>4. ASSUME NEW i \in Items, ReleaseStep(i) \/ TimePasses(i) PROVE HandleInv'
  BY <1>4, TruncateShadowDoes, TruncateSpoolDoes, DeleteFilesDo, UnusedKeeps DEF ReleaseStep
<1>5. CASE SchedulerThread BY <1>5, SchedulerDoes, SchedulerKeeps
<1>6. CASE TrimPool BY <1>6, TrimPoolDoes, UnusedKeeps
<1>7. CASE Crash BY <1>7, CrashDoes, CrashKeeps
<1> QED BY <1>1, <1>2, <1>3, <1>4, <1>5, <1>6, <1>7 DEF Next

LEMMA HandleInvariant ==
  ASSUME FilesCanBeCreated
  PROVE  Spec => [](PoolInv /\ HandleInv)
<1>1. FilesCanBeCreated OBVIOUS
<1>2. Init => PoolInv /\ HandleInv BY InitInv, InitHandles
<1>3. PoolInv /\ HandleInv /\ [Next]_vars => (PoolInv /\ HandleInv)' BY <1>1, NextInv, NextHandles
<1> QED BY <1>2, <1>3, PTL DEF Spec

\* An application writes a page through a handle that is open, and behind the
\* pages it wrote before: CloseFiles, which runs without SplSem and for other
\* reasons, leaves the handle of a writer alone.
THEOREM PagesAppended ==
  ASSUME FilesCanBeCreated
  PROVE  Spec => []WritesInOrder
<1>1. FilesCanBeCreated OBVIOUS
<1>2. Spec => [](PoolInv /\ HandleInv) BY <1>1, HandleInvariant
<1>3. PoolInv /\ HandleInv => WritesInOrder
  <2>1. SUFFICES ASSUME PoolInv, HandleInv, NEW d \in Docs, app[d] \in {"spooling", "closing", "closed"}
                 PROVE  /\ ItemOf(d).SplWrite = Len(spl[job[d].hFileItem].data)
                        /\ spl[job[d].hFileItem].exists
    BY DEF WritesInOrder
  <2>2. Has(d) BY <2>1, AppJob DEF AppRefs, Has
  <2>3. /\ ItemOf(d).SplWrite \in 0 .. Pages /\ File(d).data = Part(d, ItemOf(d).SplWrite)
        /\ Pages \in Nat
    BY <2>1, <2>2, HandleFacts DEF Writer, WritePlaces
  <2>4. ItemOf(d).SplWrite \in Nat BY <2>3
  <2>5. Len(File(d).data) = ItemOf(d).SplWrite BY <2>3, <2>4, PageWritten
  <2>6. spl[job[d].hFileItem].exists BY <2>1, <2>2, DocFacts
  <2> QED BY <2>5, <2>6 DEF File
<1> QED BY <1>2, <1>3, PTL

----------------------------------------------------------------------------
(* The type invariant.                                                      *)

\* The types of what the invariants above are not about.
SchedTypes ==
  /\ scheduler \in {"wait", "trim"} /\ SchedulerSignal \in BOOLEAN /\ SchedulerTimeout \in BOOLEAN
OtherTypes ==
  SchedTypes /\ old \subseteq Items /\ toDelete \in [Items -> [Callers -> Nat]]

\* A caller's count of the shadow files it has still to delete goes up or down.
LEMMA DeletionsCounted ==
  ASSUME toDelete \in [Items -> [Callers -> Nat]], NEW i \in Items, NEW by
  PROVE  /\ [toDelete EXCEPT ![i][by] = @ + 1] \in [Items -> [Callers -> Nat]]
         /\ by \in Callers /\ toDelete[i][by] > 0 =>
              [toDelete EXCEPT ![i][by] = @ - 1] \in [Items -> [Callers -> Nat]]
<1>1. toDelete[i] \in [Callers -> Nat] OBVIOUS
<1>2. by \in Callers => toDelete[i][by] \in Nat BY <1>1
<1>3. [toDelete[i] EXCEPT ![by] = @ + 1] \in [Callers -> Nat]
  <2>1. CASE by \in Callers
    <3>1. toDelete[i][by] + 1 \in Nat BY <1>2, <2>1
    <3> QED BY <1>1, <3>1
  <2>2. CASE by \notin Callers
    <3>1. [toDelete[i] EXCEPT ![by] = @ + 1] = toDelete[i] BY <1>1, <2>2
    <3> QED BY <1>1, <3>1
  <2> QED BY <2>1, <2>2
<1>4. by \in Callers /\ toDelete[i][by] > 0 => [toDelete[i] EXCEPT ![by] = @ - 1] \in [Callers -> Nat]
  BY <1>1, <1>2
<1>5. /\ [toDelete EXCEPT ![i][by] = @ + 1] = [toDelete EXCEPT ![i] = [toDelete[i] EXCEPT ![by] = @ + 1]]
      /\ [toDelete EXCEPT ![i][by] = @ - 1] = [toDelete EXCEPT ![i] = [toDelete[i] EXCEPT ![by] = @ - 1]]
  OBVIOUS
<1> DEFINE up == [toDelete[i] EXCEPT ![by] = @ + 1]
           down == [toDelete[i] EXCEPT ![by] = @ - 1]
<1> HIDE DEF up, down
<1>6. \A f \in [Callers -> Nat] : [toDelete EXCEPT ![i] = f] \in [Items -> [Callers -> Nat]] OBVIOUS
<1> QED BY <1>3, <1>4, <1>5, <1>6 DEF up, down

\* The steps of a document.
LEMMA DocTypes ==
  ASSUME OtherTypes, NEW d \in Docs,
         StartDocPrinter(d) \/ AppStep(d) \/ PortStep(d) \/ DeleteByUser(d) \/ Cancelled(d)
  PROVE  OtherTypes'
<1>1. UNCHANGED toDelete
  BY DEF AppStep, PortStep, StartDocPrinter, SpoolThisJob, GetSpoolFileHandle, WritePrinter, EndDocPrinter,
     EndDocCloses, EndDocClosed, AppOpensShadow, AppWritesShadow, PortBegins, PortOpensShadow,
     PortWritesShadow, PortPrints, OpenPrinter, ReadPrinter, PortSends, PortSent, ClosePrinter, PortStops,
     PortEnds, DeleteByUser, Cancelled, disk
<1>2. old' \subseteq old
  BY DEF AppStep, PortStep, StartDocPrinter, GetFreeItem, GetNewItem, CreateSplWriterFails, SpoolThisJob,
     GetSpoolFileHandle, WritePrinter, EndDocPrinter,
     EndDocCloses, EndDocClosed, AppOpensShadow, AppWritesShadow, PortBegins, PortOpensShadow,
     PortWritesShadow, PortPrints, OpenPrinter, ReadPrinter, PortSends, PortSent, ClosePrinter, PortStops,
     PortEnds, DeleteByUser, Cancelled, pool
<1>3. CHECK_SCHEDULER \/ UNCHANGED sched
  BY DEF AppStep, PortStep, StartDocPrinter, SpoolThisJob, GetSpoolFileHandle, WritePrinter, EndDocPrinter,
     EndDocCloses, EndDocClosed, EndSpooling, EndDocPrinterRest, AppOpensShadow, AppWritesShadow,
     PortBegins, PortOpensShadow, PortWritesShadow, PortPrints, OpenPrinter, ReadPrinter, PortSends,
     PortSent, ClosePrinter, PortStops, PortEnds, DeleteByUser, Cancelled
<1>4. SchedTypes' BY <1>3 DEF OtherTypes, SchedTypes, CHECK_SCHEDULER, sched
<1> QED BY <1>1, <1>2, <1>4 DEF OtherTypes

LEMMA NextTypes ==
  ASSUME OtherTypes, [Next]_vars
  PROVE  OtherTypes'
<1>1. CASE UNCHANGED vars BY <1>1 DEF OtherTypes, SchedTypes, vars, pool, sched, disk
<1>2. ASSUME NEW d \in Docs,
             StartDocPrinter(d) \/ AppStep(d) \/ PortStep(d) \/ DeleteByUser(d) \/ Cancelled(d)
      PROVE  OtherTypes'
  BY <1>2, DocTypes
<1>3. ASSUME NEW i \in Items, ReleaseStep(i) \/ TimePasses(i) PROVE OtherTypes'
  <2>1. old' \subseteq Items
    BY <1>3 DEF OtherTypes, ReleaseStep, TimePasses, TruncateShadow, TruncateSpool, DeleteSpool,
       DeleteShadow, pool
  <2>2. CHECK_SCHEDULER \/ UNCHANGED sched
    BY <1>3 DEF ReleaseStep, TimePasses, TruncateShadow, TruncateSpool, DeleteSpool, DeleteShadow, Returned
  <2>3. SchedTypes' BY <2>2 DEF OtherTypes, SchedTypes, CHECK_SCHEDULER, sched
  <2>4. toDelete' \in [Items -> [Callers -> Nat]]
    <3>1. CASE UNCHANGED toDelete BY <3>1 DEF OtherTypes
    <3>2. CASE DeleteSpool(i) BY <3>2, DeletionsCounted DEF OtherTypes, DeleteSpool
    <3>3. CASE DeleteShadow(i) BY <3>3, DeletionsCounted DEF OtherTypes, DeleteShadow
    <3> QED BY <1>3, <3>1, <3>2, <3>3 DEF ReleaseStep, TimePasses, TruncateShadow, TruncateSpool, disk
  <2> QED BY <2>1, <2>3, <2>4 DEF OtherTypes
<1>4. CASE SchedulerThread
  <2>1. old' = old /\ toDelete' = toDelete BY <1>4 DEF SchedulerThread, pool, disk
  <2>2. SchedTypes' BY <1>4 DEF SchedulerThread, OtherTypes, SchedTypes
  <2> QED BY <2>1, <2>2 DEF OtherTypes
<1>5. CASE TrimPool
  <2>1. old' \subseteq old /\ toDelete' = toDelete BY <1>5 DEF TrimPool, disk
  <2>2. scheduler' = "wait" /\ SchedulerSignal' = SchedulerSignal BY <1>5 DEF TrimPool
  <2>3. SchedulerTimeout' \in BOOLEAN BY <1>5 DEF TrimPool
  <2> QED BY <2>1, <2>2, <2>3 DEF OtherTypes, SchedTypes
<1>6. CASE Crash BY <1>6 DEF Crash, OtherTypes, SchedTypes
<1> QED BY <1>1, <1>2, <1>3, <1>4, <1>5, <1>6 DEF Next

LEMMA InvariantsType ==
  ASSUME PoolInv, HandleInv, OtherTypes
  PROVE  TypeOK
<1>1. Types /\ HandleTypes BY DEF PoolInv, HandleInv
<1>2. ASSUME NEW i \in Items
      PROVE  item[i] \in ItemRecords /\ spl[i] \in [exists : BOOLEAN, data : Seq(Docs)]
  <2>1. item[i] \in ItemRecs /\ InFile(item[i]) BY <1>1 DEF Types, HandleTypes
  <2>2. item[i] \in ItemRecords BY <2>1 DEF ItemRecs, ItemRecords, InFile, ItemFlags
  <2>3. spl[i] = [exists |-> spl[i].exists, data |-> spl[i].data] BY <1>1 DEF Types
  <2>4. spl[i].exists \in BOOLEAN /\ spl[i].data \in Seq(Docs) BY <1>1 DEF HandleTypes, Paged
  <2> QED BY <2>2, <2>3, <2>4
<1>3. ASSUME NEW d \in Docs PROVE read[d] \in 0 .. Pages
  <2>1. read[d] \in Nat /\ Pages \in Nat /\ Reader(d) BY <1>1, Known DEF HandleTypes, HandleInv
  <2>2. CASE port[d] \in ReadPlaces
    <3>1. Has(d) BY <2>2, AppJob DEF ReadPlaces, PortRefs, Has
    <3>2. Paged(File(d).data) BY <3>1, HandleFacts
    <3>3. Len(File(d).data) <= Pages /\ Len(File(d).data) \in Nat BY <3>2 DEF Paged
    <3>4. read[d] <= Len(File(d).data) BY <2>1, <2>2 DEF Reader
    <3> QED BY <2>1, <3>3, <3>4
  <2>3. CASE port[d] \notin ReadPlaces BY <2>1, <2>3 DEF Reader
  <2> QED BY <2>2, <2>3
<1>4. item \in [Items -> ItemRecords] /\ spl \in [Items -> [exists : BOOLEAN, data : Seq(Docs)]]
  BY <1>1, <1>2 DEF Types
<1>5. read \in [Docs -> 0 .. Pages] BY <1>1, <1>3 DEF HandleTypes
<1>6. /\ app \in [Docs -> AppPlaces] /\ port \in [Docs -> PortPlaces] /\ job \in [Docs -> JobRecs]
      /\ cancelling \subseteq Docs /\ FreeFiles \in Seq(Items)
      /\ hReadFile \in [Docs -> {"none", "SplWrite", "SplRead"}] /\ shd \in [Items -> ShdRecs]
      /\ CurrentNum \in Nat /\ crashes \in Nat
  BY <1>1 DEF Types, HandleTypes
<1> QED BY <1>4, <1>5, <1>6 DEF TypeOK, OtherTypes, SchedTypes, AppPlaces, PortPlaces, JobRecs, ShdRecs

\* Every variable of the file pool has its type; no handle is beyond the last
\* page.
THEOREM PoolTypes ==
  ASSUME FilesCanBeCreated
  PROVE  Spec => []TypeOK
<1>1. FilesCanBeCreated OBVIOUS
<1>2. Spec => [](PoolInv /\ HandleInv) BY <1>1, HandleInvariant
<1>3. Init => OtherTypes
  <2>1. [i \in Items |-> [by \in Callers |-> 0]] \in [Items -> [Callers -> Nat]] OBVIOUS
  <2> QED BY <2>1 DEF Init, OtherTypes, SchedTypes
<1>4. OtherTypes /\ [Next]_vars => OtherTypes' BY NextTypes
<1>5. PoolInv /\ HandleInv /\ OtherTypes => TypeOK BY InvariantsType
<1> QED BY <1>2, <1>3, <1>4, <1>5, PTL DEF Spec

----------------------------------------------------------------------------
(* What is in the files that are kept, and what the shadow files say of it. *)

\* The spooler does not crash again once it has been started again.
CrashesOnce == MaxCrashes <= 1

\* A document that is spooled is in its spool file, and printed to the end.
Spools(d) ==
  /\ job[d].queued /\ ~ Is(d, "SPOOLING") /\ ~ Is(d, "PENDING_DELETION")
       => File(d).data = Part(d, Pages)
  /\ port[d] \in {"cancel", "sent"} => read[d] = Pages
SpoolInv == \A d \in Docs : Spools(d)

\* A shadow file that says that its document is spooled has all of it beside it.
\* The shadow file of an item goes before the item is free.
ShadowTrue(i) ==
  /\ Good(i) /\ shd[i].Status = {} /\ spl[i].exists => spl[i].data = Part(shd[i].doc, Pages)
  /\ item[i].phase \in {"truncate", "free", "delete"} => ~ Good(i)
  /\ Good(i) /\ item[i].phase \in {"used", "leaving"} => item[i].Shd
  /\ Good(i) \/ item[i].phase # "none" => i < CurrentNum
ShadowOpen(d) ==
  /\ app[d] \in WritePlaces /\ Good(job[d].hFileItem) => shd[job[d].hFileItem].Status # {}
  /\ app[d] = "write" \/ port[d] = "write" => ItemOf(d).Shd
ShadowInv == (\A i \in Items : ShadowTrue(i)) /\ \A d \in Docs : ShadowOpen(d)

ContentInv == SpoolInv /\ (crashes = 0 => ShadowInv)

\* What is left to show of a step of one document.
LEMMA SpoolsAfter ==
  ASSUME PoolInv, SpoolInv, NEW d \in Docs, Has(d), OnlyDoc(d), Spools(d)'
  PROVE  SpoolInv'
<1>1. ASSUME NEW c \in Docs, c # d PROVE Spools(c)'
  <2>1. /\ app'[c] = app[c] /\ port'[c] = port[c] /\ job'[c] = job[c] /\ read'[c] = read[c]
    BY <1>1 DEF OnlyDoc
  <2>2. Spools(c) BY DEF SpoolInv
  <2>3. CASE Has(c)
    <3>1. job[c].hFileItem \in Items /\ job[c].hFileItem # job[d].hFileItem
      BY <1>1, <2>3, DocFacts DEF PoolInv, Ownership, OneOwner
    <3>2. File(c)' = File(c) BY <2>1, <3>1 DEF OnlyDoc, File
    <3> QED BY <2>1, <2>2, <3>2 DEF Spools, Is
  <2>4. CASE ~ Has(c) BY <2>1, <2>4, HasNone DEF Spools
  <2> QED BY <2>3, <2>4
<1> QED BY <1>1 DEF SpoolInv

LEMMA ShadowsAfter ==
  ASSUME PoolInv, ShadowInv, NEW d \in Docs, Has(d), OnlyDoc(d),
         NEW h \in Items, h = job[d].hFileItem, ShadowTrue(h)', ShadowOpen(d)'
  PROVE  ShadowInv'
<1>1. ASSUME NEW i \in Items, i # h PROVE ShadowTrue(i)'
  <2>1. item'[i] = item[i] /\ spl'[i] = spl[i] /\ shd'[i] = shd[i] /\ CurrentNum' = CurrentNum
    BY <1>1 DEF OnlyDoc
  <2>2. ShadowTrue(i) BY DEF ShadowInv
  <2> QED BY <2>1, <2>2 DEF ShadowTrue, Good
<1>2. \A i \in Items : ShadowTrue(i)' BY <1>1
<1>3. ASSUME NEW c \in Docs, c # d PROVE ShadowOpen(c)'
  <2>1. app'[c] = app[c] /\ port'[c] = port[c] /\ job'[c] = job[c] BY <1>3 DEF OnlyDoc
  <2>2. ShadowOpen(c) BY DEF ShadowInv
  <2>3. CASE Has(c)
    <3>1. job[c].hFileItem \in Items /\ job[c].hFileItem # job[d].hFileItem
      BY <1>3, <2>3, DocFacts DEF PoolInv, Ownership, OneOwner
    <3>2. /\ item'[job[c].hFileItem] = item[job[c].hFileItem]
          /\ shd'[job[c].hFileItem] = shd[job[c].hFileItem]
      BY <3>1 DEF OnlyDoc
    <3> QED BY <2>1, <2>2, <3>2 DEF ShadowOpen, Good, ItemOf
  <2>4. CASE ~ Has(c) BY <2>1, <2>4, HasNone DEF ShadowOpen, WritePlaces
  <2> QED BY <2>3, <2>4
<1> QED BY <1>2, <1>3 DEF ShadowInv

\* The item of document d is kept, or left, and its files too.
KeepsFiles(d) ==
  LET h == job[d].hFileItem IN
  /\ spl'[h] = spl[h] /\ (shd'[h] = shd[h] \/ shd'[h].file # "good")
  /\ item'[h].phase \in {"used", "leaving"}
  /\ item[h].Shd /\ shd'[h].file = "good" => item'[h].Shd
  /\ app'[d] \in WritePlaces => app[d] \in WritePlaces /\ job'[d].hFileItem = h
  /\ app'[d] = "write" \/ port'[d] = "write" => job'[d].hFileItem = h /\ item'[h].Shd

LEMMA FilesKept ==
  ASSUME PoolInv, ShadowInv, NEW d \in Docs, Has(d), OnlyDoc(d), KeepsFiles(d)
  PROVE  ShadowInv'
<1>1. PICK h \in Items : h = job[d].hFileItem /\ item[h].phase = "used"
  BY DocFacts DEF PoolInv, Ownership, OwnersHave, ItemOf
<1>2. ShadowTrue(h) /\ ShadowOpen(d) BY <1>1 DEF ShadowInv
<1>3. CurrentNum' = CurrentNum BY DEF OnlyDoc
<1>4. ShadowTrue(h)' BY <1>1, <1>2, <1>3 DEF KeepsFiles, ShadowTrue, Good
<1>5. ShadowOpen(d)' BY <1>1, <1>2 DEF KeepsFiles, ShadowOpen, Good, ItemOf
<1> QED BY <1>1, <1>4, <1>5, ShadowsAfter

----------------------------------------------------------------------------
(* The steps that leave the handles alone.                                  *)

LEMMA SimpleSpools ==
  ASSUME PoolInv, SpoolInv, NEW d \in Docs, Has(d), OnlyDoc(d),
         (Simple(d) /\ job[d].queued) \/ Ends(d),
         port'[d] \in {"cancel", "sent"} => port[d] \in {"cancel", "sent"} \/ read[d] = Pages
  PROVE  SpoolInv'
<1>1. Spools(d) BY DEF SpoolInv
<1>2. CASE Simple(d) /\ job[d].queued
  <2>1. /\ Is(d, "SPOOLING")' <=> Is(d, "SPOOLING")
        /\ Is(d, "PENDING_DELETION") => Is(d, "PENDING_DELETION")'
        /\ job'[d].queued /\ job'[d].hFileItem = job[d].hFileItem
    BY <1>2 DEF Simple, Becomes, Is
  <2>2. File(d)' = File(d) /\ read' = read BY <1>2, <2>1 DEF Simple, File
  <2>3. Spools(d)' BY <1>1, <1>2, <2>1, <2>2 DEF Spools
  <2> QED BY <2>3, SpoolsAfter
<1>3. CASE Ends(d)
  <2>1. Spools(d)' BY <1>3 DEF Ends, Gone, Spools
  <2> QED BY <2>1, SpoolsAfter
<1> QED BY <1>2, <1>3

\* The shadow file is not touched.
LEMMA SimpleShadows ==
  ASSUME PoolInv, ShadowInv, NEW d \in Docs, Has(d), OnlyDoc(d), Simple(d) \/ Ends(d), UNCHANGED shd,
         app'[d] = "write" => app[d] = "write", port'[d] = "write" => port[d] = "write"
  PROVE  ShadowInv'
<1> DEFINE h == job[d].hFileItem
<1>1. ItemOf(d).phase = "used" BY DEF PoolInv, Ownership, OwnersHave
<1>2. ShadowOpen(d) BY DEF ShadowInv
<1>3. CASE Simple(d)
  <2>1. job'[d].hFileItem = h BY <1>3 DEF Simple, Becomes
  <2>2. /\ item'[h].phase = "used" /\ (item[h].Shd => item'[h].Shd)
    BY <1>1, <1>3, <2>1 DEF Simple, Becomes, SameHandles, ItemOf
  <2>3. spl'[h] = spl[h] /\ (app'[d] \in WritePlaces => app[d] \in WritePlaces)
    BY <1>3 DEF Simple, WritePlaces
  <2>4. KeepsFiles(d) BY <1>2, <2>1, <2>2, <2>3 DEF KeepsFiles, ShadowOpen, ItemOf
  <2> QED BY <2>4, FilesKept
<1>4. CASE Ends(d)
  <2>1. /\ item'[h].phase \in {"used", "leaving"} /\ (item[h].Shd => item'[h].Shd)
    BY <1>1, <1>4 DEF Ends, Gone, ItemOf
  <2>2. spl'[h] = spl[h] /\ app'[d] = "done" /\ port'[d] = "none" BY <1>4 DEF Ends
  <2>3. KeepsFiles(d) BY <2>1, <2>2 DEF KeepsFiles, WritePlaces
  <2> QED BY <2>3, FilesKept
<1> QED BY <1>3, <1>4

\* A step that leaves the shadow file too.  A port thread has read the whole
\* file when it says that the document is printed.
LEMMA UntouchedContent ==
  ASSUME PoolInv, HandleInv, ContentInv, NEW d \in Docs,
         \/ GetSpoolFileHandle(d) \/ DeleteByUser(d) \/ Cancelled(d)
         \/ PortBegins(d) \/ PortPrints(d) \/ PortSends(d) \/ PortSent(d) \/ PortStops(d) \/ PortEnds(d)
         \/ OpenPrinter(d) /\ Is(d, "PENDING_DELETION")
  PROVE  ContentInv'
<1>1. job[d].queued /\ Has(d)
  BY AppJob DEF GetSpoolFileHandle, DeleteByUser, Cancelled, PortBegins, PortPrints, OpenPrinter,
     PortSends, PortSent, PortStops, PortEnds, AppRefs, PortRefs, UserRefs, Has
<1>2. OnlyDoc(d) /\ (Simple(d) \/ Ends(d))
  BY GetSpoolFileHandleDoes, UserDoes, PortMarksDo, PortSentDoes, PortEndsDoes
<1>3. shd' = shd /\ app' = app
  BY DEF GetSpoolFileHandle, DeleteByUser, Cancelled, PortBegins, PortPrints, OpenPrinter,
     PortSends, PortSent, PortStops, PortEnds, disk
<1>4. port' = port \/ \E p : /\ port' = [port EXCEPT ![d] = p]
                             /\ p # "write" /\ (p = "sent" => port[d] = "cancel")
                             /\ p = "cancel" => PortSends(d)
  BY DEF GetSpoolFileHandle, DeleteByUser, Cancelled, PortBegins, PortPrints, OpenPrinter,
     PortSends, PortSent, PortStops, PortEnds, PortAt
<1>5. /\ port'[d] = "write" => port[d] = "write"
      /\ port'[d] = "sent" => port[d] \in {"sent", "cancel"}
      /\ port'[d] = "cancel" => port[d] = "cancel" \/ PortSends(d)
  BY <1>4 DEF PoolInv, Types
<1>6. ASSUME port'[d] = "cancel", PortSends(d) PROVE read[d] = Pages
  <2>1. port[d] = "reading" /\ AtEnd(d) /\ ~ Is(d, "SPOOLING") /\ ~ Is(d, "PENDING_DELETION")
    BY <1>6 DEF PortSends, PortAt, PoolInv, Types, Cancels
  <2>2. File(d).data = Part(d, Pages) BY <1>1, <2>1 DEF ContentInv, SpoolInv, Spools
  <2>3. Len(File(d).data) = Pages BY <2>2, Known, PageWritten
  <2>4. Reader(d) /\ read \in [Docs -> Nat] /\ Pages \in Nat BY <1>1, HandleFacts
  <2>5. Position(d) = read[d] /\ read[d] <= Pages BY <2>1, <2>3, <2>4 DEF Reader, ReadPlaces
  <2>6. Position(d) >= Pages BY <2>1, <2>3 DEF AtEnd, File
  <2> QED BY <2>4, <2>5, <2>6
<1>7. SpoolInv' BY <1>1, <1>2, <1>5, <1>6, SimpleSpools DEF ContentInv
<1>8. ShadowInv => ShadowInv' BY <1>1, <1>2, <1>3, <1>5, SimpleShadows
<1> QED BY <1>2, <1>7, <1>8 DEF ContentInv, OnlyDoc

\* The shadow file is opened: what it said is there, or it is empty.
LEMMA OpenShadowContent ==
  ASSUME PoolInv, HandleInv, ContentInv, NEW d \in Docs, AppOpensShadow(d) \/ PortOpensShadow(d)
  PROVE  ContentInv'
<1>1. job[d].queued /\ Has(d)
  BY AppJob DEF AppOpensShadow, PortOpensShadow, AppRefs, PortRefs, Has
<1>2. OnlyDoc(d) /\ Simple(d) /\ ItemOf(d)'.Shd BY AppOpensShadowDoes, PortOpensShadowDoes
<1>3. OpenShadow(d) BY DEF AppOpensShadow, PortOpensShadow
<1>4. port'[d] \notin {"cancel", "sent"} \/ port' = port
  BY DEF AppOpensShadow, PortOpensShadow, PortAt, PoolInv, Types
<1>5. SpoolInv' BY <1>1, <1>2, <1>4, SimpleSpools DEF ContentInv
<1> DEFINE h == job[d].hFileItem
<1>6. shd'[h] = shd[h] \/ shd'[h].file # "good"
  <2> DEFINE e == [NoShd EXCEPT !.file = "empty"]
  <2>1. shd' = shd \/ shd' = [shd EXCEPT ![h] = e] BY <1>3 DEF OpenShadow
  <2>2. e.file # "good" BY NoFiles
  <2> HIDE DEF e
  <2> QED BY <1>1, <2>1, <2>2, DocFacts DEF PoolInv, Types
<1>7. job'[d].hFileItem = h /\ SameHandles(ItemOf(d), ItemOf(d)') /\ spl'[h] = spl[h]
  BY <1>2 DEF Simple, Becomes
<1>8. item'[h].Shd /\ item'[h].phase = "used"
  BY <1>1, <1>2, <1>7 DEF SameHandles, ItemOf, PoolInv, Ownership, OwnersHave
<1>9. app'[d] \in WritePlaces => app[d] \in WritePlaces BY <1>2 DEF Simple, WritePlaces
<1>10. KeepsFiles(d) BY <1>6, <1>7, <1>8, <1>9 DEF KeepsFiles
<1>11. ShadowInv => ShadowInv' BY <1>1, <1>2, <1>10, FilesKept
<1> QED BY <1>2, <1>5, <1>11 DEF ContentInv, OnlyDoc

\* The shadow file is written: with no flag in it, all of the document is beside
\* it.
LEMMA WriteShadowContent ==
  ASSUME PoolInv, HandleInv, ContentInv, NEW d \in Docs, AppWritesShadow(d) \/ PortWritesShadow(d)
  PROVE  ContentInv'
<1>1. job[d].queued /\ Has(d) /\ (app[d] = "write" \/ port[d] = "write") /\ app[d] # "item"
  BY AppJob DEF AppWritesShadow, PortWritesShadow, AppRefs, PortRefs, Has, PoolInv, Users, RefsQueued
<1>2. OnlyDoc(d) /\ (Simple(d) \/ Ends(d)) BY AppWritesShadowDoes, PortMarksDo
<1>3. port'[d] \notin {"cancel", "sent"} \/ port' = port
  BY DEF AppWritesShadow, PortWritesShadow, PortAt, PoolInv, Types
<1>4. SpoolInv' BY <1>1, <1>2, <1>3, SimpleSpools DEF ContentInv
<1>5. ASSUME ShadowInv PROVE ShadowInv'
  <2> DEFINE S == job[d].Status \cap {"SPOOLING", "PENDING_DELETION"}
             e == [file |-> "good", doc |-> d, Status |-> S]
  <2>1. PICK h \in Items : h = job[d].hFileItem /\ item[h].phase = "used" /\ ItemOf(d) = item[h]
    BY <1>1, DocFacts DEF PoolInv, Ownership, OwnersHave, ItemOf
  <2>2. WriteShadow(d) BY DEF AppWritesShadow, PortWritesShadow
  <2>3. shd'[h] = e BY <2>1, <2>2 DEF WriteShadow, PoolInv, Types
  <2>4. /\ S = {} => ~ Is(d, "SPOOLING") /\ ~ Is(d, "PENDING_DELETION")
        /\ Is(d, "SPOOLING") => S # {}
    BY DEF Is
  <2>5. e.file = "good" /\ e.doc = d /\ e.Status = S OBVIOUS
  <2> HIDE DEF e, S
  <2>6. ShadowTrue(h) /\ ShadowOpen(d) BY <1>5 DEF ShadowInv
  <2>7. item[h].Shd BY <1>1, <2>1, <2>6 DEF ShadowOpen
  <2>8. /\ item'[h].phase \in {"used", "leaving"} /\ item'[h].Shd /\ spl'[h] = spl[h]
        /\ app'[d] \in WritePlaces => app[d] \in WritePlaces
        /\ ~ Ends(d) => job'[d].hFileItem = h
    <3>1. CASE Simple(d)
      BY <2>1, <2>7, <3>1 DEF Simple, Becomes, SameHandles, ItemOf, WritePlaces
    <3>2. CASE Ends(d) BY <2>1, <2>7, <3>2 DEF Ends, Gone, ItemOf, WritePlaces
    <3> QED BY <1>2, <3>1, <3>2
  <2>9. S = {} => spl[h].data = Part(d, Pages)
    BY <1>1, <2>1, <2>4 DEF ContentInv, SpoolInv, Spools, File
  <2>10. CurrentNum' = CurrentNum BY <1>2 DEF OnlyDoc
  <2>11. ShadowTrue(h)' BY <2>1, <2>3, <2>5, <2>6, <2>8, <2>9, <2>10 DEF ShadowTrue, Good, Part
  <2>12. ShadowOpen(d)'
    <3>1. CASE Ends(d) BY <3>1 DEF Ends, ShadowOpen, WritePlaces
    <3>2. CASE ~ Ends(d)
      <4>1. app'[d] \in WritePlaces => Is(d, "SPOOLING")
        BY <1>1, <2>8, HandleFacts DEF Writer
      <4> QED BY <2>3, <2>4, <2>5, <2>8, <3>2, <4>1 DEF ShadowOpen, ItemOf
    <3> QED BY <3>1, <3>2
  <2> QED BY <1>1, <1>2, <1>5, <2>1, <2>11, <2>12, ShadowsAfter
<1> QED BY <1>2, <1>4, <1>5 DEF ContentInv, OnlyDoc

----------------------------------------------------------------------------
(* The steps that use the handles.                                          *)

LEMMA SpoolThisJobContent ==
  ASSUME PoolInv, HandleInv, ContentInv, NEW d \in Docs, SpoolThisJob(d)
  PROVE  ContentInv'
<1>1. /\ OnlyDoc(d) /\ Has(d) /\ FilesSame(d) /\ ReaderSame(d) /\ port[d] = "none"
      /\ Queued(d) \/ Ends(d)
  BY SpoolThisJobDoes
<1> DEFINE h == job[d].hFileItem
<1>2. item[h].phase = "used" BY <1>1 DEF PoolInv, Ownership, OwnersHave, ItemOf
<1>3. SpoolInv'
  <2>1. CASE Ends(d) BY <1>1, <2>1, SimpleSpools DEF ContentInv, ReaderSame
  <2>2. CASE Queued(d)
    <3>1. Spools(d)' BY <1>1, <2>2 DEF Queued, ReaderSame, Spools, Is
    <3> QED BY <1>1, <3>1, SpoolsAfter DEF ContentInv
  <2> QED BY <1>1, <2>1, <2>2
<1>4. KeepsFiles(d)
  <2>1. spl'[h] = spl[h] /\ shd'[h] = shd[h] /\ port'[d] = "none" BY <1>1 DEF FilesSame, ReaderSame
  <2>2. CASE Ends(d) BY <1>2, <2>1, <2>2 DEF Ends, Gone, KeepsFiles, WritePlaces, ItemOf
  <2>3. CASE Queued(d) BY <1>2, <2>1, <2>3 DEF Queued, KeepsFiles, WritePlaces
  <2> QED BY <1>1, <2>2, <2>3
<1>5. ShadowInv => ShadowInv' BY <1>1, <1>4, FilesKept
<1> QED BY <1>1, <1>3, <1>5 DEF ContentInv, OnlyDoc

\* While an application writes, its shadow file says that it does.
LEMMA WritePrinterContent ==
  ASSUME PoolInv, HandleInv, ContentInv, NEW d \in Docs, WritePrinter(d)
  PROVE  ContentInv'
<1>1. /\ OnlyDoc(d) /\ job[d].queued /\ app[d] = "spooling" /\ ReaderSame(d)
      /\ UNCHANGED <<app, job>> /\ PageAdded(d)
  BY WritePrinterDoes
<1>2. Has(d) /\ Is(d, "SPOOLING") BY <1>1, HandleFacts DEF Has, Writer, WritePlaces
<1>3. SpoolInv'
  <2>1. Spools(d) BY DEF ContentInv, SpoolInv
  <2>2. Spools(d)' BY <1>1, <1>2, <2>1 DEF Spools, ReaderSame, Is
  <2> QED BY <1>1, <1>2, <2>2, SpoolsAfter DEF ContentInv
<1>4. ASSUME ShadowInv PROVE ShadowInv'
  <2>1. PICK h \in Items : h = job[d].hFileItem /\ item[h].phase = "used" /\ ItemOf(d) = item[h]
    BY <1>2, DocFacts DEF PoolInv, Ownership, OwnersHave, ItemOf
  <2>2. ShadowTrue(h) /\ ShadowOpen(d) BY <1>4 DEF ShadowInv
  <2>3. /\ item'[h].Shd = item[h].Shd /\ item'[h].phase = item[h].phase /\ shd'[h] = shd[h]
        /\ ItemOf(d)' = item'[h]
    BY <1>1, <2>1 DEF PageAdded, ItemOf
  <2>4. Good(h) => shd[h].Status # {} BY <1>1, <2>1, <2>2 DEF ShadowOpen, WritePlaces
  <2>5. CurrentNum' = CurrentNum BY <1>1 DEF OnlyDoc
  <2>6. ShadowTrue(h)' BY <2>2, <2>3, <2>4, <2>5 DEF ShadowTrue, Good
  <2>7. ShadowOpen(d)'
    BY <1>1, <2>1, <2>2, <2>3 DEF ShadowOpen, Good, ItemOf, ReaderSame
  <2> QED BY <1>1, <1>2, <1>4, <2>1, <2>6, <2>7, ShadowsAfter
<1> QED BY <1>1, <1>3, <1>4 DEF ContentInv, OnlyDoc

\* A document ends only when it is whole or deleted.
LEMMA EndDocContent ==
  ASSUME PoolInv, HandleInv, ContentInv, NEW d \in Docs,
         EndDocPrinter(d) \/ EndDocCloses(d) \/ EndDocClosed(d)
  PROVE  ContentInv'
<1>1. /\ OnlyDoc(d) /\ job[d].queued /\ FilesSame(d) /\ ReaderSame(d)
      /\ app[d] \in {"spooling", "closing", "closed"}
      /\ app[d] = "spooling" => Is(d, "PENDING_DELETION") \/ ItemOf(d).SplWrite = Pages
      /\ ClosesFiles(d) \/ (app[d] \in {"spooling", "closed"} /\ (Spooled(d) \/ Ends(d)))
  BY EndDocDoes
<1>2. Has(d) BY <1>1 DEF Has
<1> DEFINE h == job[d].hFileItem
<1>3. /\ ItemOf(d) = item[h] /\ item[h].phase = "used" /\ item[h] \in ItemRecs
  BY <1>2, DocFacts DEF PoolInv, Ownership, OwnersHave, ItemOf
<1>4. /\ Is(d, "SPOOLING") /\ "SPL_WRITING" \in item[h].Status
      /\ Is(d, "PENDING_DELETION") \/ File(d).data = Part(d, Pages)
  <2>1. Writer(d) BY <1>2, HandleFacts
  <2>2. Is(d, "PENDING_DELETION") \/ ItemOf(d).SplWrite = Pages
    BY <1>1, <2>1 DEF Writer, WritePlaces
  <2>3. /\ Is(d, "SPOOLING") /\ "SPL_WRITING" \in ItemOf(d).Status
        /\ File(d).data = Part(d, ItemOf(d).SplWrite)
    BY <1>1, <2>1 DEF Writer, WritePlaces
  <2> QED BY <1>3, <2>2, <2>3
<1>5. /\ spl'[h] = spl[h] /\ shd'[h] = shd[h] /\ port'[d] = port[d] /\ read' = read
  BY <1>1 DEF FilesSame, ReaderSame
<1>6. Spools(d) BY DEF ContentInv, SpoolInv
<1>7. CASE Ends(d)
  <2>1. SpoolInv' BY <1>1, <1>2, <1>5, <1>7, SimpleSpools DEF ContentInv
  <2>2. KeepsFiles(d) BY <1>3, <1>5, <1>7 DEF Ends, Gone, KeepsFiles, WritePlaces
  <2>3. ShadowInv => ShadowInv' BY <1>1, <1>2, <2>2, FilesKept
  <2> QED BY <1>1, <2>1, <2>3 DEF ContentInv, OnlyDoc
<1>8. CASE Spooled(d)
  <2>1. /\ app'[d] \in {"shadow", "done"} /\ job'[d].queued /\ job'[d].hFileItem = h
        /\ Is(d, "PENDING_DELETION") => Is(d, "PENDING_DELETION")'
    BY <1>8 DEF Spooled, Is
  <2>2. File(d)' = File(d) BY <1>5, <2>1 DEF File
  <2>3. Spools(d)' BY <1>4, <1>5, <1>6, <2>1, <2>2 DEF Spools
  <2>4. SpoolInv' BY <1>1, <1>2, <2>3, SpoolsAfter DEF ContentInv
  <2>5. item'[h].phase = "used" /\ (item[h].Shd => item'[h].Shd)
    <3> DEFINE w == FinishedWriting(item[h])
    <3>1. w.Shd = item[h].Shd /\ w.phase = item[h].phase BY <1>3, FinishedHandles
    <3>2. SameHandles(w, item'[h]) BY <1>3, <1>8, <2>1 DEF Spooled, ItemOf
    <3> HIDE DEF w
    <3> QED BY <1>3, <3>1, <3>2 DEF SameHandles
  <2>6. ASSUME ShadowInv PROVE ShadowInv'
    <3>1. port[d] = "write" => item[h].Shd BY <1>3, <2>6 DEF ShadowInv, ShadowOpen
    <3>2. KeepsFiles(d) BY <1>5, <2>1, <2>5, <3>1 DEF KeepsFiles, WritePlaces
    <3> QED BY <1>1, <1>2, <2>6, <3>2, FilesKept
  <2> QED BY <1>1, <2>4, <2>6 DEF ContentInv, OnlyDoc
<1>9. CASE ClosesFiles(d)
  <2>1. job' = job /\ app'[d] \in {"closing", "closed"} BY <1>9 DEF ClosesFiles
  <2>2. Spools(d)' BY <1>4, <1>5, <1>6, <2>1 DEF Spools, Is
  <2>3. SpoolInv' BY <1>1, <1>2, <2>2, SpoolsAfter DEF ContentInv
  <2>4. item'[h].phase = "used" /\ (item[h].Shd => item'[h].Shd)
    <3>1. /\ FPCloseFiles(item[h]).phase = "used"
          /\ item[h].Shd => FPCloseFiles(item[h]).Shd
      BY <1>3, <1>4, FilesClosed, ClosedHandles DEF Same
    <3>2. ItemOf(d)' = item'[h] BY <2>1 DEF ItemOf
    <3>3. item'[h] = item[h] \/ item'[h] = FPCloseFiles(item[h])
      BY <1>3, <1>9, <3>2 DEF ClosesFiles
    <3> QED BY <1>3, <3>1, <3>3
  <2>5. ASSUME ShadowInv PROVE ShadowInv'
    <3>1. port[d] = "write" => item[h].Shd BY <1>3, <2>5 DEF ShadowInv, ShadowOpen
    <3>2. app[d] \in WritePlaces BY <1>1 DEF WritePlaces
    <3>3. KeepsFiles(d) BY <1>5, <2>1, <2>4, <3>1, <3>2 DEF KeepsFiles
    <3> QED BY <1>1, <1>2, <2>5, <3>3, FilesKept
  <2> QED BY <1>1, <2>3, <2>5 DEF ContentInv, OnlyDoc
<1> QED BY <1>1, <1>7, <1>8, <1>9

\* A port that opens, moves or gives back its handle changes no file.
LEMMA ReaderContent ==
  ASSUME PoolInv, HandleInv, ContentInv, NEW d \in Docs,
         (OpenPrinter(d) /\ ~ Is(d, "PENDING_DELETION")) \/ ReadPrinter(d) \/ ClosePrinter(d)
  PROVE  ContentInv'
<1>1. /\ OnlyDoc(d) /\ job[d].queued /\ FilesSame(d) /\ UNCHANGED <<app, job>>
      /\ port'[d] \in {"reading", "printed"}
      /\ \/ ItemOf(d)' = GetReaderFromHandle(ItemOf(d))
         \/ \E n \in Int : hReadFile[d] # "none" /\ ItemOf(d)' = [ItemOf(d) EXCEPT ![hReadFile[d]] = n]
  <2>1. read \in [Docs -> Nat] BY DEF HandleInv, HandleTypes
  <2>2. CASE OpenPrinter(d) /\ ~ Is(d, "PENDING_DELETION")
    BY <2>2, OpenPrinterDoes DEF StartsReading
  <2>3. ASSUME ReadPrinter(d) \/ ClosePrinter(d) PROVE hReadFile[d] # "none" /\ Position(d) \in Int
    <3>1. Has(d) /\ port[d] \in ReadPlaces
      BY <2>3, AppJob DEF ReadPrinter, ClosePrinter, PortRefs, Has, ReadPlaces
    <3>2. Reader(d) /\ read[d] \in Nat BY <2>1, <3>1, HandleFacts
    <3> QED BY <3>1, <3>2 DEF Reader
  <2>4. CASE ReadPrinter(d)
    <3>1. Position(d) + 1 \in Int BY <2>3, <2>4
    <3> QED BY <2>1, <2>3, <2>4, <3>1, ReadPrinterDoes DEF MovesReader
  <2>5. CASE ClosePrinter(d) BY <2>1, <2>3, <2>5, ClosePrinterDoes DEF MovesReader
  <2> QED BY <2>2, <2>4, <2>5
<1>2. Has(d) BY <1>1 DEF Has
<1> DEFINE h == job[d].hFileItem
<1>3. /\ ItemOf(d) = item[h] /\ item[h].phase = "used" /\ item[h] \in ItemRecs
      /\ hReadFile[d] \in {"none", "SplWrite", "SplRead"} /\ ItemOf(d)' = item'[h]
  BY <1>1, <1>2, DocFacts, HandleFacts DEF PoolInv, Ownership, OwnersHave, ItemOf
<1>4. item'[h].phase = item[h].phase /\ item'[h].Shd = item[h].Shd
  <2>1. CASE ItemOf(d)' = GetReaderFromHandle(ItemOf(d))
    <3>1. GetReaderFromHandle(item[h]).phase = item[h].phase BY <1>3, ReaderOfItem DEF Same
    <3>2. GetReaderFromHandle(item[h]).Shd = item[h].Shd BY <1>3 DEF GetReaderFromHandle, ItemRecs
    <3> QED BY <1>3, <2>1, <3>1, <3>2
  <2>2. CASE \E n \in Int : hReadFile[d] # "none" /\ ItemOf(d)' = [ItemOf(d) EXCEPT ![hReadFile[d]] = n]
    <3>1. PICK n \in Int : hReadFile[d] # "none" /\ item'[h] = [item[h] EXCEPT ![hReadFile[d]] = n]
      BY <1>3, <2>2
    <3>2. hReadFile[d] \in {"SplWrite", "SplRead"} BY <1>3, <3>1
    <3> QED BY <1>3, <3>1, <3>2, OneHandleMoved
  <2> QED BY <1>1, <2>1, <2>2
<1>5. spl'[h] = spl[h] /\ shd'[h] = shd[h] BY <1>1 DEF FilesSame
<1>6. SpoolInv'
  <2>1. Spools(d) BY DEF ContentInv, SpoolInv
  <2>2. File(d)' = File(d) BY <1>1, <1>5 DEF File
  <2>3. Spools(d)' BY <1>1, <2>1, <2>2 DEF Spools, Is
  <2> QED BY <1>1, <1>2, <2>3, SpoolsAfter DEF ContentInv
<1>7. ASSUME ShadowInv PROVE ShadowInv'
  <2>1. app[d] = "write" => item[h].Shd BY <1>3, <1>7 DEF ShadowInv, ShadowOpen
  <2>2. KeepsFiles(d) BY <1>1, <1>3, <1>4, <1>5, <2>1 DEF KeepsFiles
  <2> QED BY <1>1, <1>2, <1>7, <2>2, FilesKept
<1> QED BY <1>1, <1>6, <1>7 DEF ContentInv, OnlyDoc

----------------------------------------------------------------------------
(* A job takes an item; items nobody has, the scheduler, a restart.         *)

\* The item is free, or of a number that is new since the start: no shadow file
\* of its name says that a document is spooled.
LEMMA StartDocPrinterContent ==
  ASSUME PoolInv, FilesCanBeCreated, HandleInv, ContentInv, NEW d \in Docs, StartDocPrinter(d)
  PROVE  ContentInv'
<1>1. PICK i \in Items : Takes(d, i) BY StartDocPrinterDoes
<1>2. port[d] = "none" /\ Items \subseteq Nat /\ CurrentNum \in Nat
  BY StartDocPrinterDoes, Known DEF HandleInv, HandleTypes
<1>3. /\ item'[i].phase = "used" /\ app'[d] = "item" /\ ~ job'[d].queued /\ job'[d].hFileItem = i
      /\ \/ item[i].phase = "free" /\ CurrentNum' = CurrentNum
         \/ item[i].phase = "none" /\ i >= CurrentNum /\ CurrentNum' = i + 1
      /\ read' = read /\ port' = port /\ shd' = shd /\ crashes' = crashes
  BY <1>1 DEF Takes
<1>4. ASSUME NEW c \in Docs, c # d
      PROVE  /\ app'[c] = app[c] /\ job'[c] = job[c]
             /\ Has(c) => /\ job[c].hFileItem # i /\ ItemOf(c)' = ItemOf(c) /\ File(c)' = File(c)
  <2>1. app'[c] = app[c] /\ job'[c] = job[c] BY <1>1, <1>4 DEF Takes
  <2>2. Has(c) => job[c].hFileItem \in Items /\ item[job[c].hFileItem].phase = "used"
    BY DEF PoolInv, Ownership, OwnersHave, ItemOf
  <2>3. \A n \in Items : n # i => item'[n] = item[n] /\ spl'[n] = spl[n] BY <1>1 DEF Takes
  <2> QED BY <1>3, <2>1, <2>2, <2>3 DEF ItemOf, File
<1>5. SpoolInv'
  <2>1. Spools(d)' BY <1>2, <1>3 DEF Spools
  <2>2. ASSUME NEW c \in Docs, c # d PROVE Spools(c)'
    <3>1. Spools(c) BY DEF ContentInv, SpoolInv
    <3>2. CASE Has(c) BY <1>3, <1>4, <2>2, <3>1, <3>2 DEF Spools, Is
    <3>3. CASE ~ Has(c) BY <1>3, <1>4, <2>2, <3>3, HasNone DEF Spools
    <3> QED BY <3>2, <3>3
  <2> QED BY <2>1, <2>2 DEF SpoolInv
<1>6. ASSUME ShadowInv PROVE ShadowInv'
  <2>1. ~ Good(i) BY <1>2, <1>3, <1>6 DEF ShadowInv, ShadowTrue
  <2>2. i < CurrentNum' /\ CurrentNum <= CurrentNum' /\ CurrentNum' \in Nat
    <3>1. ShadowTrue(i) BY <1>6 DEF ShadowInv
    <3>2. CASE item[i].phase = "free" /\ CurrentNum' = CurrentNum
      BY <1>2, <3>1, <3>2 DEF ShadowTrue
    <3>3. CASE i >= CurrentNum /\ CurrentNum' = i + 1 BY <1>2, <3>3
    <3> QED BY <1>3, <3>2, <3>3
  <2>3. ASSUME NEW n \in Items PROVE ShadowTrue(n)'
    <3>1. ShadowTrue(n) /\ n \in Nat BY <1>2, <1>6 DEF ShadowInv
    <3>2. CASE n = i BY <1>3, <2>1, <2>2, <3>2 DEF ShadowTrue, Good
    <3>3. CASE n # i
      <4>1. item'[n] = item[n] /\ spl'[n] = spl[n] BY <1>1, <3>3 DEF Takes
      <4>2. n < CurrentNum => n < CurrentNum' BY <1>2, <2>2, <3>1
      <4> QED BY <1>3, <3>1, <4>1, <4>2 DEF ShadowTrue, Good
    <3> QED BY <3>2, <3>3
  <2>4. ShadowOpen(d)' BY <1>2, <1>3, <2>1 DEF ShadowOpen, Good
  <2>5. ASSUME NEW c \in Docs, c # d PROVE ShadowOpen(c)'
    <3>1. ShadowOpen(c) BY <1>6 DEF ShadowInv
    <3>2. CASE Has(c) BY <1>3, <1>4, <2>5, <3>1, <3>2 DEF ShadowOpen, Good
    <3>3. CASE ~ Has(c) BY <1>3, <1>4, <2>5, <3>3, HasNone DEF ShadowOpen, WritePlaces
    <3> QED BY <3>2, <3>3
  <2> QED BY <2>3, <2>4, <2>5 DEF ShadowInv
<1> QED BY <1>3, <1>5, <1>6 DEF ContentInv

LEMMA UnusedContent ==
  ASSUME PoolInv, ContentInv, Unused
  PROVE  ContentInv'
<1>1. UNCHANGED <<app, port, job, read, CurrentNum, crashes>> BY DEF Unused
<1>2. ASSUME NEW c \in Docs, Has(c)
      PROVE  /\ job[c].hFileItem \in Items /\ ItemOf(c)' = ItemOf(c) /\ File(c)' = File(c)
             /\ Good(job[c].hFileItem)' => shd'[job[c].hFileItem] = shd[job[c].hFileItem]
  <2>1. job[c].hFileItem \in Items /\ item[job[c].hFileItem].phase = "used"
    BY <1>2 DEF PoolInv, Ownership, OwnersHave, ItemOf
  <2> QED BY <1>1, <2>1 DEF Unused, ItemOf, File, Good
<1>3. ASSUME NEW c \in Docs PROVE Spools(c)'
  <2>1. Spools(c) BY DEF ContentInv, SpoolInv
  <2>2. CASE Has(c) BY <1>1, <1>2, <2>1, <2>2 DEF Spools, Is
  <2>3. CASE ~ Has(c) BY <1>1, <2>3, HasNone DEF Spools
  <2> QED BY <2>2, <2>3
<1>4. ASSUME ShadowInv PROVE ShadowInv'
  <2>1. ASSUME NEW n \in Items PROVE ShadowTrue(n)'
    <3>1. ShadowTrue(n) BY <1>4 DEF ShadowInv
    <3>2. /\ shd'[n] = shd[n] \/ shd'[n].file # "good"
          /\ spl'[n] = spl[n] \/ ~ spl'[n].exists \/ item[n].phase = "truncate"
          /\ \/ item'[n].phase = item[n].phase /\ item'[n].Shd = item[n].Shd
             \/ item[n].phase = "leaving" /\ item'[n].phase = "truncate"
                  /\ (item[n].Shd => shd'[n].file # "good")
             \/ item[n].phase \in {"truncate", "free"} /\ item'[n].phase \in {"free", "delete"}
             \/ item'[n].phase = "none"
      BY DEF Unused
    <3>3. Good(n)' => Good(n) /\ shd'[n] = shd[n] BY <3>2 DEF Good
    <3>4. Good(n)' /\ shd'[n].Status = {} /\ spl'[n].exists => spl'[n].data = Part(shd'[n].doc, Pages)
      BY <3>1, <3>2, <3>3 DEF ShadowTrue
    <3>5. item'[n].phase \in {"truncate", "free", "delete"} => ~ Good(n)'
      BY <3>1, <3>2, <3>3 DEF ShadowTrue, Good
    <3>6. Good(n)' /\ item'[n].phase \in {"used", "leaving"} => item'[n].Shd
      BY <3>1, <3>2, <3>3 DEF ShadowTrue
    <3>7. Good(n)' \/ item'[n].phase # "none" => n < CurrentNum'
      BY <1>1, <3>1, <3>2, <3>3 DEF ShadowTrue
    <3> QED BY <3>4, <3>5, <3>6, <3>7 DEF ShadowTrue, Part
  <2>2. ASSUME NEW c \in Docs PROVE ShadowOpen(c)'
    <3>1. ShadowOpen(c) BY <1>4 DEF ShadowInv
    <3>2. CASE Has(c)
      <4>1. Good(job[c].hFileItem)' => Good(job[c].hFileItem) /\ shd'[job[c].hFileItem] = shd[job[c].hFileItem]
        BY <1>1, <1>2, <3>2 DEF Good
      <4> QED BY <1>1, <1>2, <3>1, <3>2, <4>1 DEF ShadowOpen, Good
    <3>3. CASE ~ Has(c) BY <1>1, <3>3, HasNone DEF ShadowOpen, WritePlaces
    <3> QED BY <3>2, <3>3
  <2> QED BY <2>1, <2>2 DEF ShadowInv
<1> QED BY <1>1, <1>3, <1>4 DEF ContentInv, SpoolInv

LEMMA SchedulerContent ==
  ASSUME PoolInv, ContentInv, Schedules
  PROVE  ContentInv'
<1>1. UNCHANGED <<app, read, item, spl, shd, CurrentNum, crashes>> BY DEF Schedules
<1>2. ASSUME NEW d \in Docs
      PROVE  /\ job'[d].queued = job[d].queued /\ job'[d].hFileItem = job[d].hFileItem
             /\ Is(d, "SPOOLING")' <=> Is(d, "SPOOLING")
             /\ Is(d, "PENDING_DELETION")' <=> Is(d, "PENDING_DELETION")
             /\ port'[d] = port[d] \/ (port[d] = "none" /\ port'[d] = "assigned")
             /\ ItemOf(d)' = ItemOf(d) /\ File(d)' = File(d)
  BY <1>1 DEF Schedules, Is, ItemOf, File
<1>3. SpoolInv'
  <2>1. ASSUME NEW d \in Docs PROVE Spools(d)'
    <3>1. Spools(d) BY DEF ContentInv, SpoolInv
    <3> QED BY <1>1, <1>2, <3>1 DEF Spools
  <2> QED BY <2>1 DEF SpoolInv
<1>4. ASSUME ShadowInv PROVE ShadowInv'
  <2>1. ASSUME NEW n \in Items PROVE ShadowTrue(n)'
    <3>1. ShadowTrue(n) BY <1>4 DEF ShadowInv
    <3> QED BY <1>1, <3>1 DEF ShadowTrue, Good
  <2>2. ASSUME NEW d \in Docs PROVE ShadowOpen(d)'
    <3>1. ShadowOpen(d) BY <1>4 DEF ShadowInv
    <3> QED BY <1>1, <1>2, <3>1 DEF ShadowOpen, Good
  <2> QED BY <2>1, <2>2 DEF ShadowInv
<1> QED BY <1>1, <1>3, <1>4 DEF ContentInv

\* The first crash finds what the shadow files say.
LEMMA CrashContent ==
  ASSUME CrashesOnce, HandleInv, ContentInv, Restarts
  PROVE  ContentInv'
<1>1. crashes = 0 /\ crashes' = 1
  BY ConstantsAssumption DEF CrashesOnce, HandleInv, HandleTypes, Restarts
<1>2. \A i \in Items : ShadowTrue(i) BY <1>1 DEF ContentInv, ShadowInv
<1>3. ASSUME NEW d \in Docs PROVE Spools(d)'
  <2>1. port'[d] = "none" BY DEF Restarts
  <2>2. ASSUME job'[d].queued PROVE File(d)'.data = Part(d, Pages)
    <3>1. PICK i \in Items : /\ i = job'[d].hFileItem /\ Readable(i) /\ shd[i].doc = d
                             /\ spl'[i] = spl[i]
      BY <2>2 DEF Restarts
    <3>2. spl[i].data = Part(shd[i].doc, Pages) BY <1>2, <3>1 DEF Readable, ShadowTrue, Good
    <3> QED BY <3>1, <3>2 DEF File
  <2> QED BY <2>1, <2>2 DEF Spools, Part
<1> QED BY <1>1, <1>3 DEF ContentInv, SpoolInv

----------------------------------------------------------------------------
(* The invariant of the contents holds.                                     *)

LEMMA InitContent ==
  ASSUME Init
  PROVE  ContentInv
<1>1. /\ app = [d \in Docs |-> "new"] /\ port = [d \in Docs |-> "none"]
      /\ job = [d \in Docs |-> NoJob] /\ item = [i \in Items |-> NoItem]
      /\ shd = [i \in Items |-> NoShd]
  BY DEF Init
<1>2. \A i \in Items : ~ Good(i) /\ item[i].phase = "none"
  BY <1>1, NoFiles DEF Good, NoItem
<1>3. \A d \in Docs : app[d] = "new" /\ port[d] = "none" /\ ~ job[d].queued BY <1>1 DEF NoJob
<1> QED BY <1>2, <1>3 DEF ContentInv, SpoolInv, Spools, ShadowInv, ShadowTrue, ShadowOpen, WritePlaces

LEMMA NextContent ==
  ASSUME FilesCanBeCreated, CrashesOnce, PoolInv, HandleInv, ContentInv, [Next]_vars
  PROVE  ContentInv'
<1>1. CASE UNCHANGED vars
  <2>1. UNCHANGED <<app, port, job, read, item, spl, shd, CurrentNum, crashes>>
    BY <1>1 DEF vars, reader, pool, disk
  <2> QED BY <2>1 DEF ContentInv, SpoolInv, Spools, ShadowInv, ShadowTrue, ShadowOpen, Good, Is, ItemOf,
      File
<1>2. ASSUME NEW d \in Docs,
             StartDocPrinter(d) \/ AppStep(d) \/ PortStep(d) \/ DeleteByUser(d) \/ Cancelled(d)
      PROVE  ContentInv'
  <2>1. CASE StartDocPrinter(d) BY <2>1, StartDocPrinterContent
  <2>2. CASE AppStep(d)
    BY <2>2, SpoolThisJobContent, UntouchedContent, WritePrinterContent, EndDocContent,
       OpenShadowContent, WriteShadowContent DEF AppStep
  <2>3. CASE PortStep(d)
    BY <2>3, UntouchedContent, OpenShadowContent, WriteShadowContent, ReaderContent DEF PortStep
  <2>4. CASE DeleteByUser(d) \/ Cancelled(d) BY <2>4, UntouchedContent
  <2> QED BY <1>2, <2>1, <2>2, <2>3, <2>4
<1>3. ASSUME NEW i \in Items, ReleaseStep(i) \/ TimePasses(i) PROVE ContentInv'
  BY <1>3, TruncateShadowDoes, TruncateSpoolDoes, DeleteFilesDo, UnusedContent DEF ReleaseStep
<1>4. CASE SchedulerThread BY <1>4, SchedulerDoes, SchedulerContent
<1>5. CASE TrimPool BY <1>5, TrimPoolDoes, UnusedContent
<1>6. CASE Crash BY <1>6, CrashDoes, CrashContent
<1> QED BY <1>1, <1>2, <1>3, <1>4, <1>5, <1>6 DEF Next

LEMMA ContentInvariant ==
  ASSUME FilesCanBeCreated, CrashesOnce
  PROVE  Spec => [](PoolInv /\ HandleInv /\ ContentInv)
<1>1. FilesCanBeCreated /\ CrashesOnce OBVIOUS
<1>2. Spec => [](PoolInv /\ HandleInv) BY <1>1, HandleInvariant
<1>3. Init => ContentInv BY InitContent
<1>4. PoolInv /\ HandleInv /\ ContentInv /\ [Next]_vars => ContentInv' BY <1>1, NextContent
<1> QED BY <1>2, <1>3, <1>4, PTL DEF Spec

\* A job that is spooled has its own document, whole, in its spool file: what an
\* item was used for before never shows, nor does the shadow file of one document
\* speak for the pages of another when the spooler starts again.
THEOREM DataKept ==
  ASSUME FilesCanBeCreated, CrashesOnce
  PROVE  Spec => []JobsKeepTheirData
<1>1. FilesCanBeCreated /\ CrashesOnce OBVIOUS
<1>2. Spec => [](PoolInv /\ HandleInv /\ ContentInv) BY <1>1, ContentInvariant
<1>3. PoolInv /\ HandleInv /\ ContentInv => JobsKeepTheirData
  <2>1. SUFFICES ASSUME PoolInv, HandleInv, ContentInv, NEW d \in Docs, job[d].queued,
                        ~ Is(d, "SPOOLING"), ~ Is(d, "PENDING_DELETION")
                 PROVE  spl[job[d].hFileItem] = [exists |-> TRUE, data |-> [k \in 1 .. Pages |-> d]]
    BY DEF JobsKeepTheirData
  <2>2. PICK h \in Items : h = job[d].hFileItem /\ spl[h].exists
    BY <2>1, DocFacts DEF Has
  <2>3. spl[h].exists \in BOOLEAN BY <2>1 DEF HandleInv, HandleTypes
  <2>4. spl[h] = [exists |-> spl[h].exists, data |-> spl[h].data] BY <2>1 DEF PoolInv, Types
  <2>5. spl[h].data = Part(d, Pages) BY <2>1, <2>2 DEF ContentInv, SpoolInv, Spools, File
  <2>6. spl[h].exists = TRUE BY <2>2, <2>3
  <2> QED BY <2>2, <2>4, <2>5, <2>6 DEF Part
<1> QED BY <1>2, <1>3, PTL

\* A port reads with a handle that is where the port left it, through to the end
\* of the document, before the job is deleted as sent to the printer.
THEOREM DocumentsReadWhole ==
  ASSUME FilesCanBeCreated, CrashesOnce
  PROVE  Spec => []ReadsInOrder
<1>1. FilesCanBeCreated /\ CrashesOnce OBVIOUS
<1>2. Spec => [](PoolInv /\ HandleInv /\ ContentInv) BY <1>1, ContentInvariant
<1>3. PoolInv /\ HandleInv /\ ContentInv => ReadsInOrder
  <2>1. SUFFICES ASSUME PoolInv, HandleInv, ContentInv, NEW d \in Docs
                 PROVE  /\ port[d] \in {"reading", "cancel", "sent"} => Position(d) = read[d]
                        /\ port[d] \in {"cancel", "sent"} => read[d] = Pages
    BY DEF ReadsInOrder
  <2>2. Reader(d) /\ Spools(d) BY <2>1 DEF HandleInv, ContentInv, SpoolInv
  <2> QED BY <2>2 DEF Reader, Spools, ReadPlaces
<1> QED BY <1>2, <1>3, PTL

=============================================================================
