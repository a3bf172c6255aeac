------------------------ MODULE FlashcacheDataProofs ------------------------
(***************************************************************************)
(* For any number of slots, disk blocks and bios and any number of         *)
(* crashes, as long as no metadata write fails: the metadata on flash is   *)
(* never behind the blocks in memory, acknowledged writes survive a crash, *)
(* reads return current data, and so the cache set implements the block    *)
(* device, which has no cache.  Until the first crash reads are current    *)
(* and the set is that device even if metadata writes fail.                *)
(***************************************************************************)
EXTENDS FlashcacheProofs, FlashcacheDataInv

USE DEF slotVars, mdVars, devVars, ghostVars

-----------------------------------------------------------------------------
(* What a step that does not move the metadata pipeline must respect       *)

(* No block becomes dirty, and a dirty block keeps its identity.           *)
NoNewDirt ==
  \A t \in Slots : "DIRTY" \in cache_state'[t] =>
    "DIRTY" \in cache_state[t] /\ dbn'[t] = dbn[t]

(* The blocks whose update is being written are left alone.                *)
UpdatesStay ==
  \A t \in md_io : dbn'[t] = dbn[t] /\ job'[t].act = job[t].act

(* No job is to retry its bio from the disk in write-back mode, if the     *)
(* metadata updates do not fail.                                           *)
NoRetry(s) == NoMdFaults /\ job[s].phase = "pend" /\ job[s].err /\ job[s].bio # None
                => CacheMode # "WRITE_BACK"

LEMMA MdStays ==
  ASSUME MdTypeOK, MdCurrentInv, NoNewDirt, UpdatesStay, \A t \in Slots : NoRetry(t)',
         UNCHANGED <<md_phase, md_io, md_image, md_error, flash_md>>
  PROVE  MdCurrentInv'
  BY DEF MdTypeOK, MdCurrentInv, NoNewDirt, UpdatesStay, NoRetry, CleanLanded, MdLanded, Bits, DirtyRecord

(* A step that works on one block, whose job is not in the pipeline.       *)
LEMMA MdStaysOne ==
  ASSUME IInv, MdCurrentInv, NEW s \in Slots, job[s].phase # "md",
         "DIRTY" \in cache_state'[s] => "DIRTY" \in cache_state[s] /\ dbn'[s] = dbn[s],
         NoRetry(s)',
         \A t \in Slots \ {s} : /\ cache_state'[t] = cache_state[t]
                                /\ dbn'[t] = dbn[t] /\ job'[t] = job[t],
         UNCHANGED <<md_phase, md_io, md_image, md_error, flash_md>>
  PROVE  MdCurrentInv'
  <1>1. NoNewDirt BY DEF NoNewDirt
  <1>2. UpdatesStay BY DEF UpdatesStay, IInv, BlockInv, PipelineInv, MdTypeOK
  <1>3. \A t \in Slots : NoRetry(t)' BY DEF NoRetry, MdCurrentInv
  <1> QED BY <1>1, <1>2, <1>3, MdStays DEF IInv, BlockInv

(* A metadata update joins the pipeline.                                   *)
LEMMA MdWriteMd ==
  ASSUME IInv, MdCurrentInv, NEW s \in Slots, job[s].phase = "io", MdWrite(s),
         UNCHANGED <<dbn, flash_md>>
  PROVE  MdCurrentInv'
  <1> USE DEF IInv, BlockInv
  <1>1. \A t \in Slots : /\ job'[t].act = job[t].act
                         /\ t # s => job'[t] = job[t]
    BY DEF MdWrite, JobTypeOK, JobType
  <1>2. job'[s].phase = "md" BY DEF MdWrite, JobTypeOK, JobType
  <1>3. \A t \in Slots : NoRetry(t)' BY <1>1, <1>2 DEF NoRetry, MdCurrentInv
  <1>4. CASE md_phase = "idle"
    BY <1>1, <1>3, <1>4
    DEF MdWrite, MdCurrentInv, NoRetry, CleanLanded, MdLanded, Bits, DirtyRecord, PipelineInv
  <1>5. CASE md_phase # "idle"
    <2>1. UNCHANGED <<md_phase, md_io, md_image, md_error, cache_state>>
      BY <1>5 DEF MdWrite
    <2>2. NoNewDirt BY <2>1 DEF NoNewDirt
    <2>3. UpdatesStay BY <1>1 DEF UpdatesStay, MdTypeOK
    <2> QED BY <1>3, <2>1, <2>2, <2>3, MdStays
  <1> QED BY <1>4, <1>5

(* An I/O ends.                                                            *)
LEMMA FinishIoMd ==
  ASSUME IInv, MdCurrentInv, NEW s \in Slots, job[s].phase = "io", NEW error \in BOOLEAN,
         NEW b \in Bios \cup {None}, FinishIo(s, error, b),
         b # None => CacheMode # "WRITE_BACK",
         UNCHANGED <<dbn, mdVars, flash_md>>
  PROVE  MdCurrentInv'
  <1> USE DEF IInv, BlockInv
  <1>1. \A t \in Slots \ {s} : cache_state'[t] = cache_state[t] /\ job'[t] = job[t]
    BY DEF FinishIo, SlotTypeOK, JobTypeOK
  <1>2. "DIRTY" \in cache_state'[s] => "DIRTY" \in cache_state[s]
    BY DEF FinishIo, SlotTypeOK
  <1>3. NoRetry(s)' BY DEF NoRetry, FinishIo, JobTypeOK, JobType, NoJob
  <1> QED BY <1>1, <1>2, <1>3, MdStaysOne

LEMMA FailBioMd ==
  ASSUME IInv, MdCurrentInv, NEW s \in Slots, job[s].phase = "io", job[s].act # "WRITEDISK",
         FailBio(s), UNCHANGED <<dbn, mdVars, flash_md>>
  PROVE  MdCurrentInv'
  <1>1. PICK b \in {None, job[s].bio} :
          FinishIo(s, TRUE, b) /\ (b # None => CacheMode # "WRITE_BACK")
    BY DEF FailBio
  <1>2. b \in Bios \cup {None} BY JobBio
  <1> QED BY <1>1, <1>2, FinishIoMd

(* Clean copies are dropped.                                               *)
LEMMA InvalidateCleanMd ==
  ASSUME IInv, MdCurrentInv, NEW d \in Dbns, InvalidateClean(d),
         UNCHANGED <<dbn, job, mdVars, flash_md>>
  PROVE  MdCurrentInv'
  <1>1. NoNewDirt BY DEF NoNewDirt, InvalidateClean
  <1>2. UpdatesStay BY DEF UpdatesStay
  <1>3. \A t \in Slots : NoRetry(t)' BY DEF NoRetry, MdCurrentInv
  <1> QED BY <1>1, <1>2, <1>3, MdStays DEF IInv, BlockInv

LEMMA CleanForInvalidateMd ==
  ASSUME IInv, MdCurrentInv, NEW s \in Slots, CleanForInvalidate(s),
         UNCHANGED <<dbn, mdVars, flash_md>>
  PROVE  MdCurrentInv'
  <1> USE DEF IInv, BlockInv
  <1>1. CASE UNCHANGED <<cache_state, job>>
    BY <1>1, MdStays DEF NoNewDirt, UpdatesStay, NoRetry, MdCurrentInv
  <1>2. CASE /\ ~Busy(s)
             /\ cache_state' = [cache_state EXCEPT ![s] = @ \cup {"DISKWRITEINPROG"}]
             /\ job' = [job EXCEPT ![s] = Job("WRITEDISK", "wb", None)]
    <2>1. job[s].phase = "none" BY <1>2, IdleHasNoJob
    <2>2. NoRetry(s)' BY <1>2 DEF NoRetry, JobTypeOK, Job
    <2>3. \A t \in Slots \ {s} : cache_state'[t] = cache_state[t] /\ job'[t] = job[t]
      BY <1>2 DEF SlotTypeOK, JobTypeOK
    <2>4. "DIRTY" \in cache_state'[s] => "DIRTY" \in cache_state[s]
      BY <1>2 DEF SlotTypeOK
    <2> QED BY <2>1, <2>2, <2>3, <2>4, MdStaysOne
  <1> QED BY <1>1, <1>2 DEF CleanForInvalidate

LEMMA GiveUpMd ==
  ASSUME IInv, MdCurrentInv, NEW s \in Slots, job[s].phase = "pend", GiveUpUnlessDirty(s),
         UNCHANGED <<dbn, mdVars, flash_md>>
  PROVE  MdCurrentInv'
  <1> USE DEF IInv, BlockInv
  <1>1. \A t \in Slots \ {s} : cache_state'[t] = cache_state[t] /\ job'[t] = job[t]
    BY DEF GiveUpUnlessDirty, SlotTypeOK, JobTypeOK
  <1>2. "DIRTY" \in cache_state'[s] => "DIRTY" \in cache_state[s]
    BY DEF GiveUpUnlessDirty, SlotTypeOK
  <1>3. NoRetry(s)' BY DEF NoRetry, GiveUpUnlessDirty, JobTypeOK, NoJob
  <1> QED BY <1>1, <1>2, <1>3, MdStaysOne

-----------------------------------------------------------------------------
(* The steps                                                               *)

LEMMA InitMd == Init => MdCurrentInv
  BY DEF Init, MdCurrentInv, NoJob, Bits

LEMMA BioArrivesMd ==
  ASSUME IInv, MdCurrentInv, NEW b \in Bios, BioArrives(b) PROVE MdCurrentInv'
  <1> USE DEF IInv, BlockInv
  <1>1. PICK d \in Dbns, dir \in {"READ", "WRITE"} :
          \/ MapUncached(b, d, dir) \/ MapUncachedConflict(b, d, dir) \/ MapFails(b, d, dir)
          \/ MapHit(b, d, dir) \/ MapHitBusy(b, d, dir) \/ MapMiss(b, d, dir)
    BY DEF BioArrives
  <1>2. CASE MapUncached(b, d, dir)
    BY <1>2, InvalidateCleanMd DEF MapUncached
  <1>3. CASE MapUncachedConflict(b, d, dir)
    <2>1. PICK s \in Conflicts(d) : CleanForInvalidate(s)
      BY <1>3 DEF MapUncachedConflict
    <2>2. s \in Slots BY DEF Conflicts, Cached, SlotTypeOK
    <2> QED BY <1>3, <2>1, <2>2, CleanForInvalidateMd DEF MapUncachedConflict
  <1>4. CASE MapFails(b, d, dir) \/ MapHitBusy(b, d, dir)
    <2>1. UNCHANGED <<cache_state, dbn, job, mdVars, flash_md>>
      BY <1>4 DEF MapFails, MapHitBusy
    <2> QED BY <2>1, MdStays DEF NoNewDirt, UpdatesStay, NoRetry, MdCurrentInv
  <1>5. CASE MapHit(b, d, dir)
    <2>1. PICK s \in Cached(d), act \in Actions :
            /\ Idle(s)
            /\ cache_state' = [cache_state EXCEPT ![s] = @ \cup {InprogBit(act)}]
            /\ job' = [job EXCEPT ![s] = Job(act, "hit", b)]
      BY <1>5 DEF MapHit, Actions
    <2>2. s \in Slots /\ job[s].phase = "none"
      BY <2>1, IdleHasNoJob DEF Cached, SlotTypeOK, Idle
    <2>3. "DIRTY" \in cache_state'[s] => "DIRTY" \in cache_state[s]
      BY <2>1, <2>2 DEF SlotTypeOK, InprogBit
    <2>4. NoRetry(s)' BY <2>1, <2>2 DEF NoRetry, JobTypeOK, Job
    <2>5. \A t \in Slots \ {s} : cache_state'[t] = cache_state[t] /\ job'[t] = job[t]
      BY <2>1 DEF SlotTypeOK, JobTypeOK
    <2> QED BY <1>5, <2>2, <2>3, <2>4, <2>5, MdStaysOne DEF MapHit
  <1>6. CASE MapMiss(b, d, dir)
    <2>1. PICK s \in Victims, act \in Actions :
            /\ cache_state' = [cache_state EXCEPT ![s] = {"VALID", InprogBit(act)}]
            /\ dbn' = [dbn EXCEPT ![s] = d]
            /\ job' = [job EXCEPT ![s] = Job(act, "miss", b)]
      BY <1>6 DEF MapMiss, Actions
    <2>2. s \in Slots /\ Bits(s) \in {{"VALID"}, {"INVALID"}}
      BY DEF Victims, SlotTypeOK, ListInv, Bits
    <2>3. job[s].phase = "none"
      BY <2>2, IdleHasNoJob DEF Busy, Bits, BlockIoInprog
    <2>4. "DIRTY" \notin cache_state'[s]
      BY <2>1, <2>2 DEF SlotTypeOK, InprogBit
    <2>5. NoRetry(s)' BY <2>1, <2>2 DEF NoRetry, JobTypeOK, Job
    <2>6. \A t \in Slots \ {s} : /\ cache_state'[t] = cache_state[t] /\ job'[t] = job[t]
                                 /\ dbn'[t] = dbn[t]
      BY <2>1 DEF SlotTypeOK, JobTypeOK
    <2> QED BY <1>6, <2>2, <2>3, <2>4, <2>5, <2>6, MdStaysOne DEF MapMiss
  <1> QED BY <1>1, <1>2, <1>3, <1>4, <1>5, <1>6

LEMMA UncachedStepMd ==
  ASSUME IInv, MdCurrentInv, NEW b \in Bios, UncachedStep(b) PROVE MdCurrentInv'
  <1> USE DEF IInv, BlockInv
  <1>1. CASE UncachedIoDone(b) \/ UncachedIoCompleteFails(b)
    <2>1. UNCHANGED <<cache_state, dbn, job, mdVars, flash_md>>
      BY <1>1 DEF UncachedIoDone, UncachedIoCompleteFails
    <2> QED BY <2>1, MdStays DEF NoNewDirt, UpdatesStay, NoRetry, MdCurrentInv
  <1>2. CASE UncachedIoComplete(b)
    <2>1. bio[b].dbn \in Dbns BY <1>2 DEF UncachedIoComplete, RequestInv, BioInv
    <2> QED BY <1>2, <2>1, InvalidateCleanMd DEF UncachedIoComplete
  <1>3. CASE UncachedIoRequeue(b)
    <2>1. PICK s \in Conflicts(bio[b].dbn) : CleanForInvalidate(s)
      BY <1>3 DEF UncachedIoRequeue
    <2>2. s \in Slots BY DEF Conflicts, Cached, SlotTypeOK
    <2> QED BY <1>3, <2>1, <2>2, CleanForInvalidateMd DEF UncachedIoRequeue
  <1> QED BY <1>1, <1>2, <1>3 DEF UncachedStep

(* The steps of a job before and during its I/O.                           *)
LEMMA JobStepMd ==
  ASSUME IInv, MdCurrentInv, NEW s \in Slots,
         \/ StartJob(s) \/ StartJobFails(s) \/ DirtyWriteback(s) \/ DirtyWritebackFails(s)
  PROVE  MdCurrentInv'
  <1> USE DEF IInv, BlockInv
  <1>1. /\ job[s].phase \in {"hit", "miss", "wb"}
        /\ UNCHANGED <<dbn, mdVars, flash_md>>
    BY DEF StartJob, StartJobFails, DirtyWriteback, DirtyWritebackFails
  <1>2. \A t \in Slots \ {s} : cache_state'[t] = cache_state[t] /\ job'[t] = job[t]
    BY DEF StartJob, StartJobFails, DirtyWriteback, DirtyWritebackFails, SlotTypeOK, JobTypeOK
  <1>3. "DIRTY" \in cache_state'[s] => "DIRTY" \in cache_state[s]
    BY DEF StartJob, StartJobFails, DirtyWriteback, DirtyWritebackFails, SlotTypeOK
  <1>4. job'[s].phase \in {"io", "none"}
    BY DEF StartJob, StartJobFails, DirtyWriteback, DirtyWritebackFails, JobTypeOK, JobType, NoJob
  <1>5. NoRetry(s)' BY <1>4 DEF NoRetry
  <1> QED BY <1>1, <1>2, <1>3, <1>5, MdStaysOne

LEMMA IoStepMd ==
  ASSUME IInv, MdCurrentInv, NEW s \in Slots,
         \/ ReadDiskDone(s) \/ ReadFillDone(s) \/ ReadCacheDone(s)
         \/ WriteCacheDone(s) \/ WriteThroughDone(s) \/ KcopydDone(s)
  PROVE  MdCurrentInv'
  <1> USE DEF IInv, BlockInv, InIo
  <1>1. CASE ReadDiskDone(s)
    <2>1. CASE FinishIo(s, TRUE, None)
      BY <1>1, <2>1, FinishIoMd DEF ReadDiskDone
    <2>2. CASE job' = [job EXCEPT ![s].act = "READFILL"] /\ UNCHANGED cache_state
      <3>1. /\ job'[s].phase = "io" /\ \A t \in Slots \ {s} : job'[t] = job[t]
        BY <1>1, <2>2 DEF ReadDiskDone, JobTypeOK, JobType
      <3>2. NoRetry(s)' BY <3>1 DEF NoRetry
      <3> QED BY <1>1, <2>2, <3>1, <3>2, MdStaysOne DEF ReadDiskDone
    <2> QED BY <1>1, <2>1, <2>2 DEF ReadDiskDone
  <1>2. CASE ReadFillDone(s)
    BY <1>2, FinishIoMd, FailBioMd DEF ReadFillDone
  <1>3. CASE ReadCacheDone(s)
    BY <1>3, FinishIoMd, FailBioMd DEF ReadCacheDone
  <1>4. CASE WriteCacheDone(s)
    BY <1>4, FinishIoMd, FailBioMd, MdWriteMd DEF WriteCacheDone
  <1>5. CASE WriteThroughDone(s)
    BY <1>5, FinishIoMd DEF WriteThroughDone
  <1>6. CASE KcopydDone(s)
    <2>1. CASE MdWrite(s) BY <1>6, <2>1, MdWriteMd DEF KcopydDone
    <2>2. CASE /\ job' = [job EXCEPT ![s].phase = "pend", ![s].err = TRUE]
               /\ UNCHANGED <<cache_state, mdVars>>
      <3>1. job[s].bio = None BY <1>6 DEF KcopydDone, SlotInv, PhaseInv
      <3>2. /\ job'[s].bio = None /\ \A t \in Slots \ {s} : job'[t] = job[t]
        BY <2>2, <3>1 DEF JobTypeOK, JobType
      <3>3. NoRetry(s)' BY <3>2 DEF NoRetry
      <3> QED BY <1>6, <2>2, <3>2, <3>3, MdStaysOne DEF KcopydDone
    <2> QED BY <1>6, <2>1, <2>2 DEF KcopydDone
  <1> QED BY <1>1, <1>2, <1>3, <1>4, <1>5, <1>6

LEMMA PendingStepMd ==
  ASSUME IInv, MdCurrentInv, NEW s \in Slots,
         \/ DoPendingError(s) \/ DoPendingErrorRetry(s)
         \/ DoPendingDirty(s) \/ DoPendingClean(s) \/ DrainDone(s)
  PROVE  MdCurrentInv'
  <1> USE DEF IInv, BlockInv
  <1>1. CASE DoPendingError(s) \/ DoPendingErrorRetry(s)
    BY <1>1, GiveUpMd DEF DoPendingError, DoPendingErrorRetry
  <1>2. CASE DoPendingDirty(s) \/ DoPendingClean(s) \/ DrainDone(s)
    <2>1. /\ job[s].phase \in {"pend", "limbo"}
          /\ UNCHANGED <<dbn, mdVars, flash_md>>
      BY <1>2 DEF DoPendingDirty, DoPendingClean, DrainDone
    <2>2. \A t \in Slots \ {s} : cache_state'[t] = cache_state[t] /\ job'[t] = job[t]
      BY <1>2 DEF DoPendingDirty, DoPendingClean, DrainDone, SlotTypeOK, JobTypeOK
    <2>3. "DIRTY" \in cache_state'[s] => "DIRTY" \in cache_state[s]
      BY <1>2 DEF DoPendingDirty, DoPendingClean, DrainDone, SlotTypeOK
    <2>4. job'[s].phase \in {"wb", "limbo", "none"}
      BY <1>2 DEF DoPendingDirty, DoPendingClean, DrainDone, JobTypeOK, JobType, NoJob, Job
    <2>5. NoRetry(s)' BY <2>4 DEF NoRetry
    <2> QED BY <2>1, <2>2, <2>3, <2>5, MdStaysOne
  <1> QED BY <1>1, <1>2

LEMMA DrainStepMd ==
  ASSUME IInv, MdCurrentInv, NEW s \in Slots, NEW b \in Bios,
         \/ DrainPending(s, b) \/ DrainPendingConflict(s, b) \/ DrainPendingFails(s, b)
  PROVE  MdCurrentInv'
  <1> USE DEF IInv, BlockInv
  <1>1. CASE DrainPending(s, b)
    <2>1. CASE bio[b].st = "queued_inval"
      <3>1. bio[b].dbn \in Dbns BY <2>1 DEF RequestInv, BioInv
      <3> QED BY <1>1, <2>1, <3>1, InvalidateCleanMd DEF DrainPending
    <2>2. CASE bio[b].st # "queued_inval"
      <3>1. UNCHANGED <<cache_state, dbn, job, mdVars, flash_md>>
        BY <1>1, <2>2 DEF DrainPending
      <3> QED BY <3>1, MdStays DEF NoNewDirt, UpdatesStay, NoRetry, MdCurrentInv
    <2> QED BY <2>1, <2>2
  <1>2. CASE DrainPendingConflict(s, b)
    <2>1. PICK t \in Conflicts(bio[b].dbn) : CleanForInvalidate(t)
      BY <1>2 DEF DrainPendingConflict
    <2>2. t \in Slots BY DEF Conflicts, Cached, SlotTypeOK
    <2> QED BY <1>2, <2>1, <2>2, CleanForInvalidateMd DEF DrainPendingConflict
  <1>3. CASE DrainPendingFails(s, b)
    <2>1. UNCHANGED <<cache_state, dbn, job, mdVars, flash_md>>
      BY <1>3 DEF DrainPendingFails
    <2> QED BY <2>1, MdStays DEF NoNewDirt, UpdatesStay, NoRetry, MdCurrentInv
  <1> QED BY <1>1, <1>2, <1>3

LEMMA CleanSetMd ==
  ASSUME IInv, MdCurrentInv, NEW S \in SUBSET Slots, CleanSet(S) PROVE MdCurrentInv'
  <1> USE DEF IInv, BlockInv, CleanSet
  <1>1. \A s \in S : job[s].phase = "none" BY IdleHasNoJob
  <1>2. NoNewDirt BY DEF NoNewDirt
  <1>3. UpdatesStay BY <1>1 DEF UpdatesStay, PipelineInv, MdTypeOK
  <1>4. \A t \in Slots : NoRetry(t)' BY DEF NoRetry, MdCurrentInv, Job
  <1> QED BY <1>2, <1>3, <1>4, MdStays

-----------------------------------------------------------------------------
(* The steps of the pipeline, when no metadata write fails                 *)

(* No page for the md block: nothing is written.                           *)
LEMMA MdKickoffFailsMd ==
  ASSUME IInv, MdCurrentInv, MdKickoffFails PROVE MdCurrentInv'
  <1>1. /\ md_phase = "kickoff" /\ md_phase' = "done" /\ md_error' /\ ~NoMdFaults
        /\ UNCHANGED <<cache_state, dbn, job, md_io, flash_md>>
    BY DEF MdKickoffFails, MayFail, NoMdFaults
  <1> QED BY <1>1 DEF MdCurrentInv, CleanLanded, MdLanded, Bits, DirtyRecord

LEMMA MdKickoffMd ==
  ASSUME IInv, MdCurrentInv, MdKickoff PROVE MdCurrentInv'
  <1> USE DEF IInv, BlockInv
  <1>1. /\ md_phase = "kickoff" /\ md_phase' = "io" /\ md_io' = md_io \cup md_queue
        /\ UNCHANGED <<cache_state, dbn, job, md_error, flash_md>>
        /\ \A s \in Slots : md_image'[s] = MdRecord(s, md_io \cup md_queue)
    BY DEF MdKickoff
  <1>2. ASSUME NEW s \in Slots, s \in md_io', job[s].act = "WRITECACHE"
        PROVE  md_image'[s] = DirtyRecord(s)
    BY <1>1, <1>2 DEF MdRecord, DirtyRecord, DirtyBits
  <1>3. ASSUME NEW s \in Slots, "DIRTY" \in Bits(s),
               ~(s \in md_io' /\ job[s].act = "WRITEDISK")
        PROVE  md_image'[s] = DirtyRecord(s)
    <2>1. CASE s \in md_io'
      <3>1. job[s].act = "WRITECACHE" BY <1>1, <1>3, <2>1 DEF PipelineInv, SlotInv, PhaseInv
      <3> QED BY <1>2, <2>1, <3>1
    <2>2. CASE s \notin md_io'
      <3>1. "VALID" \in Bits(s) /\ "INVALID" \notin Bits(s)
        BY <1>3 DEF SlotInv, BitsInv
      <3>2. cache_state[s] \cap {"VALID", "INVALID", "DIRTY"} = DirtyBits
        BY <1>3, <3>1 DEF Bits, DirtyBits
      <3> QED BY <1>1, <2>2, <3>2 DEF MdRecord, DirtyRecord
    <2> QED BY <2>1, <2>2
  <1> QED BY <1>1, <1>2, <1>3 DEF MdCurrentInv, CleanLanded, MdLanded, Bits, DirtyRecord

LEMMA MdWriteCallbackMd ==
  ASSUME NoMdWriteFault, IInv, MdCurrentInv, MdWriteCallback PROVE MdCurrentInv'
  <1>1. /\ md_phase = "io" /\ md_phase' = "done" /\ ~md_error'
        /\ flash_md' = md_image
        /\ UNCHANGED <<cache_state, dbn, job, md_io>>
    BY DEF MdWriteCallback, Outcome, MayFail, NoMdWriteFault
  <1> QED BY <1>1 DEF MdCurrentInv, CleanLanded, MdLanded, Bits, DirtyRecord

LEMMA MdJobDoneMd ==
  ASSUME IInv, MdCurrentInv, NEW s \in Slots, MdJobDone(s) PROVE MdCurrentInv'
  <1> USE DEF IInv, BlockInv
  <1>1. /\ md_phase = "done" /\ s \in md_io /\ md_io' = md_io \ {s}
        /\ UNCHANGED <<dbn, md_phase, md_image, md_error, flash_md>>
    BY DEF MdJobDone
  <1>2. job[s].act \in {"WRITECACHE", "WRITEDISK"}
    BY <1>1 DEF PipelineInv, SlotInv, PhaseInv
  <1>3. job' \in {[job EXCEPT ![s].phase = "pend", ![s].err = md_error],
                  [job EXCEPT ![s] = NoJob]}
    BY DEF MdJobDone
  <1>4. PICK bits \in {cache_state[s], cache_state[s] \cup {"DIRTY"}, cache_state[s] \ {"DIRTY"}} :
          /\ cache_state' \in {[cache_state EXCEPT ![s] = bits],
                               [cache_state EXCEPT ![s] = bits \ BlockIoInprog]}
          /\ IF md_error THEN bits = cache_state[s]
             ELSE job[s].act = "WRITEDISK" => "DIRTY" \notin bits
    BY <1>2 DEF MdJobDone
  <1>5. \A t \in Slots \ {s} : cache_state'[t] = cache_state[t] /\ job'[t] = job[t]
    BY <1>3, <1>4 DEF SlotTypeOK, JobTypeOK
  <1>6. NoRetry(s)'
    BY <1>3 DEF NoRetry, MdCurrentInv, JobTypeOK, JobType, NoJob
  <1>7. "DIRTY" \in cache_state'[s] => flash_md[s] = DirtyRecord(s)
    <2>1. CASE md_error
      <3>1. "DIRTY" \in cache_state'[s] => "DIRTY" \in cache_state[s]
        BY <1>4, <2>1 DEF SlotTypeOK
      <3> QED BY <2>1, <3>1 DEF MdCurrentInv, Bits
    <2>2. CASE ~md_error
      <3>1. "DIRTY" \in cache_state'[s] => job[s].act = "WRITECACHE"
        BY <1>2, <1>4, <2>2 DEF SlotTypeOK
      <3> QED BY <1>1, <2>2, <3>1 DEF MdCurrentInv, MdLanded
    <2> QED BY <2>1, <2>2
  <1> QED BY <1>1, <1>5, <1>6, <1>7
          DEF MdCurrentInv, NoRetry, CleanLanded, MdLanded, Bits, DirtyRecord

LEMMA MdWriteDoneMd ==
  ASSUME MdCurrentInv, MdWriteDone PROVE MdCurrentInv'
  <1>1. /\ md_phase = "done" /\ md_io = {} /\ ~md_error' /\ md_phase' \in {"idle", "kickoff"}
        /\ UNCHANGED <<cache_state, dbn, job, flash_md, md_image>>
    BY DEF MdWriteDone
  <1> QED BY <1>1 DEF MdCurrentInv, CleanLanded, MdLanded, Bits, DirtyRecord

LEMMA CrashMd ==
  ASSUME IInv, Crash PROVE MdCurrentInv'
  <1>1. /\ md_phase' = "idle" /\ md_io' = {} /\ ~md_error' /\ flash_md' = flash_md
        /\ \A s \in Slots : job'[s] = NoJob
    BY DEF Crash
  <1>2. ASSUME NEW s \in Slots, "DIRTY" \in cache_state'[s]
        PROVE  flash_md[s] = [dbn |-> dbn'[s], state |-> DirtyBits]
    <2>1. /\ "DIRTY" \in flash_md[s].state /\ dbn'[s] = flash_md[s].dbn
      BY <1>2 DEF Crash
    <2>2. flash_md[s] \in MdType /\ flash_md[s].state = DirtyBits
      BY <2>1 DEF IInv, DeviceInv, DevTypeOK, DirtyRecordsInv
    <2> QED BY <2>1, <2>2 DEF MdType
  <1> QED BY <1>1, <1>2 DEF MdCurrentInv, Bits, DirtyRecord, NoJob

LEMMA NextMd == NoMdWriteFault /\ IInv /\ MdCurrentInv /\ [Next]_vars => MdCurrentInv'
  <1> SUFFICES ASSUME NoMdWriteFault, IInv, MdCurrentInv, [Next]_vars PROVE MdCurrentInv'
    OBVIOUS
  <1>1. ASSUME NEW b \in Bios, BioArrives(b) \/ UncachedStep(b) PROVE MdCurrentInv'
    BY <1>1, BioArrivesMd, UncachedStepMd
  <1>2. ASSUME NEW s \in Slots, SlotStep(s) PROVE MdCurrentInv'
    BY <1>2, JobStepMd, IoStepMd, PendingStepMd, DrainStepMd DEF SlotStep
  <1>3. ASSUME NEW S \in SUBSET Slots, CleanSet(S) PROVE MdCurrentInv'
    BY <1>3, CleanSetMd
  <1>4. ASSUME MdStep PROVE MdCurrentInv'
    BY <1>4, MdKickoffMd, MdKickoffFailsMd, MdWriteCallbackMd, MdJobDoneMd, MdWriteDoneMd
    DEF MdStep
  <1>5. ASSUME Crash PROVE MdCurrentInv' BY <1>5, CrashMd
  <1>6. ASSUME UNCHANGED vars PROVE MdCurrentInv'
    BY <1>6 DEF vars, MdCurrentInv, CleanLanded, MdLanded, Bits, DirtyRecord
  <1> QED BY <1>1, <1>2, <1>3, <1>4, <1>5, <1>6 DEF Next

THEOREM MdStaysCurrent == NoMdWriteFault /\ Spec => []MdCurrentInv
  <1>1. NoMdWriteFault /\ Init /\ []IInv /\ [][Next]_vars => []MdCurrentInv
    <2> SUFFICES ASSUME NoMdWriteFault
                 PROVE Init /\ []IInv /\ [][Next]_vars => []MdCurrentInv
      OBVIOUS
    <2>1. Init => MdCurrentInv BY InitMd
    <2>2. IInv /\ MdCurrentInv /\ [Next]_vars => MdCurrentInv' BY NextMd
    <2> QED BY <2>1, <2>2, PTL
  <1> QED BY <1>1, Inductive, PTL DEF Spec

(* As long as no metadata update fails, no VERIFY of the handlers fires:   *)
(* the machine does not halt on one.                                       *)
THEOREM NoVerifyFires == NoMdFaults /\ Spec => []VerifyHolds
  <1> SUFFICES ASSUME NoMdFaults PROVE Spec => []VerifyHolds
    OBVIOUS
  <1>1. ASSUME IInv, MdCurrentInv, NEW s \in Slots
        PROVE  /\ VerifyIoCallback(s) /\ VerifyWriteback(s) /\ VerifyMdWriteDone(s)
               /\ VerifyDoPending(s) /\ VerifyLimbo(s)
    <2> USE <1>1 DEF IInv, BlockInv
    <2>1. BitsInv(s) /\ JobInv(s) /\ PhaseInv(s) BY DEF SlotInv
    <2>2. VerifyIoCallback(s)
      BY <2>1 DEF VerifyIoCallback, JobInv, PhaseInv, Bits
    <2>3. VerifyWriteback(s)
      BY <2>1 DEF VerifyWriteback, JobInv, PhaseInv, Bits, InprogBit
    <2>4. VerifyMdWriteDone(s)
      BY <2>1 DEF VerifyMdWriteDone, PhaseInv, Bits
    <2>5. VerifyDoPending(s)
      BY <2>1 DEF VerifyDoPending, BitsInv, JobInv, Bits, MdCurrentInv
    <2>6. VerifyLimbo(s)
      <3>1. ASSUME job[s].phase = "limbo"
            PROVE  /\ "INVALID" \in Bits(s) /\ "VALID" \notin Bits(s)
                   /\ "DIRTY" \notin Bits(s) /\ Bits(s) \in SUBSET StateBits
        BY <2>1, <3>1 DEF BitsInv, JobInv, PhaseInv, Bits, SlotTypeOK
      <3> QED BY <3>1 DEF VerifyLimbo, Bits, StateBits, BlockIoInprog
    <2> QED BY <2>2, <2>3, <2>4, <2>5, <2>6
  <1>2. IInv /\ MdCurrentInv => VerifyHolds BY <1>1 DEF VerifyHolds
  <1>3. NoMdWriteFault BY DEF NoMdFaults, NoMdWriteFault
  <1> QED BY <1>2, <1>3, Inductive, MdStaysCurrent, PTL

(* As long as no metadata write fails, a block that is dirty in memory is  *)
(* dirty on flash, for the same disk block, and only there.                *)
THEOREM FlashMdStaysCurrent == NoMdWriteFault /\ Spec => []FlashMdCurrent
  <1>1. IInv /\ MdCurrentInv => FlashMdCurrent
    BY DEF IInv, DeviceInv, DirtyRecordsInv, MdCurrentInv, FlashMdCurrent, DirtyRecord,
           DirtyBits, Bits
  <1> QED BY <1>1, Inductive, MdStaysCurrent, PTL

-----------------------------------------------------------------------------
(* The ghost state                                                         *)

(* A step in which no bio arrives and none ends well.                      *)
LEMMA GhostStays ==
  ASSUME GhostInv, UNCHANGED <<live, seen>>,
         \A b \in Bios :
           /\ bio'[b].dir = bio[b].dir /\ bio'[b].dbn = bio[b].dbn
           /\ Active(b)' => Active(b)
           /\ bio'[b].st = "new" => bio[b].st = "new"
           /\ bio'[b].st = "ok" => bio'[b] = bio[b]
  PROVE  GhostInv'
  <1>1. \A b \in Bios : IsWrite(b)' = IsWrite(b) BY DEF IsWrite
  <1>2. WritesAreLive' BY <1>1 DEF GhostInv, WritesAreLive, ActiveWrite
  <1>3. NewIsNotLive' BY DEF GhostInv, NewIsNotLive
  <1>4. NotSuperseded' BY <1>1 DEF GhostInv, NotSuperseded, ActiveWrite
  <1>5. ReadsMayReturn' BY <1>1 DEF GhostInv, ReadsMayReturn, ActiveRead
  <1>6. ReadsCurrent' BY <1>1 DEF GhostInv, ReadsCurrent
  <1> QED BY <1>2, <1>3, <1>4, <1>5, <1>6 DEF GhostInv

(* A bio arrives.                                                          *)
LEMMA GhostArrives ==
  ASSUME GhostInv, RequestInv, FlashcacheAssumption, NEW b \in Bios, NEW d \in Dbns,
         NEW dir \in {"READ", "WRITE"}, NEW st \in BioStatus \ {"new", "ok"},
         Arrive(b, d, dir, st)
  PROVE  GhostInv'
  <1>1. /\ bio[b].st = "new" /\ bio'[b].st = st /\ bio'[b].dir = dir /\ bio'[b].dbn = d
        /\ \A c \in Bios : c # b => bio'[c] = bio[c]
    BY DEF Arrive, RequestInv, BioTypeOK, BioType
  <1>2. ~Active(b) BY <1>1 DEF Active
  <1>3. \A c \in Bios : c # b => (Active(c)' = Active(c)) /\ (IsWrite(c)' = IsWrite(c))
    BY <1>1 DEF Active, IsWrite
  <1>4. IsWrite(b)' = (dir = "WRITE") BY <1>1 DEF IsWrite
  <1>5. /\ \A e \in Dbns : live'[e] = IF dir = "WRITE" /\ e = d THEN live[e] \cup {b} ELSE live[e]
        /\ live \in [Dbns -> SUBSET Values]
    BY DEF Arrive, RequestInv, GhostTypeOK
  <1>6. \A c \in Bios : bio[c].st # "new" => bio[c].dbn \in Dbns
    BY DEF RequestInv, BioInv
  <1>7. /\ seen'[b] = IF dir = "READ" THEN live[d]
                      ELSE live[d] \ {w \in Bios : Active(w) /\ IsWrite(w)}
        /\ \A c \in Bios : c # b => 
             seen'[c] = IF dir = "WRITE" /\ ActiveRead(c) /\ bio[c].dbn = d
                        THEN seen[c] \cup {b} ELSE seen[c]
    BY DEF Arrive, ActiveRead
  <1>a. WritesAreLive'
    <2> SUFFICES ASSUME NEW x \in Bios, ActiveWrite(x)' PROVE x \in live'[bio'[x].dbn]
      BY DEF WritesAreLive
    <2>1. CASE x = b BY <1>1, <1>4, <1>5, <2>1 DEF ActiveWrite
    <2>2. CASE x # b
      <3>1. ActiveWrite(x) /\ bio'[x] = bio[x] BY <1>1, <1>3, <2>2 DEF ActiveWrite
      <3>2. bio[x].dbn \in Dbns BY <3>1, <1>6 DEF ActiveWrite, Active
      <3> QED BY <3>1, <3>2, <1>5 DEF GhostInv, WritesAreLive
    <2> QED BY <2>1, <2>2
  <1>b. NewIsNotLive'
    <2>1. \A x \in Bios : bio'[x].st = "new" => x # b /\ bio[x].st = "new" BY <1>1
    <2>2. ASSUME NEW x \in Bios, NEW e \in Dbns, bio'[x].st = "new" PROVE x \notin live'[e]
      <3>1. x # b /\ x \notin live[e] BY <2>1, <2>2 DEF GhostInv, NewIsNotLive
      <3> QED BY <3>1, <1>5
    <2> QED BY <2>2 DEF NewIsNotLive
  <1>c. NotSuperseded'
    <2> SUFFICES ASSUME NEW x \in Bios, NEW w \in Bios, bio'[x].st = "new" \/ ActiveWrite(x)',
                        ActiveWrite(w)'
                 PROVE  x \notin seen'[w]
      BY DEF NotSuperseded
    <2>1. bio[x].st = "new" \/ ActiveWrite(x)
      BY <1>1, <1>3 DEF ActiveWrite
    <2>2. CASE w = b
      <3>1. seen'[b] = live[d] \ {v \in Bios : Active(v) /\ IsWrite(v)}
        BY <2>2, <1>4, <1>7 DEF ActiveWrite
      <3>2. bio[x].st = "new" => x \notin live[d] BY DEF GhostInv, NewIsNotLive
      <3> QED BY <2>1, <2>2, <3>1, <3>2 DEF ActiveWrite
    <2>3. CASE w # b
      <3>1. ActiveWrite(w) BY <1>3, <2>3 DEF ActiveWrite
      <3>2. seen'[w] = seen[w] BY <1>7, <2>3, <3>1 DEF ActiveWrite, ActiveRead
      <3> QED BY <2>1, <3>1, <3>2 DEF GhostInv, NotSuperseded
    <2> QED BY <2>2, <2>3
  <1>d. ReadsMayReturn'
    <2> SUFFICES ASSUME NEW c \in Bios, ActiveRead(c)' PROVE live'[bio'[c].dbn] \subseteq seen'[c]
      BY DEF ReadsMayReturn
    <2>1. CASE c = b BY <2>1, <1>1, <1>4, <1>5, <1>7 DEF ActiveRead
    <2>2. CASE c # b
      <3>1. ActiveRead(c) /\ bio'[c] = bio[c] BY <1>1, <1>3, <2>2 DEF ActiveRead
      <3>2. bio[c].dbn \in Dbns /\ live[bio[c].dbn] \subseteq seen[c]
        BY <3>1, <1>6 DEF ActiveRead, Active, GhostInv, ReadsMayReturn
      <3> QED BY <2>2, <3>1, <3>2, <1>5, <1>7
    <2> QED BY <2>1, <2>2
  <1>e. ReadsCurrent'
    BY <1>1, <1>3, <1>7 DEF GhostInv, ReadsCurrent
  <1> QED BY <1>a, <1>b, <1>c, <1>d, <1>e DEF GhostInv

(* A bio ends; a read that ends well returns what it may.                  *)
LEMMA GhostEnds ==
  ASSUME GhostInv, RequestInv, NEW b \in Bios, Active(b), NEW error \in BOOLEAN,
         NEW v \in Values \cup {None}, EndIo(b, error, v),
         ~error /\ ~IsWrite(b) => v \in seen[b]
  PROVE  GhostInv'
  <1>1. /\ bio'[b].st = (IF error THEN "eio" ELSE "ok") /\ bio'[b].val = v
        /\ \A c \in Bios : bio'[c].dir = bio[c].dir /\ bio'[c].dbn = bio[c].dbn
        /\ \A c \in Bios : c # b => bio'[c] = bio[c]
    BY DEF EndIo, RequestInv, BioTypeOK, BioType
  <1>2. ~Active(b)' /\ bio'[b].st # "new" BY <1>1 DEF Active
  <1>3. \A c \in Bios : /\ IsWrite(c)' = IsWrite(c)
                        /\ c # b => Active(c)' = Active(c)
    BY <1>1 DEF Active, IsWrite
  <1>4. seen' = seen BY DEF EndIo
  <1>6. \A c \in Bios : bio[c].st # "new" => bio[c].dbn \in Dbns
    BY DEF RequestInv, BioInv
  <1>5. \A d \in Dbns : /\ live'[d] \subseteq live[d]
                        /\ \A x \in live[d] : x \in live'[d] \/ (IsWrite(b) /\ x \in seen[b])
    <2>1. bio[b].dbn \in Dbns BY <1>6 DEF Active
    <2>2. live \in [Dbns -> SUBSET Values] BY DEF RequestInv, GhostTypeOK
    <2> QED BY <2>1, <2>2 DEF EndIo
  <1>a. WritesAreLive'
    <2> SUFFICES ASSUME NEW x \in Bios, ActiveWrite(x)' PROVE x \in live'[bio'[x].dbn]
      BY DEF WritesAreLive
    <2>1. ActiveWrite(x) /\ bio'[x] = bio[x] /\ bio[x].dbn \in Dbns
      BY <1>1, <1>2, <1>3, <1>6 DEF ActiveWrite, Active
    <2>2. x \in live[bio[x].dbn] BY <2>1 DEF GhostInv, WritesAreLive
    <2>3. IsWrite(b) => x \notin seen[b] BY <2>1 DEF GhostInv, NotSuperseded, ActiveWrite
    <2> QED BY <2>1, <2>2, <2>3, <1>5
  <1>b. NewIsNotLive'
    BY <1>1, <1>2, <1>5 DEF GhostInv, NewIsNotLive
  <1>c. NotSuperseded'
    BY <1>1, <1>2, <1>3, <1>4 DEF GhostInv, NotSuperseded, ActiveWrite
  <1>d. ReadsMayReturn'
    BY <1>1, <1>2, <1>3, <1>4, <1>5, <1>6 DEF GhostInv, ReadsMayReturn, ActiveRead, Active
  <1>e. ReadsCurrent'
    BY <1>1, <1>3, <1>4 DEF GhostInv, ReadsCurrent
  <1> QED BY <1>a, <1>b, <1>c, <1>d, <1>e DEF GhostInv

-----------------------------------------------------------------------------
(* What a step that keeps the data leaves as it was                        *)

(* Dirty blocks stay dirty, with their data, and no other becomes so.      *)
DirtKept ==
  \A t \in Slots :
    /\ ("DIRTY" \in cache_state'[t]) = ("DIRTY" \in cache_state[t])
    /\ "DIRTY" \in cache_state[t] => dbn'[t] = dbn[t] /\ ssd'[t] = ssd[t]

(* The metadata pipeline stays where it is, or takes a first update.       *)
PipelineKept ==
  /\ UNCHANGED <<flash_md, md_image, md_error>>
  /\ \/ md_phase' = md_phase /\ md_io' = md_io
     \/ md_phase = "idle" /\ md_phase' = "kickoff"
  /\ \A t \in md_io : dbn'[t] = dbn[t] /\ job'[t].act = job[t].act

KeepsData == DirtKept /\ PipelineKept

(* A value that may come to the disk, or become dirty, whoever is out.     *)
Fresh(v, d) ==
  /\ v \in live[d]
  /\ \A w \in Bios : Direct(w) /\ IsWrite(w) /\ bio[w].dbn = d => v \notin seen[w]

DiskStep == \A d \in Dbns : disk'[d] = disk[d] \/ Fresh(disk'[d], d)
DirtStep == \A t \in Slots : "DIRTY" \in cache_state'[t] => Fresh(ssd'[t], dbn'[t])
LiveGrows == \A d \in Dbns : live[d] \subseteq live'[d]

(* A bio that is direct was so before.                                     *)
DirectKept(b) ==
  Direct(b)' =>
    /\ Direct(b)
    /\ bio'[b].dbn = bio[b].dbn /\ bio'[b].dir = bio[b].dir
    /\ bio'[b].st = "disk_done" => bio'[b] = bio[b]
    /\ IsWrite(b) => seen'[b] = seen[b]
    /\ seen[b] \subseteq seen'[b]

(* The blocks of a set, by what is going on.                               *)
LEMMA BlockFacts ==
  ASSUME IInv, NEW s \in Slots
  PROVE  /\ job[s].phase \notin {"none", "limbo"} => s \in hashed
         /\ job[s].phase = "limbo" => s \notin hashed
         /\ "DIRTY" \in cache_state[s] => s \in hashed /\ job[s].phase # "limbo"
         /\ s \in hashed => dbn[s] \in Dbns
         /\ pending[s] # {} => job[s].phase # "none"
         /\ (job[s].phase = "md") = (s \in md_io \cup md_queue)
  BY DEF IInv, BlockInv, SlotInv, BitsInv, JobInv, PhaseInv, ListInv, PipelineInv, Bits

LEMMA DirectIsActive ==
  ASSUME IInv, NEW b \in Bios, Direct(b)
  PROVE  Active(b) /\ bio[b].dbn \in Dbns /\ bio[b].st # "job"
  <1>1. bio[b].st \in {"disk", "disk_done", "queued", "queued_inval"}
    BY DEF Direct, AtDisk, Draining, IInv, QueueInv, Queued
  <1> QED BY <1>1 DEF Active, IInv, RequestInv, BioInv

(* What a write that is out wrote is fresh.                                *)
LEMMA WriteIsFresh ==
  ASSUME IInv, GhostInv, NEW x \in Bios, ActiveWrite(x)
  PROVE  Fresh(x, bio[x].dbn)
  <1>1. x \in live[bio[x].dbn] BY DEF GhostInv, WritesAreLive
  <1>2. ASSUME NEW w \in Bios, Direct(w), IsWrite(w) PROVE x \notin seen[w]
    <2>1. ActiveWrite(w) BY <1>2, DirectIsActive DEF ActiveWrite
    <2> QED BY <2>1 DEF GhostInv, NotSuperseded
  <1> QED BY <1>1, <1>2 DEF Fresh

(* What is dirty is fresh.                                                 *)
LEMMA DirtyIsFresh ==
  ASSUME IInv, DataInv, NEW s \in Slots, "DIRTY" \in cache_state[s]
  PROVE  Fresh(ssd[s], dbn[s])
  <1>1. s \in hashed BY BlockFacts
  <1>2. ssd[s] \in live[dbn[s]] BY <1>1 DEF DataInv, SlotDataInv, Filled, Bits
  <1>3. ASSUME NEW w \in Bios, Direct(w), IsWrite(w), bio[w].dbn = dbn[s]
        PROVE  ssd[s] \notin seen[w]
    BY <1>1, <1>3 DEF DataInv, DirectInv, Bits
  <1> QED BY <1>2, <1>3 DEF Fresh

LEMMA FlashBehindKept ==
  ASSUME IInv, FlashBehindInv, PipelineKept,
         \A t \in Slots : "DIRTY" \in cache_state[t] =>
           "DIRTY" \in cache_state'[t] /\ dbn'[t] = dbn[t]
  PROVE  FlashBehindInv'
  <1>1. md_phase = "idle" => md_io = {} BY DEF IInv, BlockInv, PipelineInv
  <1> QED BY <1>1 DEF FlashBehindInv, PipelineKept, MdLanded, BecomesDirty, BecomesClean,
                   Bits

LEMMA DirtStays == ASSUME IInv, DataInv, DirtKept PROVE DirtStep
  BY DirtyIsFresh DEF DirtKept, DirtStep

(* The disk still has the blocks that are not dirty.                       *)
LEMMA DiskLiveAt ==
  ASSUME IInv, DataInv, NEW d \in Dbns, DiskStep, live[d] \subseteq live'[d], NoneDirty(d)',
         \A t \in Slots : "DIRTY" \in cache_state[t] =>
           "DIRTY" \in cache_state'[t] /\ dbn'[t] = dbn[t]
  PROVE  disk'[d] \in live'[d]
  <1>1. NoneDirty(d) BY DEF NoneDirty, Bits
  <1>2. disk[d] \in live[d] BY <1>1 DEF DataInv, DiskLive
  <1> QED BY <1>2 DEF DiskStep, Fresh

LEMMA DiskLiveKept ==
  ASSUME IInv, DataInv, DirtKept, DiskStep, LiveGrows PROVE DiskLive'
  BY DiskLiveAt DEF DirtKept, LiveGrows, DiskLive

LEMMA DirectStays ==
  ASSUME IInv, IInv', DataInv, DirtStep, DiskStep, NEW b \in Bios, DirectKept(b)
  PROVE  DirectInv(b)'
  <1> SUFFICES ASSUME Direct(b)' PROVE DirectInv(b)'
    BY DEF DirectInv, Direct, AtDisk
  <1>1. /\ Direct(b) /\ bio'[b].dbn = bio[b].dbn /\ IsWrite(b)' = IsWrite(b)
        /\ bio'[b].st = "disk_done" => bio'[b] = bio[b]
        /\ IsWrite(b) => seen'[b] = seen[b]
        /\ seen[b] \subseteq seen'[b]
    BY DEF DirectKept, IsWrite
  <1>2. Active(b) /\ bio[b].dbn \in Dbns BY <1>1, DirectIsActive
  <1>3. ASSUME IsWrite(b), NEW t \in hashed', dbn'[t] = bio[b].dbn, "DIRTY" \in cache_state'[t]
        PROVE  ssd'[t] \notin seen'[b]
    <2>1. t \in Slots BY DEF IInv, BlockInv, SlotTypeOK
    <2> QED BY <1>1, <1>3, <2>1 DEF DirtStep, Fresh
  <1>4. ASSUME bio'[b].st = "disk_done", IsWrite(b), ~bio'[b].err
        PROVE  disk'[bio[b].dbn] \notin seen'[b]
    <2>1. disk[bio[b].dbn] \notin seen[b] BY <1>1, <1>4 DEF DataInv, DirectInv
    <2> QED BY <1>1, <1>2, <1>4, <2>1 DEF DiskStep, Fresh
  <1>5. ASSUME ~IsWrite(b) PROVE disk'[bio[b].dbn] \in seen'[b]
    <2>1. disk[bio[b].dbn] \in seen[b] BY <1>1, <1>5 DEF DataInv, DirectInv
    <2>2. live[bio[b].dbn] \subseteq seen[b]
      BY <1>2, <1>5 DEF DataInv, GhostInv, ReadsMayReturn, ActiveRead
    <2> QED BY <1>1, <1>2, <2>1, <2>2 DEF DiskStep, Fresh
  <1>6. ASSUME bio'[b].st = "disk_done", ~IsWrite(b) PROVE bio'[b].val \in seen'[b]
    <2>1. bio'[b] = bio[b] BY <1>1, <1>6
    <2>2. bio[b].val \in seen[b] BY <1>6, <2>1 DEF DataInv, DirectInv
    <2> QED BY <1>1, <2>1, <2>2
  <1> QED BY <1>1, <1>3, <1>4, <1>5, <1>6 DEF DirectInv, Bits

LEMMA DataFollows ==
  ASSUME IInv, IInv', DataInv, DirtStep, DiskStep, GhostInv', FlashBehindInv', DiskLive',
         \A b \in Bios : DirectKept(b) \/ DirectInv(b)',
         \A t \in Slots : JobBioInv(t)' /\ SlotDataInv(t)'
  PROVE  DataInv'
  BY DirectStays DEF DataInv

LEMMA DataKept ==
  ASSUME IInv, IInv', DataInv, KeepsData, DiskStep, LiveGrows, GhostInv',
         \A b \in Bios : DirectKept(b) \/ DirectInv(b)',
         \A t \in Slots : JobBioInv(t)' /\ SlotDataInv(t)'
  PROVE  DataInv'
  <1>1. FlashBehindInv' BY FlashBehindKept DEF DataInv, KeepsData, DirtKept
  <1>2. DiskLive' BY DiskLiveKept DEF KeepsData
  <1>3. DirtStep BY DirtStays DEF KeepsData
  <1> QED BY <1>1, <1>2, <1>3, DataFollows

(* The slots a step leaves alone.                                          *)
Untouched(t) ==
  /\ cache_state'[t] = cache_state[t] /\ dbn'[t] = dbn[t] /\ job'[t] = job[t]
  /\ ssd'[t] = ssd[t] /\ pending'[t] \subseteq pending[t] /\ (t \in hashed') = (t \in hashed)

LEMMA SlotKept ==
  ASSUME IInv, DataInv, NEW t \in Slots, Untouched(t),
         HasBio(t) => bio'[job[t].bio] = bio[job[t].bio],
         \A b \in pending[t] : bio'[b].dbn = bio[b].dbn,
         t \in hashed => /\ live[dbn[t]] \subseteq live'[dbn[t]]
                         /\ disk'[dbn[t]] = disk[dbn[t]] \/ disk'[dbn[t]] \in live'[dbn[t]]
  PROVE  JobBioInv(t)' /\ SlotDataInv(t)'
  <1>1. JobBioInv(t) /\ SlotDataInv(t) BY DEF DataInv
  <1>2. HasBio(t)' = HasBio(t) BY DEF HasBio, Untouched
  <1>3. JobBioInv(t)' BY <1>1, <1>2 DEF JobBioInv, Untouched, Bits, IsWrite, HasBio
  <1>4. Filled(t)' = Filled(t) BY DEF Filled, Untouched, Bits
  <1>5. job[t].phase \in {"io", "md"} => t \in hashed BY BlockFacts
  <1>6. job[t].phase = "io" /\ job[t].act = "READFILL" => HasBio(t)
    BY DEF HasBio, IInv, BlockInv, SlotInv, PhaseInv
  <1>7. SlotDataInv(t)'
    BY <1>1, <1>4, <1>5, <1>6 DEF SlotDataInv, Untouched
  <1> QED BY <1>3, <1>7

-----------------------------------------------------------------------------
(* Helpers for the steps                                                   *)

LEMMA OneSlotKeeps ==
  ASSUME NEW s \in Slots, s \notin md_io, IInv,
         \A t \in Slots \ {s} : /\ cache_state'[t] = cache_state[t] /\ dbn'[t] = dbn[t]
                                /\ job'[t] = job[t] /\ ssd'[t] = ssd[t],
         ("DIRTY" \in cache_state'[s]) = ("DIRTY" \in cache_state[s]),
         "DIRTY" \in cache_state[s] => dbn'[s] = dbn[s] /\ ssd'[s] = ssd[s],
         UNCHANGED <<md_io, md_phase, md_image, md_error, flash_md>>
  PROVE  KeepsData
  <1>1. md_io \subseteq Slots BY DEF IInv, BlockInv, MdTypeOK
  <1> QED BY <1>1 DEF KeepsData, DirtKept, PipelineKept

(* The bios of the other jobs and queues are not those of slot s.          *)
LEMMA OthersKept ==
  ASSUME IInv, DataInv, NEW s \in Slots,
         \A t \in Slots \ {s} : Untouched(t),
         \A b \in Bios : bio[b].st = "job" /\ b # job[s].bio => bio'[b] = bio[b],
         \A b \in Bios : bio[b].st \in Queued => bio'[b].dbn = bio[b].dbn,
         \A t \in hashed \ {s} :
           /\ live[dbn[t]] \subseteq live'[dbn[t]]
           /\ disk'[dbn[t]] = disk[dbn[t]] \/ disk'[dbn[t]] \in live'[dbn[t]]
  PROVE  \A t \in Slots \ {s} : JobBioInv(t)' /\ SlotDataInv(t)'
  <1> SUFFICES ASSUME NEW t \in Slots \ {s} PROVE JobBioInv(t)' /\ SlotDataInv(t)'
    OBVIOUS
  <1>1. HasBio(t) => bio'[job[t].bio] = bio[job[t].bio]
    <2> SUFFICES ASSUME HasBio(t) PROVE bio'[job[t].bio] = bio[job[t].bio]
      OBVIOUS
    <2>1. bio[job[t].bio].st = "job" BY DEF DataInv, JobBioInv
    <2>2. job[t].bio # None BY DEF HasBio
    <2>3. job[t].bio \in Bios
      BY <2>2 DEF IInv, BlockInv, JobTypeOK, JobType
    <2>4. job[t].bio # job[s].bio BY <2>2 DEF IInv, QueueInv
    <2> QED BY <2>1, <2>3, <2>4
  <1>2. \A b \in pending[t] : bio'[b].dbn = bio[b].dbn
    BY DEF IInv, BlockInv, SlotTypeOK, QueueInv
  <1> QED BY <1>1, <1>2, SlotKept

(* A bio's job does not hold it twice; a new bio is nowhere.               *)
LEMMA NewIsNowhere ==
  ASSUME IInv, NEW b \in Bios, bio[b].st = "new"
  PROVE  \A t \in Slots : b \notin pending[t] /\ job[t].bio # b
  <1>1. b # None BY FlashcacheAssumption
  <1> QED BY <1>1 DEF IInv, QueueInv, Queued

(* If no copy of a block is dirty, the disk has it.                        *)
LEMMA DiskIsLive ==
  ASSUME IInv, DataInv, NEW d \in Dbns,
         \A t \in hashed : dbn[t] = d => "DIRTY" \notin cache_state[t]
  PROVE  disk[d] \in live[d]
  <1>1. NoneDirty(d) BY BlockFacts DEF NoneDirty, Bits
  <1> QED BY <1>1 DEF DataInv, DiskLive

(* An invalidation without a conflict drops clean, idle copies.            *)
LEMMA DropFacts ==
  ASSUME IInv, NEW d \in Dbns, Conflicts(d) = {}
  PROVE  /\ \A t \in Cached(d) : /\ t \in Slots /\ pending[t] = {}
                                 /\ job[t].phase = "none" /\ "DIRTY" \notin cache_state[t]
         /\ \A t \in hashed : dbn[t] = d => t \in Cached(d)
  <1>1. ASSUME NEW t \in Cached(d)
        PROVE  /\ t \in Slots /\ pending[t] = {}
               /\ job[t].phase = "none" /\ "DIRTY" \notin cache_state[t]
    <2>1. t \in Slots BY DEF Cached, IInv, BlockInv, SlotTypeOK
    <2>2. ~Busy(t) /\ pending[t] = {} /\ "DIRTY" \notin cache_state[t]
      BY <1>1 DEF Conflicts, Idle
    <2>3. job[t].phase = "none" BY <2>1, <2>2, IdleHasNoJob DEF IInv
    <2> QED BY <2>1, <2>2, <2>3
  <1> QED BY <1>1 DEF Cached

(* ... so that it keeps the data, and the slots it drops are empty.        *)
LEMMA DropKeeps ==
  ASSUME IInv, NEW d \in Dbns, Conflicts(d) = {}, InvalidateClean(d),
         UNCHANGED <<dbn, job, md_io, md_phase, md_image, md_error, flash_md, ssd>>
  PROVE  /\ KeepsData
         /\ \A t \in Slots : dbn'[t] = d => t \notin hashed'
         /\ \A t \in Cached(d) : t \notin hashed' /\ job'[t].phase = "none"
         /\ \A t \in Slots \ Cached(d) :
              cache_state'[t] = cache_state[t] /\ (t \in hashed') = (t \in hashed)
  <1>1. /\ \A t \in Slots : cache_state'[t] = IF t \in Cached(d) THEN {"INVALID"}
                                              ELSE cache_state[t]
        /\ hashed' = hashed \ Cached(d)
    BY DEF InvalidateClean
  <1>2. DirtKept BY <1>1, DropFacts DEF DirtKept
  <1>3. KeepsData BY <1>2 DEF KeepsData, PipelineKept
  <1> QED BY <1>1, <1>3, DropFacts

LEMMA EmptySlot ==
  ASSUME NEW t \in Slots, t \notin hashed', job'[t] = NoJob \/ job'[t].phase = "none",
         pending'[t] = {}
  PROVE  JobBioInv(t)' /\ SlotDataInv(t)'
  BY DEF JobBioInv, SlotDataInv, HasBio, NoJob

-----------------------------------------------------------------------------
(* A bio arrives                                                           *)

LEMMA ArriveEffect ==
  ASSUME IInv, DataInv, NEW b \in Bios, NEW d \in Dbns, NEW dir \in {"READ", "WRITE"},
         NEW st \in BioStatus \ {"new", "ok"}, Arrive(b, d, dir, st)
  PROVE  /\ GhostInv' /\ LiveGrows
         /\ bio[b].st = "new"
         /\ bio'[b].st = st /\ bio'[b].dbn = d /\ bio'[b].dir = dir
         /\ \A c \in Bios : c # b => bio'[c] = bio[c]
         /\ \A c \in Bios \ {b} : /\ IsWrite(c) => seen'[c] = seen[c]
                                  /\ seen[c] \subseteq seen'[c]
         /\ dir = "READ" => seen'[b] = live[d]
  <1>1. GhostInv' BY GhostArrives, FlashcacheAssumption DEF IInv, DataInv
  <1>2. LiveGrows BY DEF LiveGrows, Arrive, IInv, RequestInv, GhostTypeOK
  <1>3. /\ bio[b].st = "new"
        /\ bio'[b].st = st /\ bio'[b].dbn = d /\ bio'[b].dir = dir
        /\ \A c \in Bios : c # b => bio'[c] = bio[c]
    BY DEF Arrive, IInv, RequestInv, BioTypeOK, BioType
  <1>4. /\ \A c \in Bios \ {b} : /\ IsWrite(c) => seen'[c] = seen[c]
                                 /\ seen[c] \subseteq seen'[c]
        /\ dir = "READ" => seen'[b] = live[d]
    BY DEF Arrive
  <1> QED BY <1>1, <1>2, <1>3, <1>4

LEMMA ArriveDirect ==
  ASSUME IInv, NEW b \in Bios, NEW c \in Bios, c # b, bio'[c] = bio[c],
         IsWrite(c) => seen'[c] = seen[c], seen[c] \subseteq seen'[c],
         \A t \in Slots : /\ job'[t].phase = "limbo" => job[t].phase = "limbo"
                          /\ pending'[t] \subseteq pending[t] \cup {b}
  PROVE  DirectKept(c)
  BY DEF DirectKept, Direct, AtDisk, Draining

(* A bio that arrives and is not sent to the disk is not direct.           *)
LEMMA ArriveIndirect ==
  ASSUME IInv, NEW b \in Bios, bio[b].st = "new", bio'[b].st \notin {"disk", "disk_done"},
         \A t \in Slots : job'[t].phase = "limbo" => pending'[t] = pending[t]
  PROVE  DirectInv(b)'
  <1>1. ~Direct(b)' BY NewIsNowhere DEF Direct, AtDisk, Draining
  <1> QED BY <1>1 DEF DirectInv, Direct, AtDisk

LEMMA MapUncachedData ==
  ASSUME IInv, IInv', DataInv, NEW b \in Bios, NEW d \in Dbns, NEW dir \in {"READ", "WRITE"},
         MapUncached(b, d, dir)
  PROVE  DataInv'
  <1>0. PICK st \in {"disk", "eio"} : Arrive(b, d, dir, st)
    BY DEF MapUncached, StartUncached
  <1>1. st \in BioStatus \ {"new", "ok"} BY DEF BioStatus
  <1>2. /\ Conflicts(d) = {} /\ InvalidateClean(d)
        /\ UNCHANGED <<dbn, pending, job, mdVars, devVars>>
    BY DEF MapUncached
  <1>3. /\ GhostInv' /\ LiveGrows
        /\ bio[b].st = "new" /\ bio'[b].st = st /\ bio'[b].dbn = d /\ bio'[b].dir = dir
        /\ \A c \in Bios : c # b => bio'[c] = bio[c]
        /\ \A c \in Bios \ {b} : /\ IsWrite(c) => seen'[c] = seen[c]
                                 /\ seen[c] \subseteq seen'[c]
        /\ dir = "READ" => seen'[b] = live[d]
    BY <1>0, <1>1, ArriveEffect
  <1>4. /\ KeepsData
        /\ \A t \in Slots : dbn'[t] = d => t \notin hashed'
        /\ \A t \in Cached(d) : t \notin hashed' /\ job'[t].phase = "none"
        /\ \A t \in Slots \ Cached(d) :
             cache_state'[t] = cache_state[t] /\ (t \in hashed') = (t \in hashed)
    BY <1>2, DropKeeps
  <1>5. DiskStep BY <1>2 DEF DiskStep
  <1>6. ASSUME NEW c \in Bios \ {b} PROVE DirectKept(c)
    BY <1>2, <1>3, ArriveDirect
  <1>7. DirectInv(b)'
    <2>1. CASE st = "eio"
      BY <1>2, <1>3, <2>1, ArriveIndirect
    <2>2. CASE st = "disk"
      <3>1. disk[d] \in live[d] BY <1>2, DropFacts, DiskIsLive
      <3>2. hashed' \subseteq Slots BY DEF IInv, BlockInv, SlotTypeOK
      <3> QED BY <1>2, <1>3, <1>4, <2>2, <3>1, <3>2 DEF DirectInv, IsWrite
    <2> QED BY <2>1, <2>2
  <1>8. ASSUME NEW t \in Slots PROVE JobBioInv(t)' /\ SlotDataInv(t)'
    <2>1. CASE t \in Cached(d)
      <3>1. pending'[t] = {} BY <1>2, <2>1, DropFacts
      <3> QED BY <1>4, <2>1, <3>1, EmptySlot
    <2>2. CASE t \notin Cached(d)
      <3>1. Untouched(t) BY <1>2, <1>4, <2>2 DEF Untouched
      <3>2. job[t].bio # b /\ b \notin pending[t] BY <1>3, NewIsNowhere
      <3>3. HasBio(t) => job[t].bio \in Bios
        BY DEF HasBio, IInv, BlockInv, JobTypeOK, JobType
      <3>4. pending[t] \subseteq Bios BY DEF IInv, BlockInv, SlotTypeOK
      <3>5. t \in hashed => dbn[t] \in Dbns BY BlockFacts
      <3> QED BY <1>2, <1>3, <3>1, <3>2, <3>3, <3>4, <3>5, SlotKept DEF LiveGrows
    <2> QED BY <2>1, <2>2
  <1> QED BY <1>3, <1>4, <1>5, <1>6, <1>7, <1>8, DataKept

(* A bio is queued on a block in its way, which may start a writeback.     *)
LEMMA QueueOn ==
  ASSUME IInv, DataInv, NEW d \in Dbns, NEW s \in Conflicts(d), CleanForInvalidate(s),
         UNCHANGED <<dbn, hashed, mdVars, devVars>>, LiveGrows,
         \A t \in Slots \ {s} : pending'[t] \subseteq pending[t],
         \A c \in pending'[s] : bio'[c].dbn = d,
         \A c \in Bios : bio[c].st = "job" => bio'[c] = bio[c]
  PROVE  /\ s \in Slots /\ s \in hashed /\ dbn[s] = d
         /\ KeepsData /\ DiskStep
         /\ JobBioInv(s)' /\ SlotDataInv(s)'
         /\ job[s].phase # "limbo" /\ job'[s].phase # "limbo"
         /\ \A t \in Slots \ {s} : /\ cache_state'[t] = cache_state[t] /\ dbn'[t] = dbn[t]
                                   /\ job'[t] = job[t] /\ ssd'[t] = ssd[t]
                                   /\ (t \in hashed') = (t \in hashed)
  <1>1. s \in Slots /\ s \in hashed /\ dbn[s] = d
    BY DEF Conflicts, Cached, IInv, BlockInv, SlotTypeOK
  <1>2. job[s].phase # "limbo" BY <1>1, BlockFacts
  <1>3. DiskStep BY DEF DiskStep
  <1>4. CASE Busy(s) \/ "DIRTY" \notin cache_state[s]
    <2>1. cache_state' = cache_state /\ job' = job
      BY <1>4 DEF CleanForInvalidate
    <2>2. KeepsData BY <2>1 DEF KeepsData, DirtKept, PipelineKept
    <2>3. JobBioInv(s) /\ SlotDataInv(s) BY <1>1 DEF DataInv
    <2>4. HasBio(s) => job[s].bio \in Bios
      BY <1>1 DEF HasBio, IInv, BlockInv, JobTypeOK, JobType
    <2>5. HasBio(s) => bio'[job[s].bio] = bio[job[s].bio]
      BY <2>3, <2>4 DEF JobBioInv
    <2>6. JobBioInv(s)'
      BY <1>1, <2>1, <2>3, <2>5 DEF JobBioInv, HasBio, Bits, IsWrite
    <2>7. job[s].phase = "io" /\ job[s].act = "READFILL" => HasBio(s)
      BY <1>1 DEF HasBio, IInv, BlockInv, SlotInv, PhaseInv
    <2>8. SlotDataInv(s)'
      BY <1>1, <2>1, <2>3, <2>5, <2>7 DEF SlotDataInv, Filled, Bits, LiveGrows
    <2> QED BY <1>1, <1>2, <1>3, <2>1, <2>2, <2>6, <2>8
  <1>5. CASE ~Busy(s) /\ "DIRTY" \in cache_state[s]
    <2>1. /\ cache_state' = [cache_state EXCEPT ![s] = @ \cup {"DISKWRITEINPROG"}]
          /\ job' = [job EXCEPT ![s] = Job("WRITEDISK", "wb", None)]
      BY <1>5 DEF CleanForInvalidate
    <2>2. job[s].phase = "none" BY <1>1, <1>5, IdleHasNoJob DEF IInv
    <2>3. s \notin md_io BY <1>1, <2>2, BlockFacts
    <2>4. /\ cache_state'[s] = cache_state[s] \cup {"DISKWRITEINPROG"}
          /\ job'[s] = Job("WRITEDISK", "wb", None)
          /\ \A t \in Slots \ {s} : cache_state'[t] = cache_state[t] /\ job'[t] = job[t]
      BY <1>1, <2>1 DEF IInv, BlockInv, SlotTypeOK, JobTypeOK
    <2>5. KeepsData BY <1>1, <2>3, <2>4, OneSlotKeeps
    <2>6. JobBioInv(s)' BY <1>1, <2>4 DEF JobBioInv, HasBio, Job
    <2>7. SlotDataInv(s)'
      BY <1>1, <1>5, <2>4 DEF DataInv, SlotDataInv, Filled, Bits, Job, LiveGrows
    <2> QED BY <1>1, <1>2, <1>3, <2>4, <2>5, <2>6, <2>7 DEF Job
  <1> QED BY <1>4, <1>5

LEMMA MapConflictData ==
  ASSUME IInv, IInv', DataInv, NEW b \in Bios, NEW d \in Dbns, NEW dir \in {"READ", "WRITE"},
         MapUncachedConflict(b, d, dir)
  PROVE  DataInv'
  <1>1. PICK s \in Conflicts(d) :
          /\ Arrive(b, d, dir, "queued_inval")
          /\ pending' = [pending EXCEPT ![s] = @ \cup {b}]
          /\ CleanForInvalidate(s)
    BY DEF MapUncachedConflict
  <1>2. UNCHANGED <<dbn, hashed, mdVars, devVars>> BY DEF MapUncachedConflict
  <1>3. /\ GhostInv' /\ LiveGrows
        /\ bio[b].st = "new" /\ bio'[b].st = "queued_inval" /\ bio'[b].dbn = d
        /\ \A c \in Bios : c # b => bio'[c] = bio[c]
        /\ \A c \in Bios \ {b} : /\ IsWrite(c) => seen'[c] = seen[c]
                                 /\ seen[c] \subseteq seen'[c]
    BY <1>1, ArriveEffect DEF BioStatus
  <1>4. s \in Slots /\ dbn[s] = d
    BY <1>1 DEF Conflicts, Cached, IInv, BlockInv, SlotTypeOK
  <1>5. /\ pending'[s] = pending[s] \cup {b} /\ pending[s] \subseteq Bios
        /\ \A t \in Slots \ {s} : pending'[t] = pending[t]
    BY <1>1, <1>4 DEF IInv, BlockInv, SlotTypeOK
  <1>6. \A c \in pending'[s] : bio'[c].dbn = d
    BY <1>3, <1>4, <1>5 DEF DataInv, JobBioInv
  <1>7. /\ s \in hashed /\ KeepsData /\ DiskStep
        /\ JobBioInv(s)' /\ SlotDataInv(s)'
        /\ job[s].phase # "limbo" /\ job'[s].phase # "limbo"
        /\ \A t \in Slots \ {s} : /\ cache_state'[t] = cache_state[t] /\ dbn'[t] = dbn[t]
                                  /\ job'[t] = job[t] /\ ssd'[t] = ssd[t]
                                  /\ (t \in hashed') = (t \in hashed)
    BY <1>1, <1>2, <1>3, <1>5, <1>6, QueueOn
  <1>8. \A t \in Slots \ {s} : JobBioInv(t)' /\ SlotDataInv(t)'
    <2>1. \A t \in Slots \ {s} : Untouched(t) BY <1>5, <1>7 DEF Untouched
    <2>2. \A t \in hashed \ {s} : live[dbn[t]] \subseteq live'[dbn[t]]
      BY <1>3, BlockFacts DEF LiveGrows, IInv, BlockInv, SlotTypeOK
    <2> QED BY <1>2, <1>3, <1>4, <2>1, <2>2, OthersKept DEF Queued
  <1>9. ASSUME NEW c \in Bios \ {b} PROVE DirectKept(c)
    BY <1>3, <1>4, <1>5, <1>7, ArriveDirect
  <1>10. DirectInv(b)'
    BY <1>3, <1>4, <1>5, <1>7, ArriveIndirect
  <1> QED BY <1>3, <1>4, <1>7, <1>8, <1>9, <1>10, DataKept

(* The bio fails on arrival, or waits on a busy block.                     *)
LEMMA MapWaitsData ==
  ASSUME IInv, IInv', DataInv, NEW b \in Bios, NEW d \in Dbns, NEW dir \in {"READ", "WRITE"},
         MapFails(b, d, dir) \/ MapHitBusy(b, d, dir)
  PROVE  DataInv'
  <1>1. PICK st \in {"eio", "queued"} : Arrive(b, d, dir, st)
    BY DEF MapFails, MapHitBusy
  <1>2. UNCHANGED <<cache_state, dbn, hashed, job, mdVars, devVars>>
    BY DEF MapFails, MapHitBusy
  <1>3. /\ GhostInv' /\ LiveGrows
        /\ bio[b].st = "new" /\ bio'[b].st = st /\ bio'[b].dbn = d
        /\ \A c \in Bios : c # b => bio'[c] = bio[c]
        /\ \A c \in Bios \ {b} : /\ IsWrite(c) => seen'[c] = seen[c]
                                 /\ seen[c] \subseteq seen'[c]
    BY <1>1, ArriveEffect DEF BioStatus
  <1>4. \A t \in Slots : /\ pending[t] \subseteq pending'[t]
                         /\ pending'[t] \subseteq pending[t] \cup {b}
                         /\ pending'[t] # pending[t] => t \in Cached(d)
    BY DEF MapFails, MapHitBusy, IInv, BlockInv, SlotTypeOK
  <1>5. KeepsData /\ DiskStep
    BY <1>2 DEF KeepsData, DirtKept, PipelineKept, DiskStep
  <1>6. ASSUME NEW t \in Slots PROVE JobBioInv(t)' /\ SlotDataInv(t)'
    <2>1. JobBioInv(t) /\ SlotDataInv(t) BY DEF DataInv
    <2>2. job[t].bio # b /\ b \notin pending[t] BY <1>3, NewIsNowhere
    <2>3. HasBio(t) => bio'[job[t].bio] = bio[job[t].bio]
      BY <1>3, <2>2 DEF HasBio, IInv, BlockInv, JobTypeOK, JobType
    <2>4. \A c \in pending'[t] : bio'[c].dbn = dbn[t]
      <3>1. pending[t] \subseteq Bios BY DEF IInv, BlockInv, SlotTypeOK
      <3>2. \A c \in pending[t] : bio'[c].dbn = dbn[t]
        BY <1>3, <2>1, <2>2, <3>1 DEF JobBioInv
      <3> QED BY <1>3, <1>4, <3>2 DEF Cached
    <2>5. JobBioInv(t)' BY <1>2, <2>1, <2>3, <2>4 DEF JobBioInv, HasBio, Bits, IsWrite
    <2>6. job[t].phase = "io" /\ job[t].act = "READFILL" => HasBio(t)
      BY DEF HasBio, IInv, BlockInv, SlotInv, PhaseInv
    <2>7. t \in hashed => dbn[t] \in Dbns BY BlockFacts
    <2>8. job[t].phase \in {"io", "md"} => t \in hashed BY BlockFacts
    <2>9. SlotDataInv(t)'
      BY <1>2, <1>3, <2>1, <2>3, <2>6, <2>7, <2>8 DEF SlotDataInv, Filled, Bits, LiveGrows
    <2> QED BY <2>5, <2>9
  <1>7. ASSUME NEW c \in Bios \ {b} PROVE DirectKept(c)
    BY <1>2, <1>3, <1>4, ArriveDirect
  <1>8. DirectInv(b)'
    <2>1. \A t \in Slots : job'[t].phase = "limbo" => pending'[t] = pending[t]
      BY <1>2, <1>4, BlockFacts DEF Cached
    <2> QED BY <1>1, <1>3, <2>1, ArriveIndirect
  <1> QED BY <1>3, <1>5, <1>6, <1>7, <1>8, DataKept

(* A hit claims an idle block, a miss an idle and clean one.               *)
LEMMA MapClaimsData ==
  ASSUME IInv, IInv', DataInv, NEW b \in Bios, NEW d \in Dbns, NEW dir \in {"READ", "WRITE"},
         MapHit(b, d, dir) \/ MapMiss(b, d, dir)
  PROVE  DataInv'
  <1>1. PICK s \in Slots, act \in {"READCACHE", "READDISK", "WRITECACHE"}, phase \in {"hit", "miss"} :
          /\ Arrive(b, d, dir, "job")
          /\ job' = [job EXCEPT ![s] = Job(act, phase, b)]
          /\ (dir = "WRITE") = (act = "WRITECACHE")
          /\ phase = "miss" => act # "READCACHE"
          /\ phase = "hit" => /\ s \in Cached(d) /\ Idle(s) /\ UNCHANGED dbn
                              /\ act # "READDISK"
                              /\ hashed' = hashed
                              /\ cache_state' = [cache_state EXCEPT ![s] = @ \cup {InprogBit(act)}]
          /\ phase = "miss" => /\ s \in Victims /\ dbn' = [dbn EXCEPT ![s] = d]
                               /\ hashed' = hashed \cup {s}
                               /\ cache_state' = [cache_state EXCEPT ![s] = {"VALID", InprogBit(act)}]
    <2>1. Victims \subseteq Slots /\ Cached(d) \subseteq Slots
      BY DEF Victims, Cached, IInv, BlockInv, SlotTypeOK
    <2>2. CASE MapHit(b, d, dir) BY <2>1, <2>2 DEF MapHit
    <2>3. CASE MapMiss(b, d, dir) BY <2>1, <2>3 DEF MapMiss
    <2> QED BY <2>2, <2>3
  <1>2. UNCHANGED <<pending, mdVars, devVars>> BY DEF MapHit, MapMiss
  <1>3. /\ GhostInv' /\ LiveGrows
        /\ bio[b].st = "new" /\ bio'[b].st = "job" /\ bio'[b].dbn = d /\ bio'[b].dir = dir
        /\ \A c \in Bios : c # b => bio'[c] = bio[c]
        /\ \A c \in Bios \ {b} : /\ IsWrite(c) => seen'[c] = seen[c]
                                 /\ seen[c] \subseteq seen'[c]
    BY <1>1, ArriveEffect DEF BioStatus
  <1>4. job[s].phase = "none" /\ pending[s] = {} /\ s \notin md_io
    <2>1. ~Busy(s)
      BY <1>1 DEF Idle, Victims, IInv, BlockInv, ListInv, Busy, Bits, BlockIoInprog
    <2>2. job[s].phase = "none" BY <2>1, IdleHasNoJob DEF IInv
    <2> QED BY <2>2, BlockFacts
  <1>5. /\ ("DIRTY" \in cache_state'[s]) = ("DIRTY" \in cache_state[s])
        /\ "DIRTY" \in cache_state[s] => phase = "hit"
    <2>1. InprogBit(act) # "DIRTY" BY DEF InprogBit
    <2>2. CASE phase = "hit" BY <1>1, <2>1, <2>2 DEF IInv, BlockInv, SlotTypeOK
    <2>3. CASE phase = "miss"
      <3>1. "DIRTY" \notin cache_state[s]
        BY <1>1, <2>3 DEF Victims, IInv, BlockInv, ListInv, Bits
      <3> QED BY <1>1, <2>1, <2>3, <3>1 DEF IInv, BlockInv, SlotTypeOK
    <2> QED BY <2>2, <2>3
  <1>6. /\ dbn'[s] = d /\ (phase = "hit" => dbn[s] = d)
        /\ \A t \in Slots \ {s} : /\ cache_state'[t] = cache_state[t] /\ dbn'[t] = dbn[t]
                                  /\ job'[t] = job[t] /\ (t \in hashed') = (t \in hashed)
        /\ job'[s] = Job(act, phase, b)
    BY <1>1 DEF Cached, IInv, BlockInv, SlotTypeOK, JobTypeOK
  <1>7. KeepsData /\ DiskStep
    BY <1>2, <1>4, <1>5, <1>6, OneSlotKeeps DEF DiskStep
  <1>8. JobBioInv(s)'
    BY <1>1, <1>2, <1>3, <1>4, <1>5, <1>6 DEF JobBioInv, HasBio, Job, Bits, IsWrite
  <1>9. SlotDataInv(s)'
    <2>1. CASE phase = "hit"
      <3>1. s \in hashed /\ Filled(s) BY <1>1, <1>4, <2>1 DEF Cached, Filled
      <3>2. ssd[s] \in live[d] BY <1>6, <2>1, <3>1 DEF DataInv, SlotDataInv
      <3> QED BY <1>2, <1>3, <1>6, <2>1, <3>2 DEF SlotDataInv, Job, LiveGrows
    <2>2. CASE phase = "miss"
      <3>1. ~Filled(s)'
        BY <1>5, <1>6, <2>2 DEF Filled, Bits, Job
      <3> QED BY <1>6, <2>2, <3>1 DEF SlotDataInv, Job
    <2> QED BY <2>1, <2>2
  <1>10. \A t \in Slots \ {s} : JobBioInv(t)' /\ SlotDataInv(t)'
    <2>1. \A t \in Slots \ {s} : Untouched(t) BY <1>2, <1>6 DEF Untouched
    <2>2. \A t \in hashed \ {s} : live[dbn[t]] \subseteq live'[dbn[t]]
      BY <1>3, BlockFacts DEF LiveGrows, IInv, BlockInv, SlotTypeOK
    <2> QED BY <1>2, <1>3, <2>1, <2>2, OthersKept DEF Queued
  <1>11. \A t \in Slots : job'[t].phase = "limbo" => job[t].phase = "limbo"
    BY <1>1, <1>6 DEF Job
  <1>12. ASSUME NEW c \in Bios \ {b} PROVE DirectKept(c)
    BY <1>2, <1>3, <1>11, ArriveDirect
  <1>13. DirectInv(b)' BY <1>2, <1>3, ArriveIndirect
  <1> QED BY <1>3, <1>7, <1>8, <1>9, <1>10, <1>12, <1>13, DataKept

LEMMA BioArrivesData ==
  ASSUME IInv, IInv', DataInv, NEW b \in Bios, BioArrives(b) PROVE DataInv'
  BY MapUncachedData, MapConflictData, MapWaitsData, MapClaimsData DEF BioArrives

-----------------------------------------------------------------------------
(* The steps of one slot                                                   *)

(* The bios and the blocks are left alone, but for slot s and its job.     *)
OneSlotStep(s) ==
  /\ \A t \in Slots \ {s} : Untouched(t)
  /\ seen' = seen
  /\ \A b \in Bios :
       /\ bio'[b].dbn = bio[b].dbn /\ bio'[b].dir = bio[b].dir
       /\ bio[b].st = "job" /\ b # job[s].bio => bio'[b] = bio[b]

(* A bio that this step does not send to the disk.                         *)
LEMMA NotSentKept ==
  ASSUME NEW s \in Slots, OneSlotStep(s), NEW b \in Bios,
         bio'[b].st \in {"disk", "disk_done"} => bio'[b] = bio[b],
         job'[s].phase = "limbo" /\ b \in pending'[s] =>
           job[s].phase = "limbo" /\ b \in pending[s]
  PROVE  DirectKept(b)
  BY DEF DirectKept, Direct, AtDisk, Draining, OneSlotStep, Untouched

(* A bio that goes to the disk when no copy of its block is in the way.    *)
LEMMA NowDirect ==
  ASSUME IInv, IInv', DataInv, NEW b \in Bios, Active(b),
         \A t \in hashed : dbn[t] = bio[b].dbn => "DIRTY" \notin cache_state[t],
         \A t \in hashed' : dbn'[t] # bio[b].dbn,
         disk' = disk, seen' = seen, bio'[b].st # "disk_done",
         bio'[b].dbn = bio[b].dbn, bio'[b].dir = bio[b].dir
  PROVE  DirectInv(b)'
  <1>1. bio[b].dbn \in Dbns BY DEF Active, IInv, RequestInv, BioInv
  <1>2. disk[bio[b].dbn] \in live[bio[b].dbn] BY <1>1, DiskIsLive
  <1>3. ~IsWrite(b) => live[bio[b].dbn] \subseteq seen[b]
    BY DEF DataInv, GhostInv, ReadsMayReturn, ActiveRead
  <1> QED BY <1>2, <1>3 DEF DirectInv, IsWrite

(* The other slots.                                                        *)
LEMMA OtherSlots ==
  ASSUME IInv, DataInv, NEW s \in Slots, OneSlotStep(s), DiskStep,
         \A d \in Dbns : d # dbn[s] \/ s \notin hashed => live[d] \subseteq live'[d]
  PROVE  \A t \in Slots \ {s} : JobBioInv(t)' /\ SlotDataInv(t)'
  <1>1. ASSUME NEW t \in hashed \ {s}
        PROVE  /\ live[dbn[t]] \subseteq live'[dbn[t]]
               /\ disk'[dbn[t]] = disk[dbn[t]] \/ disk'[dbn[t]] \in live'[dbn[t]]
    <2>1. t \in Slots /\ dbn[t] \in Dbns BY BlockFacts DEF IInv, BlockInv, SlotTypeOK
    <2>2. dbn[t] # dbn[s] \/ s \notin hashed BY DEF IInv, BlockInv, ListInv
    <2> QED BY <2>1, <2>2 DEF DiskStep, Fresh
  <1> QED BY <1>1, OthersKept DEF OneSlotStep

LEMMA SlotStepData ==
  ASSUME IInv, IInv', DataInv, NEW s \in Slots, OneSlotStep(s), KeepsData, DiskStep,
         LiveGrows, GhostInv',
         \A b \in Bios : DirectKept(b) \/ DirectInv(b)',
         JobBioInv(s)', SlotDataInv(s)'
  PROVE  DataInv'
  <1>1. \A t \in Slots : JobBioInv(t)' /\ SlotDataInv(t)' BY OtherSlots DEF LiveGrows
  <1> QED BY <1>1, DataKept

(* A step that leaves the bios alone.                                      *)
LEMMA QuietStep ==
  ASSUME IInv, IInv', DataInv, NEW s \in Slots, \A t \in Slots \ {s} : Untouched(t),
         KeepsData, DiskStep, UNCHANGED <<bio, live, seen>>,
         job'[s].phase = "limbo" => \A b \in pending'[s] : DirectInv(b)',
         JobBioInv(s)', SlotDataInv(s)'
  PROVE  DataInv'
  <1>1. OneSlotStep(s) BY DEF OneSlotStep
  <1>2. LiveGrows BY DEF LiveGrows
  <1>3. GhostInv' BY GhostStays DEF DataInv, Active
  <1>4. \A b \in Bios : DirectKept(b) \/ DirectInv(b)' BY <1>1, NotSentKept
  <1> QED BY <1>1, <1>2, <1>3, <1>4, SlotStepData

(* A job is sent down.                                                     *)
LEMMA StartData ==
  ASSUME IInv, IInv', DataInv, NEW s \in Slots, StartJob(s) \/ DirtyWriteback(s)
  PROVE  DataInv'
  <1>1. /\ job[s].phase \in {"hit", "miss", "wb"}
        /\ job' = [job EXCEPT ![s].phase = "io"]
        /\ UNCHANGED <<cache_state, dbn, hashed, pending, mdVars, devVars, bio, live, seen>>
    BY DEF StartJob, DirtyWriteback
  <1>2. /\ job'[s].phase = "io" /\ job'[s].act = job[s].act /\ job'[s].bio = job[s].bio
        /\ \A t \in Slots \ {s} : job'[t] = job[t]
    BY <1>1 DEF IInv, BlockInv, JobTypeOK, JobType
  <1>3. s \notin md_io /\ s \in hashed BY <1>1, BlockFacts
  <1>4. KeepsData /\ DiskStep BY <1>1, <1>2, <1>3, OneSlotKeeps DEF DiskStep
  <1>5. JobBioInv(s) /\ SlotDataInv(s) BY DEF DataInv
  <1>6. /\ job[s].phase = "wb" => job[s].bio = None /\ "DIRTY" \in cache_state[s]
        /\ job[s].phase = "miss" => "DIRTY" \notin cache_state[s]
    BY DEF IInv, BlockInv, SlotInv, PhaseInv, Bits
  <1>7. JobBioInv(s)'
    <2>1. HasBio(s)' => HasBio(s) BY <1>1, <1>2, <1>6 DEF HasBio
    <2>2. \A b \in pending'[s] : bio'[b].dbn = dbn'[s] BY <1>1, <1>5 DEF JobBioInv
    <2>3. job[s].act \in {"READDISK", "READFILL"} => "DIRTY" \notin cache_state[s]
      BY <1>1, <1>5, <1>6 DEF JobBioInv, IInv, BlockInv, SlotInv, PhaseInv
    <2> QED BY <1>1, <1>2, <1>5, <2>1, <2>2, <2>3 DEF JobBioInv, Bits, IsWrite
  <1>8. SlotDataInv(s)'
    <2>1. Filled(s)' => Filled(s)
      BY <1>1, <1>2, <1>5, <1>6 DEF Filled, JobBioInv, Bits
    <2>2. job[s].act # "READFILL"
      BY <1>1, <1>5, <1>6 DEF JobBioInv, IInv, BlockInv, SlotInv, PhaseInv
    <2> QED BY <1>1, <1>2, <1>5, <2>1, <2>2 DEF SlotDataInv
  <1>9. \A t \in Slots \ {s} : Untouched(t) BY <1>1, <1>2 DEF Untouched
  <1> QED BY <1>1, <1>2, <1>4, <1>7, <1>8, <1>9, QuietStep

(* The queue of a dirty block waits for a writeback; a block that is       *)
(* drained becomes free.                                                   *)
LEMMA PendingDirtyData ==
  ASSUME IInv, IInv', DataInv, NEW s \in Slots, DoPendingDirty(s) \/ DrainDone(s)
  PROVE  DataInv'
  <1>1. /\ job[s].phase \in {"pend", "limbo"}
        /\ UNCHANGED <<dbn, hashed, pending, mdVars, devVars, bio, live, seen>>
        /\ job' = [job EXCEPT ![s] = Job("WRITEDISK", "wb", None)] \/ job' = [job EXCEPT ![s] = NoJob]
    BY DEF DoPendingDirty, DrainDone
  <1>2. /\ job'[s].phase \in {"wb", "none"} /\ job'[s].bio = None
        /\ \A t \in Slots \ {s} : job'[t] = job[t] /\ cache_state'[t] = cache_state[t]
        /\ ("DIRTY" \in cache_state'[s]) = ("DIRTY" \in cache_state[s])
        /\ DoPendingDirty(s) => job'[s].phase = "wb" /\ "DIRTY" \in cache_state[s]
        /\ DrainDone(s) => job[s].phase = "limbo"
    BY <1>1 DEF DoPendingDirty, DrainDone, IInv, BlockInv, JobTypeOK, SlotTypeOK, Job, NoJob,
                BlockIoInprog
  <1>3. s \notin md_io BY <1>1, BlockFacts
  <1>4. KeepsData /\ DiskStep BY <1>1, <1>2, <1>3, OneSlotKeeps DEF DiskStep
  <1>5. JobBioInv(s) /\ SlotDataInv(s) BY DEF DataInv
  <1>6. JobBioInv(s)'
    BY <1>1, <1>2, <1>5 DEF JobBioInv, HasBio
  <1>7. SlotDataInv(s)'
    <2>1. CASE DoPendingDirty(s)
      BY <1>1, <1>2, <1>5, <2>1 DEF SlotDataInv, Filled, Bits
    <2>2. CASE DrainDone(s)
      <3>1. s \notin hashed BY <1>2, <2>2, BlockFacts
      <3> QED BY <1>1, <1>2, <3>1 DEF SlotDataInv
    <2> QED BY <2>1, <2>2
  <1>8. \A t \in Slots \ {s} : Untouched(t) BY <1>1, <1>2 DEF Untouched
  <1> QED BY <1>1, <1>2, <1>4, <1>6, <1>7, <1>8, QuietStep

(* The queue of a clean block goes to the disk.                            *)
LEMMA PendingCleanData ==
  ASSUME IInv, IInv', DataInv, NEW s \in Slots, DoPendingClean(s) PROVE DataInv'
  <1>1. /\ job[s].phase = "pend" /\ "DIRTY" \notin cache_state[s]
        /\ hashed' = hashed \ {s}
        /\ UNCHANGED <<dbn, pending, mdVars, devVars, bio, live, seen>>
    BY DEF DoPendingClean
  <1>2. /\ job'[s].phase = "limbo" /\ job'[s].bio = None
        /\ \A t \in Slots \ {s} : job'[t] = job[t] /\ cache_state'[t] = cache_state[t]
        /\ "DIRTY" \notin cache_state'[s]
    BY <1>1 DEF DoPendingClean, IInv, BlockInv, JobTypeOK, JobType, SlotTypeOK
  <1>3. s \notin md_io /\ s \in hashed BY <1>1, BlockFacts
  <1>4. KeepsData /\ DiskStep BY <1>1, <1>2, <1>3, OneSlotKeeps DEF DiskStep
  <1>5. \A b \in pending[s] : b \in Bios /\ bio[b].dbn = dbn[s] /\ Active(b)
    BY DEF DataInv, JobBioInv, IInv, BlockInv, SlotTypeOK, QueueInv, Queued, Active
  <1>6. \A t \in hashed : dbn[t] = dbn[s] => t = s
    BY <1>3 DEF IInv, BlockInv, ListInv
  <1>7. ASSUME NEW b \in pending'[s] PROVE DirectInv(b)'
    <2>1. b \in Bios /\ bio[b].dbn = dbn[s] /\ Active(b) /\ bio[b].st # "disk_done"
      BY <1>1, <1>5 DEF IInv, QueueInv, Queued
    <2> QED BY <1>1, <1>3, <1>6, <2>1, NowDirect
  <1>8. JobBioInv(s)' BY <1>1, <1>2, <1>5 DEF JobBioInv, HasBio
  <1>9. SlotDataInv(s)' BY <1>1, <1>2 DEF SlotDataInv
  <1>10. \A t \in Slots \ {s} : Untouched(t) BY <1>1, <1>2 DEF Untouched
  <1> QED BY <1>1, <1>4, <1>7, <1>8, <1>9, <1>10, QuietStep

(* Several idle dirty blocks are chosen for writeback.                     *)
LEMMA CleanSetData ==
  ASSUME IInv, IInv', DataInv, NEW S \in SUBSET Slots, CleanSet(S) PROVE DataInv'
  <1>1. /\ \A t \in Slots : t \notin S => cache_state'[t] = cache_state[t] /\ job'[t] = job[t]
        /\ \A t \in S : /\ cache_state'[t] = cache_state[t] \cup {"DISKWRITEINPROG"}
                        /\ job'[t] = Job("WRITEDISK", "wb", None)
                        /\ "DIRTY" \in cache_state[t] /\ ~Busy(t)
        /\ UNCHANGED <<dbn, hashed, pending, mdVars, devVars, bio, live, seen>>
    BY DEF CleanSet
  <1>2. \A t \in S : job[t].phase = "none" /\ t \notin md_io
    BY <1>1, IdleHasNoJob, BlockFacts DEF IInv
  <1>3. md_io \subseteq Slots BY DEF IInv, BlockInv, MdTypeOK
  <1>4. DirtKept BY <1>1 DEF DirtKept
  <1>5. KeepsData BY <1>1, <1>2, <1>3, <1>4 DEF KeepsData, PipelineKept
  <1>6. DiskStep /\ LiveGrows BY <1>1 DEF DiskStep, LiveGrows
  <1>7. GhostInv' BY <1>1, GhostStays DEF DataInv, Active
  <1>8. ASSUME NEW b \in Bios PROVE DirectKept(b)
    BY <1>1 DEF DirectKept, Direct, AtDisk, Draining, Job
  <1>9. ASSUME NEW t \in Slots PROVE JobBioInv(t)' /\ SlotDataInv(t)'
    <2>1. JobBioInv(t) /\ SlotDataInv(t) BY DEF DataInv
    <2>2. CASE t \in S
      <3>1. JobBioInv(t)' BY <1>1, <2>1, <2>2 DEF JobBioInv, HasBio, Job
      <3>2. SlotDataInv(t)' BY <1>1, <2>1, <2>2 DEF SlotDataInv, Filled, Bits, Job
      <3> QED BY <3>1, <3>2
    <2>3. CASE t \notin S
      <3>1. Untouched(t) BY <1>1, <2>3 DEF Untouched
      <3> QED BY <1>1, <3>1, SlotKept
    <2> QED BY <2>2, <2>3
  <1> QED BY <1>5, <1>6, <1>7, <1>8, <1>9, DataKept

(* A step in which bios may fail, or go to the disk.                       *)
LEMMA StatusStep ==
  ASSUME IInv, IInv', DataInv, NEW s \in Slots, OneSlotStep(s), KeepsData, DiskStep,
         UNCHANGED <<live, seen>>,
         \A b \in Bios : /\ Active(b)' => Active(b)
                         /\ bio'[b].st = "new" => bio[b].st = "new"
                         /\ bio'[b].st = "ok" => bio'[b] = bio[b],
         \A b \in Bios : DirectKept(b) \/ DirectInv(b)',
         JobBioInv(s)', SlotDataInv(s)'
  PROVE  DataInv'
  <1>1. GhostInv' BY GhostStays DEF OneSlotStep, DataInv
  <1>2. LiveGrows BY DEF LiveGrows
  <1> QED BY <1>1, <1>2, SlotStepData

(* A slot is left without a job and without a queue.                       *)
LEMMA LeftIdle ==
  ASSUME NEW s \in Slots, job'[s] = NoJob, pending'[s] = {},
         s \in hashed' => ssd'[s] \in live'[dbn'[s]]
  PROVE  JobBioInv(s)' /\ SlotDataInv(s)'
  BY DEF JobBioInv, SlotDataInv, HasBio, NoJob

(* The job of a slot and the bios queued on it fail.                       *)
LEMMA QueueFails ==
  ASSUME IInv, IInv', DataInv, NEW s \in Slots, s \notin md_io, NEW B \in SUBSET Bios,
         B \subseteq pending[s] \cup {job[s].bio}, bio' = SetStatus(B, "eio"),
         pending' = [pending EXCEPT ![s] = {}], job' = [job EXCEPT ![s] = NoJob],
         UNCHANGED <<dbn, mdVars, devVars, live, seen>>,
         \A t \in Slots \ {s} :
           cache_state'[t] = cache_state[t] /\ (t \in hashed') = (t \in hashed),
         ("DIRTY" \in cache_state'[s]) = ("DIRTY" \in cache_state[s]),
         s \in hashed' => s \in hashed /\ Filled(s)
  PROVE  DataInv'
  <1>1. /\ job'[s] = NoJob /\ pending'[s] = {}
        /\ \A t \in Slots \ {s} : job'[t] = job[t] /\ pending'[t] = pending[t]
    BY DEF IInv, BlockInv, JobTypeOK, SlotTypeOK
  <1>2. /\ \A b \in B : /\ bio'[b].st = "eio"
                        /\ bio'[b].dbn = bio[b].dbn /\ bio'[b].dir = bio[b].dir
        /\ \A b \in Bios \ B : bio'[b] = bio[b]
    BY DEF SetStatus, IInv, RequestInv, BioTypeOK, BioType
  <1>3. \A b \in pending[s] : bio[b].st # "job" BY DEF IInv, QueueInv, Queued
  <1>4. \A t \in Slots \ {s} : Untouched(t) BY <1>1 DEF Untouched
  <1>5. OneSlotStep(s) BY <1>2, <1>3, <1>4 DEF OneSlotStep
  <1>6. KeepsData /\ DiskStep BY <1>1, OneSlotKeeps DEF DiskStep
  <1>7. ASSUME NEW b \in Bios
        PROVE  /\ Active(b)' => Active(b)
               /\ bio'[b].st = "new" => bio[b].st = "new"
               /\ bio'[b].st = "ok" => bio'[b] = bio[b]
    BY <1>2 DEF Active
  <1>8. ASSUME NEW b \in Bios PROVE DirectKept(b)
    BY <1>1, <1>2, <1>5, NotSentKept DEF NoJob
  <1>9. s \in hashed' => ssd'[s] \in live'[dbn'[s]] BY DEF DataInv, SlotDataInv
  <1>10. JobBioInv(s)' /\ SlotDataInv(s)' BY <1>1, <1>9, LeftIdle
  <1> QED BY <1>5, <1>6, <1>7, <1>8, <1>10, StatusStep

LEMMA StartFailsData ==
  ASSUME IInv, IInv', DataInv, NEW s \in Slots, StartJobFails(s) \/ DirtyWritebackFails(s)
  PROVE  DataInv'
  <1>1. /\ job[s].phase \in {"hit", "miss", "wb"}
        /\ pending' = [pending EXCEPT ![s] = {}] /\ job' = [job EXCEPT ![s] = NoJob]
        /\ UNCHANGED <<dbn, mdVars, devVars, live, seen>>
    BY DEF StartJobFails, DirtyWritebackFails
  <1>2. PICK B \in SUBSET Bios : /\ B \subseteq pending[s] \cup {job[s].bio}
                                 /\ bio' = SetStatus(B, "eio")
    <2>1. pending[s] \in SUBSET Bios BY DEF IInv, BlockInv, SlotTypeOK
    <2>2. CASE StartJobFails(s)
      <3>1. job[s].bio \in Bios
        BY <2>2 DEF StartJobFails, IInv, BlockInv, SlotInv, PhaseInv, JobTypeOK, JobType
      <3> QED BY <2>1, <2>2, <3>1 DEF StartJobFails
    <2>3. CASE DirtyWritebackFails(s) BY <2>1, <2>3 DEF DirtyWritebackFails
    <2> QED BY <2>2, <2>3
  <1>3. s \notin md_io /\ s \in hashed BY <1>1, BlockFacts
  <1>4. /\ job[s].phase = "wb" => "DIRTY" \in cache_state[s]
        /\ job[s].phase = "miss" => "DIRTY" \notin cache_state[s]
    BY DEF IInv, BlockInv, SlotInv, PhaseInv, Bits
  <1>5. \/ /\ cache_state' = [cache_state EXCEPT ![s] = @ \ BlockIoInprog]
           /\ hashed' = hashed /\ Filled(s)
        \/ /\ cache_state' = [cache_state EXCEPT ![s] = {"INVALID"}]
           /\ hashed' = hashed \ {s} /\ "DIRTY" \notin cache_state[s]
    BY <1>1, <1>4 DEF StartJobFails, DirtyWritebackFails, Filled, Bits
  <1>6. /\ \A t \in Slots \ {s} :
             cache_state'[t] = cache_state[t] /\ (t \in hashed') = (t \in hashed)
        /\ ("DIRTY" \in cache_state'[s]) = ("DIRTY" \in cache_state[s])
        /\ s \in hashed' => s \in hashed /\ Filled(s)
    BY <1>3, <1>5 DEF IInv, BlockInv, SlotTypeOK, BlockIoInprog
  <1> QED BY <1>1, <1>2, <1>3, <1>6, QueueFails

(* What becomes of a block that is given up unless it is dirty.            *)
LEMMA GivenUp ==
  ASSUME IInv, NEW s \in Slots, job[s].phase = "pend", GiveUpUnlessDirty(s)
  PROVE  /\ pending' = [pending EXCEPT ![s] = {}] /\ job' = [job EXCEPT ![s] = NoJob]
         /\ \A t \in Slots \ {s} :
              cache_state'[t] = cache_state[t] /\ (t \in hashed') = (t \in hashed)
         /\ ("DIRTY" \in cache_state'[s]) = ("DIRTY" \in cache_state[s])
         /\ s \in hashed' <=> "DIRTY" \in cache_state[s]
         /\ s \notin md_io /\ s \in hashed
  <1>1. s \notin md_io /\ s \in hashed BY BlockFacts
  <1>2. \/ /\ cache_state' = [cache_state EXCEPT ![s] = @ \ BlockIoInprog]
           /\ hashed' = hashed /\ "DIRTY" \in cache_state[s]
        \/ /\ cache_state' = [cache_state EXCEPT ![s] = {"INVALID"}]
           /\ hashed' = hashed \ {s} /\ "DIRTY" \notin cache_state[s]
    BY DEF GiveUpUnlessDirty
  <1>3. /\ \A t \in Slots \ {s} :
             cache_state'[t] = cache_state[t] /\ (t \in hashed') = (t \in hashed)
        /\ ("DIRTY" \in cache_state'[s]) = ("DIRTY" \in cache_state[s])
        /\ s \in hashed' <=> "DIRTY" \in cache_state[s]
    BY <1>1, <1>2 DEF IInv, BlockInv, SlotTypeOK, BlockIoInprog
  <1> QED BY <1>1, <1>3 DEF GiveUpUnlessDirty

LEMMA PendingErrorData ==
  ASSUME IInv, IInv', DataInv, NEW s \in Slots, DoPendingError(s) PROVE DataInv'
  <1>1. /\ job[s].phase = "pend" /\ GiveUpUnlessDirty(s)
        /\ bio' = SetStatus(pending[s], "eio")
        /\ UNCHANGED <<dbn, mdVars, devVars, live, seen>>
    BY DEF DoPendingError
  <1>2. pending[s] \in SUBSET Bios BY DEF IInv, BlockInv, SlotTypeOK
  <1> QED BY <1>1, <1>2, GivenUp, QueueFails DEF Filled, Bits

(* In the other modes, the queue and the job's bio are sent to the disk.   *)
LEMMA PendingRetryData ==
  ASSUME IInv, IInv', DataInv, NEW s \in Slots, DoPendingErrorRetry(s) PROVE DataInv'
  <1>1. /\ job[s].phase = "pend" /\ job[s].err /\ job[s].bio # None
        /\ GiveUpUnlessDirty(s) /\ CacheMode # "WRITE_BACK"
        /\ UNCHANGED <<dbn, mdVars, devVars, live, seen>>
    BY DEF DoPendingErrorRetry
  <1> DEFINE B == pending[s] \cup {job[s].bio}
  <1>2. PICK F \in SUBSET B :
          bio' = [b \in Bios |-> IF b \in F THEN [bio[b] EXCEPT !.st = "eio"]
                                 ELSE IF b \in B THEN [bio[b] EXCEPT !.st = "disk"] ELSE bio[b]]
    BY DEF DoPendingErrorRetry
  <1>3. \A b \in Bios : /\ bio'[b].dbn = bio[b].dbn /\ bio'[b].dir = bio[b].dir
                        /\ b \in B => bio'[b].st \in {"eio", "disk"}
                        /\ b \notin B => bio'[b] = bio[b]
    BY <1>2 DEF IInv, RequestInv, BioTypeOK, BioType
  <1>4. \A b \in B : b \in Bios /\ bio[b].dbn = dbn[s] /\ Active(b)
    <2>1. HasBio(s) /\ job[s].bio \in Bios
      BY <1>1 DEF HasBio, IInv, BlockInv, JobTypeOK, JobType
    <2>2. pending[s] \subseteq Bios /\ \A b \in pending[s] : bio[b].st \in Queued
      BY DEF IInv, BlockInv, SlotTypeOK, QueueInv
    <2> QED BY <2>1, <2>2 DEF DataInv, JobBioInv, Active, Queued
  <1>5. /\ pending'[s] = {} /\ job'[s] = NoJob
        /\ \A t \in Slots \ {s} : pending'[t] = pending[t] /\ job'[t] = job[t]
    BY <1>1, GivenUp DEF IInv, BlockInv, SlotTypeOK, JobTypeOK
  <1>6. \A t \in Slots \ {s} : Untouched(t) BY <1>1, <1>5, GivenUp DEF Untouched
  <1>7. \A b \in pending[s] : bio[b].st # "job" BY DEF IInv, QueueInv, Queued
  <1>8. OneSlotStep(s) BY <1>1, <1>3, <1>6, <1>7 DEF OneSlotStep
  <1>9. "DIRTY" \notin cache_state[s]
    BY <1>1 DEF IInv, BlockInv, SlotInv, BitsInv, Bits
  <1>10. KeepsData /\ DiskStep
    BY <1>1, <1>5, GivenUp, OneSlotKeeps DEF DiskStep
  <1>11. \A t \in hashed : dbn[t] = dbn[s] => t = s
    BY <1>1, GivenUp DEF IInv, BlockInv, ListInv
  <1>12. \A t \in hashed' : t \in hashed /\ t # s
    BY <1>1, <1>9, GivenUp DEF IInv, BlockInv, SlotTypeOK
  <1>13. ASSUME NEW b \in Bios PROVE DirectKept(b) \/ DirectInv(b)'
    <2>1. CASE b \notin B
      BY <1>3, <1>5, <1>8, <2>1, NotSentKept DEF NoJob
    <2>2. CASE b \in B
      <3>1. bio'[b].st # "disk_done" BY <1>3, <2>2
      <3> QED BY <1>1, <1>3, <1>4, <1>9, <1>11, <1>12, <2>2, <3>1, GivenUp, NowDirect
    <2> QED BY <2>1, <2>2
  <1>14. ASSUME NEW b \in Bios
         PROVE  /\ Active(b)' => Active(b)
                /\ bio'[b].st = "new" => bio[b].st = "new"
                /\ bio'[b].st = "ok" => bio'[b] = bio[b]
    <2>1. CASE b \in B BY <1>3, <1>4, <2>1
    <2>2. CASE b \notin B BY <1>3, <2>2 DEF Active
    <2> QED BY <2>1, <2>2
  <1>15. JobBioInv(s)' /\ SlotDataInv(s)' BY <1>5, <1>12, LeftIdle
  <1> QED BY <1>1, <1>8, <1>10, <1>13, <1>14, <1>15, StatusStep

-----------------------------------------------------------------------------
(* The steps of a bio that is queued, or at the disk                       *)

Waits(b) == bio[b].st \in Queued \cup {"disk", "disk_done"}

LEMMA BioStep ==
  ASSUME IInv, IInv', DataInv, NEW b \in Bios, Waits(b),
         \A c \in Bios \ {b} : bio'[c] = bio[c],
         bio'[b].dbn = bio[b].dbn, bio'[b].dir = bio[b].dir, bio'[b].st \notin {"new", "ok"},
         KeepsData, DiskStep, UNCHANGED <<live, seen>>,
         \A t \in Slots : Untouched(t) \/ (JobBioInv(t)' /\ SlotDataInv(t)'),
         \A t \in Slots : job'[t].phase = "limbo" =>
           job[t].phase = "limbo" /\ pending'[t] \subseteq pending[t],
         DirectKept(b) \/ DirectInv(b)'
  PROVE  DataInv'
  <1>1. Active(b) /\ bio[b].st # "job" BY DEF Waits, Queued, Active
  <1>2. GhostInv'
    <2>1. ASSUME NEW c \in Bios
          PROVE  /\ bio'[c].dir = bio[c].dir /\ bio'[c].dbn = bio[c].dbn
                 /\ Active(c)' => Active(c)
                 /\ bio'[c].st = "new" => bio[c].st = "new"
                 /\ bio'[c].st = "ok" => bio'[c] = bio[c]
      BY <1>1 DEF Active
    <2> QED BY <2>1, GhostStays DEF DataInv
  <1>3. LiveGrows BY DEF LiveGrows
  <1>4. ASSUME NEW c \in Bios \ {b} PROVE DirectKept(c)
    BY DEF DirectKept, Direct, AtDisk, Draining
  <1>5. ASSUME NEW t \in Slots, Untouched(t) PROVE JobBioInv(t)' /\ SlotDataInv(t)'
    <2>1. HasBio(t) => job[t].bio \in Bios /\ bio[job[t].bio].st = "job"
      BY DEF HasBio, DataInv, JobBioInv, IInv, BlockInv, JobTypeOK, JobType
    <2>2. HasBio(t) => bio'[job[t].bio] = bio[job[t].bio] BY <1>1, <2>1
    <2>3. \A c \in pending[t] : bio'[c].dbn = bio[c].dbn
      BY DEF IInv, BlockInv, SlotTypeOK
    <2>4. t \in hashed => dbn[t] \in Dbns BY BlockFacts
    <2> QED BY <1>5, <2>2, <2>3, <2>4, SlotKept DEF DiskStep, Fresh
  <1> QED BY <1>2, <1>3, <1>4, <1>5, DataKept

(* A bio that fails for lack of memory, or is queued again.                *)
LEMMA NotDirectNow ==
  ASSUME NEW b \in Bios, bio'[b].st \notin {"disk", "disk_done"},
         \A t \in Slots : job'[t].phase = "limbo" => b \notin pending'[t]
  PROVE  DirectKept(b)
  BY DEF DirectKept, Direct, AtDisk, Draining

LEMMA DrainPendingData ==
  ASSUME IInv, IInv', DataInv, NEW s \in Slots, NEW b \in Bios, DrainPending(s, b)
  PROVE  DataInv'
  <1>1. /\ job[s].phase = "limbo" /\ b \in pending[s]
        /\ bio[b].st = "queued_inval" => Conflicts(bio[b].dbn) = {}
        /\ pending' = [pending EXCEPT ![s] = @ \ {b}]
        /\ UNCHANGED <<dbn, job, mdVars, devVars, live, seen>>
    BY DEF DrainPending
  <1>2. PICK st \in {"disk", "eio"} : bio' = SetStatus({b}, st)
    BY DEF DrainPending, StartUncached
  <1>3. /\ bio'[b].st = st /\ bio'[b].dbn = bio[b].dbn /\ bio'[b].dir = bio[b].dir
        /\ \A c \in Bios \ {b} : bio'[c] = bio[c]
    BY <1>2 DEF SetStatus, IInv, RequestInv, BioTypeOK, BioType
  <1>4. Waits(b) BY <1>1 DEF Waits, IInv, QueueInv
  <1>5. \A t \in Slots : pending'[t] \subseteq pending[t]
    BY <1>1 DEF IInv, BlockInv, SlotTypeOK
  <1>6. /\ KeepsData
        /\ \A t \in Slots : Untouched(t) \/ (JobBioInv(t)' /\ SlotDataInv(t)')
    <2>1. CASE bio[b].st = "queued_inval"
      <3> DEFINE d == bio[b].dbn
      <3>1. d \in Dbns BY <2>1 DEF IInv, RequestInv, BioInv
      <3>2. InvalidateClean(d) BY <2>1 DEF DrainPending
      <3>3. /\ KeepsData
            /\ \A t \in Cached(d) : t \notin hashed' /\ job'[t].phase = "none"
            /\ \A t \in Slots \ Cached(d) :
                 cache_state'[t] = cache_state[t] /\ (t \in hashed') = (t \in hashed)
        BY <1>1, <2>1, <3>1, <3>2, DropKeeps
      <3>4. ASSUME NEW t \in Slots, t \in Cached(d) PROVE JobBioInv(t)' /\ SlotDataInv(t)'
        <4>1. pending[t] = {} BY <1>1, <2>1, <3>1, <3>4, DropFacts
        <4>2. pending'[t] = {} BY <1>5, <4>1
        <4> QED BY <3>3, <3>4, <4>2, EmptySlot
      <3>5. ASSUME NEW t \in Slots, t \notin Cached(d) PROVE Untouched(t)
        BY <1>1, <1>5, <3>3, <3>5 DEF Untouched
      <3> QED BY <3>3, <3>4, <3>5
    <2>2. CASE bio[b].st # "queued_inval"
      <3>1. UNCHANGED <<cache_state, hashed>> BY <2>2 DEF DrainPending
      <3> QED BY <1>1, <1>5, <3>1 DEF KeepsData, DirtKept, PipelineKept, Untouched
    <2> QED BY <2>1, <2>2
  <1>7. DirectKept(b) BY <1>1, <1>3 DEF DirectKept, Direct, Draining
  <1>8. DiskStep BY <1>1 DEF DiskStep
  <1> QED BY <1>1, <1>3, <1>4, <1>5, <1>6, <1>7, <1>8, BioStep

(* The bio fails.                                                          *)
LEMMA BioFailsData ==
  ASSUME IInv, IInv', DataInv, NEW b \in Bios,
         (\E s \in Slots : DrainPendingFails(s, b)) \/ UncachedIoCompleteFails(b)
  PROVE  DataInv'
  <1>1. /\ bio' = SetStatus({b}, "eio")
        /\ UNCHANGED <<cache_state, dbn, hashed, job, mdVars, devVars, live, seen>>
    BY DEF DrainPendingFails, UncachedIoCompleteFails
  <1>2. /\ bio'[b].st = "eio" /\ bio'[b].dbn = bio[b].dbn /\ bio'[b].dir = bio[b].dir
        /\ \A c \in Bios \ {b} : bio'[c] = bio[c]
    BY <1>1 DEF SetStatus, IInv, RequestInv, BioTypeOK, BioType
  <1>3. Waits(b)
    BY DEF DrainPendingFails, UncachedIoCompleteFails, Waits, IInv, QueueInv, Queued
  <1>4. \A t \in Slots : pending'[t] \subseteq pending[t]
    BY DEF DrainPendingFails, UncachedIoCompleteFails, IInv, BlockInv, SlotTypeOK
  <1>5. \A t \in Slots : b \notin pending'[t]
    BY <1>2 DEF IInv, QueueInv, Queued
  <1>6. \A t \in Slots : Untouched(t) BY <1>1, <1>4 DEF Untouched
  <1>7. KeepsData /\ DiskStep
    BY <1>1 DEF KeepsData, DirtKept, PipelineKept, DiskStep
  <1>8. DirectKept(b) BY <1>2, <1>5, NotDirectNow
  <1> QED BY <1>1, <1>2, <1>3, <1>4, <1>6, <1>7, <1>8, BioStep

(* The bio finds a block in its way, and waits on it.                      *)
LEMMA BioWaitsData ==
  ASSUME IInv, IInv', DataInv, NEW b \in Bios,
         (\E r \in Slots : DrainPendingConflict(r, b)) \/ UncachedIoRequeue(b)
  PROVE  DataInv'
  <1> DEFINE d == bio[b].dbn
  <1>1. UNCHANGED <<dbn, hashed, mdVars, devVars, live, seen>>
    BY DEF DrainPendingConflict, UncachedIoRequeue
  <1>2. /\ bio'[b].st = "queued_inval" /\ bio'[b].dbn = d /\ bio'[b].dir = bio[b].dir
        /\ \A c \in Bios \ {b} : bio'[c] = bio[c]
    BY DEF DrainPendingConflict, UncachedIoRequeue, IInv, RequestInv, BioTypeOK, BioType
  <1>3. Waits(b)
    BY DEF DrainPendingConflict, UncachedIoRequeue, Waits, IInv, QueueInv, Queued
  <1>4. d \in Dbns
    BY <1>3 DEF Waits, Queued, IInv, RequestInv, BioInv
  <1>5. PICK s \in Conflicts(d) : /\ CleanForInvalidate(s)
                                  /\ pending'[s] = pending[s] \cup {b}
                                  /\ \A t \in Slots \ {s} : pending'[t] \subseteq pending[t]
    <2>1. Conflicts(d) \subseteq hashed /\ hashed \subseteq Slots
      BY DEF Conflicts, Cached, IInv, BlockInv, SlotTypeOK
    <2>2. CASE UncachedIoRequeue(b)
      BY <2>1, <2>2 DEF UncachedIoRequeue, IInv, BlockInv, SlotTypeOK
    <2>3. CASE \E r \in Slots : DrainPendingConflict(r, b)
      <3>1. PICK r \in Slots : DrainPendingConflict(r, b) BY <2>3
      <3>2. r \notin hashed BY <3>1, BlockFacts DEF DrainPendingConflict
      <3>3. PICK s \in Conflicts(d) :
              /\ pending' = [pending EXCEPT ![r] = @ \ {b}, ![s] = @ \cup {b}]
              /\ CleanForInvalidate(s)
        BY <3>1 DEF DrainPendingConflict
      <3>4. s \in Slots /\ s # r BY <2>1, <3>2
      <3> QED BY <3>1, <3>3, <3>4 DEF IInv, BlockInv, SlotTypeOK
    <2> QED BY <2>2, <2>3
  <1>6. \A c \in pending'[s] : bio'[c].dbn = d
    <2>1. s \in Slots /\ dbn[s] = d /\ pending[s] \subseteq Bios
      BY <1>5 DEF Conflicts, Cached, IInv, BlockInv, SlotTypeOK
    <2> QED BY <1>2, <1>5, <2>1 DEF DataInv, JobBioInv
  <1>7. \A c \in Bios : bio[c].st = "job" => bio'[c] = bio[c]
    BY <1>2, <1>3 DEF Waits, Queued
  <1>8. LiveGrows BY <1>1 DEF LiveGrows
  <1>9. /\ s \in Slots /\ KeepsData /\ DiskStep
        /\ JobBioInv(s)' /\ SlotDataInv(s)'
        /\ job'[s].phase # "limbo"
        /\ \A t \in Slots \ {s} : /\ cache_state'[t] = cache_state[t] /\ dbn'[t] = dbn[t]
                                  /\ job'[t] = job[t] /\ ssd'[t] = ssd[t]
                                  /\ (t \in hashed') = (t \in hashed)
    BY <1>1, <1>4, <1>5, <1>6, <1>7, <1>8, QueueOn
  <1>10. \A t \in Slots \ {s} : Untouched(t) BY <1>5, <1>9 DEF Untouched
  <1>11. b \in pending'[s] BY <1>5
  <1>12. \A t \in Slots : job'[t].phase = "limbo" => b \notin pending'[t]
    BY <1>9, <1>11 DEF IInv, QueueInv
  <1>13. DirectKept(b) BY <1>2, <1>12, NotDirectNow
  <1>14. \A t \in Slots : job'[t].phase = "limbo" =>
           job[t].phase = "limbo" /\ pending'[t] \subseteq pending[t]
    BY <1>5, <1>9
  <1> QED BY <1>1, <1>2, <1>3, <1>9, <1>10, <1>13, <1>14, BioStep

(* The disk has done what the bio asked for.                               *)
LEMMA UncachedIoDoneData ==
  ASSUME IInv, IInv', DataInv, NEW b \in Bios, UncachedIoDone(b) PROVE DataInv'
  <1> DEFINE d == bio[b].dbn
  <1>1. /\ bio[b].st = "disk"
        /\ UNCHANGED <<cache_state, dbn, hashed, pending, job, mdVars, ssd, flash_md, live, seen>>
    BY DEF UncachedIoDone
  <1>2. PICK error \in BOOLEAN :
          /\ IsWrite(b) => disk' = [disk EXCEPT ![d] = b] \/ (error /\ disk' = disk)
          /\ ~IsWrite(b) => disk' = disk
          /\ bio' = [bio EXCEPT ![b].st = "disk_done", ![b].err = error,
                                ![b].val = IF IsWrite(b) THEN b ELSE disk[d]]
    BY DEF UncachedIoDone, Outcome
  <1>3. /\ bio'[b].st = "disk_done" /\ bio'[b].dbn = d /\ bio'[b].dir = bio[b].dir
        /\ bio'[b].err = error /\ bio'[b].val = (IF IsWrite(b) THEN b ELSE disk[d])
        /\ \A c \in Bios \ {b} : bio'[c] = bio[c]
    BY <1>2 DEF IInv, RequestInv, BioTypeOK, BioType
  <1>4. d \in Dbns /\ Active(b) /\ Direct(b) /\ Waits(b) /\ DirectInv(b)
    BY <1>1 DEF Active, Direct, AtDisk, Waits, DataInv, IInv, RequestInv, BioInv
  <1>5. IsWrite(b) => Fresh(b, d) BY <1>4, WriteIsFresh DEF ActiveWrite, DataInv
  <1>6. \A e \in Dbns : disk'[e] = disk[e] \/ (IsWrite(b) /\ e = d /\ disk'[e] = b)
    BY <1>2, <1>4 DEF IInv, DeviceInv, DevTypeOK
  <1>7. DiskStep BY <1>5, <1>6 DEF DiskStep
  <1>8. KeepsData BY <1>1 DEF KeepsData, DirtKept, PipelineKept
  <1>9. \A t \in Slots : Untouched(t) BY <1>1 DEF Untouched
  <1>10. DirectInv(b)'
    <2>1. IsWrite(b)' = IsWrite(b) BY <1>3 DEF IsWrite
    <2>2. CASE IsWrite(b)
      <3>1. b \notin seen[b] BY <1>4, <1>5, <2>2 DEF Fresh
      <3>2. ~error => disk'[d] = b
        BY <1>2, <1>4, <2>2 DEF IInv, DeviceInv, DevTypeOK
      <3> QED BY <1>1, <1>3, <1>4, <2>1, <2>2, <3>1, <3>2 DEF DirectInv, Bits
    <2>3. CASE ~IsWrite(b)
      BY <1>1, <1>2, <1>3, <1>4, <2>1, <2>3 DEF DirectInv
    <2> QED BY <2>2, <2>3
  <1> QED BY <1>1, <1>3, <1>4, <1>7, <1>8, <1>9, <1>10, BioStep

-----------------------------------------------------------------------------
(* I/O to a slot ends                                                      *)

(* The slot's data is what it was, or does not matter, or is fresh.        *)
DataStep(s) ==
  \/ ssd'[s] = ssd[s]
  \/ "DIRTY" \notin cache_state[s]
  \/ Fresh(ssd'[s], dbn[s])

LEMMA JobFacts ==
  ASSUME IInv, DataInv, NEW s \in Slots, job[s].phase = "io", job[s].act # "WRITEDISK"
  PROVE  /\ job[s].bio \in Bios /\ bio[job[s].bio].st = "job" /\ Active(job[s].bio)
         /\ bio[job[s].bio].dbn = dbn[s]
         /\ IsWrite(job[s].bio) = (job[s].act = "WRITECACHE")
         /\ s \in hashed /\ dbn[s] \in Dbns /\ s \notin md_io
  <1>1. HasBio(s) BY DEF HasBio, IInv, BlockInv, SlotInv, PhaseInv
  <1>2. job[s].bio \in Bios BY <1>1 DEF HasBio, IInv, BlockInv, JobTypeOK, JobType
  <1>3. /\ bio[job[s].bio].st = "job" /\ bio[job[s].bio].dbn = dbn[s]
        /\ IsWrite(job[s].bio) = (job[s].act = "WRITECACHE")
    BY <1>1 DEF DataInv, JobBioInv
  <1> QED BY <1>2, <1>3, BlockFacts DEF Active

LEMMA IoCore ==
  ASSUME IInv, IInv', DataInv, NEW s \in Slots, s \in hashed, s \notin md_io, OneSlotStep(s),
         UNCHANGED <<dbn, hashed, pending, mdVars, flash_md>>,
         ("DIRTY" \in cache_state'[s]) = ("DIRTY" \in cache_state[s]),
         DataStep(s), DiskStep, GhostInv',
         \A d \in Dbns : d # dbn[s] => live[d] \subseteq live'[d],
         NoneDirty(dbn[s])' => disk'[dbn[s]] \in live'[dbn[s]],
         \A b \in Bios : bio'[b].st \in {"disk", "disk_done"} => bio'[b] = bio[b],
         job'[s].phase # "limbo",
         JobBioInv(s)', SlotDataInv(s)'
  PROVE  DataInv'
  <1>1. \A t \in Slots \ {s} : Untouched(t) BY DEF OneSlotStep
  <1>2. DirtStep
    <2> SUFFICES ASSUME NEW t \in Slots, "DIRTY" \in cache_state'[t]
                 PROVE  Fresh(ssd'[t], dbn'[t])
      BY DEF DirtStep
    <2>1. "DIRTY" \in cache_state[t] BY <1>1 DEF Untouched
    <2>2. Fresh(ssd[t], dbn[t]) BY <2>1, DirtyIsFresh
    <2> QED BY <1>1, <2>1, <2>2 DEF Untouched, DataStep
  <1>3. PipelineKept
    BY <1>1 DEF PipelineKept, Untouched, IInv, BlockInv, MdTypeOK
  <1>4. FlashBehindInv'
    BY <1>1, <1>3, FlashBehindKept DEF Untouched, DataInv
  <1>5. DiskLive'
    <2> SUFFICES ASSUME NEW d \in Dbns, NoneDirty(d)' PROVE disk'[d] \in live'[d]
      BY DEF DiskLive
    <2>1. CASE d = dbn[s] BY <2>1
    <2>2. CASE d # dbn[s] BY <1>1, <2>2, DiskLiveAt DEF Untouched
    <2> QED BY <2>1, <2>2
  <1>6. \A t \in Slots : JobBioInv(t)' /\ SlotDataInv(t)'
    BY OtherSlots
  <1>7. \A b \in Bios : DirectKept(b) BY NotSentKept
  <1> QED BY <1>2, <1>4, <1>5, <1>6, <1>7, DataFollows

(* The tail of the callback.                                               *)
LEMMA FinishEffect ==
  ASSUME IInv, NEW s \in Slots, NEW error \in BOOLEAN, NEW b \in Bios \cup {None},
         FinishIo(s, error, b)
  PROVE  /\ \A t \in Slots \ {s} : job'[t] = job[t] /\ cache_state'[t] = cache_state[t]
         /\ ("DIRTY" \in cache_state'[s]) = ("DIRTY" \in cache_state[s])
         /\ \/ job'[s] = NoJob /\ ~error
            \/ /\ job'[s].phase = "pend" /\ job'[s].bio = b
               /\ job'[s].err = error /\ job'[s].act = job[s].act
  BY DEF FinishIo, IInv, BlockInv, JobTypeOK, JobType, SlotTypeOK, BlockIoInprog

(* The bio ends with its I/O.                                              *)
LEMMA IoEndData ==
  ASSUME IInv, IInv', DataInv, NEW s \in Slots, job[s].phase = "io", job[s].act # "WRITEDISK",
         NEW error \in BOOLEAN, NEW v \in Values \cup {None},
         EndIo(job[s].bio, error, v), FinishIo(s, error, None),
         ~error /\ job[s].act # "WRITECACHE" => v \in seen[job[s].bio],
         UNCHANGED <<dbn, hashed, pending, mdVars, flash_md>>,
         \A t \in Slots \ {s} : ssd'[t] = ssd[t],
         DiskStep, DataStep(s),
         ~error \/ "DIRTY" \in cache_state[s] => ssd'[s] \in live'[dbn[s]],
         ~error /\ job[s].act = "WRITECACHE" =>
           "DIRTY" \in cache_state[s] \/ disk'[dbn[s]] \in live'[dbn[s]]
  PROVE  DataInv'
  <1> DEFINE b == job[s].bio
  <1>1. /\ b \in Bios /\ bio[b].st = "job" /\ Active(b) /\ bio[b].dbn = dbn[s]
        /\ IsWrite(b) = (job[s].act = "WRITECACHE")
        /\ s \in hashed /\ dbn[s] \in Dbns /\ s \notin md_io
    BY JobFacts
  <1>2. GhostInv' BY <1>1, GhostEnds DEF DataInv, IInv
  <1>3. /\ bio'[b].st \in {"ok", "eio"} /\ seen' = seen
        /\ bio'[b].dbn = bio[b].dbn /\ bio'[b].dir = bio[b].dir
        /\ \A c \in Bios \ {b} : bio'[c] = bio[c]
    BY <1>1 DEF EndIo, IInv, RequestInv, BioTypeOK, BioType
  <1>4. /\ \A d \in Dbns : d # dbn[s] => live'[d] = live[d]
        /\ error \/ ~IsWrite(b) => live' = live
    BY <1>1 DEF EndIo, IInv, RequestInv, GhostTypeOK
  <1>5. /\ \A t \in Slots \ {s} : job'[t] = job[t] /\ cache_state'[t] = cache_state[t]
        /\ ("DIRTY" \in cache_state'[s]) = ("DIRTY" \in cache_state[s])
        /\ \/ job'[s] = NoJob /\ ~error
           \/ job'[s].phase = "pend" /\ job'[s].bio = None
    BY FinishEffect
  <1>6. OneSlotStep(s)
    BY <1>3, <1>5 DEF OneSlotStep, Untouched
  <1>7. ASSUME NoneDirty(dbn[s])' PROVE disk'[dbn[s]] \in live'[dbn[s]]
    <2>1. CASE error \/ ~IsWrite(b) BY <1>1, <1>4, <1>5, <1>7, <2>1, DiskLiveAt
    <2>2. CASE ~error /\ IsWrite(b)
      <3>1. "DIRTY" \notin cache_state[s] BY <1>5, <1>7 DEF NoneDirty, Bits
      <3> QED BY <1>1, <2>2, <3>1
    <2> QED BY <2>1, <2>2
  <1>8. \A c \in pending[s] : c \in Bios /\ bio'[c].dbn = dbn[s]
    BY <1>3 DEF DataInv, JobBioInv, IInv, BlockInv, SlotTypeOK
  <1>9. JobBioInv(s)' BY <1>5, <1>8 DEF JobBioInv, HasBio, NoJob
  <1>10. SlotDataInv(s)' BY <1>5 DEF SlotDataInv, Filled, NoJob, Bits
  <1>11. \A c \in Bios : bio'[c].st \in {"disk", "disk_done"} => bio'[c] = bio[c]
    BY <1>3
  <1>12. job'[s].phase # "limbo" BY <1>5 DEF NoJob
  <1> QED BY <1>1, <1>2, <1>4, <1>5, <1>6, <1>7, <1>9, <1>10, <1>11, <1>12, IoCore

(* The I/O fails: the bio ends, or is kept to be retried from the disk.    *)
LEMMA FailBioData ==
  ASSUME IInv, IInv', DataInv, NEW s \in Slots, job[s].phase = "io", job[s].act # "WRITEDISK",
         FailBio(s), UNCHANGED <<dbn, hashed, pending, mdVars, flash_md, disk>>,
         \A t \in Slots \ {s} : ssd'[t] = ssd[t], DataStep(s)
  PROVE  DataInv'
  <1> DEFINE b == job[s].bio
  <1>1. /\ b \in Bios /\ bio[b].st = "job" /\ Active(b) /\ bio[b].dbn = dbn[s]
        /\ IsWrite(b) = (job[s].act = "WRITECACHE")
        /\ s \in hashed /\ dbn[s] \in Dbns /\ s \notin md_io
    BY JobFacts
  <1>2. DiskStep BY DEF DiskStep
  <1>3. "DIRTY" \in cache_state[s] => Fresh(ssd'[s], dbn[s])
    BY DirtyIsFresh DEF DataStep
  <1>4. CASE CacheMode = "WRITE_BACK"
    <2>1. EndIo(b, TRUE, bio[b].val) /\ FinishIo(s, TRUE, None)
      BY <1>4 DEF FailBio
    <2>2. bio[b].val \in Values \cup {None}
      BY <1>1 DEF IInv, RequestInv, BioTypeOK, BioType
    <2>3. live' = live BY <2>1 DEF EndIo
    <2>4. "DIRTY" \in cache_state[s] => ssd'[s] \in live'[dbn[s]]
      BY <1>3, <2>3 DEF Fresh
    <2> QED BY <1>2, <2>1, <2>2, <2>4, IoEndData
  <1>5. CASE CacheMode # "WRITE_BACK"
    <2>1. FinishIo(s, TRUE, b) /\ UNCHANGED <<bio, live, seen>>
      BY <1>5 DEF FailBio
    <2>2. /\ \A t \in Slots \ {s} : job'[t] = job[t] /\ cache_state'[t] = cache_state[t]
          /\ ("DIRTY" \in cache_state'[s]) = ("DIRTY" \in cache_state[s])
          /\ job'[s].phase = "pend" /\ job'[s].bio = b /\ job'[s].act = job[s].act
      BY <1>1, <2>1, FinishEffect
    <2>3. OneSlotStep(s) BY <2>1, <2>2 DEF OneSlotStep, Untouched
    <2>4. GhostInv' BY <2>1, GhostStays DEF DataInv, Active
    <2>5. NoneDirty(dbn[s])' => disk'[dbn[s]] \in live'[dbn[s]]
      BY <1>1, <1>2, <2>1, <2>2, DiskLiveAt
    <2>6. "DIRTY" \notin cache_state[s]
      BY <1>5 DEF IInv, BlockInv, SlotInv, BitsInv, Bits
    <2>7. JobBioInv(s)'
      BY <1>1, <2>1, <2>2 DEF JobBioInv, DataInv, IsWrite
    <2>8. SlotDataInv(s)' BY <2>2, <2>6 DEF SlotDataInv, Filled, Bits
    <2>9. job'[s].phase # "limbo" BY <2>2
    <2> QED BY <1>1, <1>2, <2>1, <2>2, <2>3, <2>4, <2>5, <2>7, <2>8, <2>9, IoCore
  <1> QED BY <1>4, <1>5

LEMMA ReadDiskDoneData ==
  ASSUME IInv, IInv', DataInv, NEW s \in Slots, ReadDiskDone(s) PROVE DataInv'
  <1> DEFINE b == job[s].bio
  <1>1. /\ job[s].phase = "io" /\ job[s].act = "READDISK"
        /\ UNCHANGED <<dbn, hashed, pending, mdVars, devVars>>
    BY DEF ReadDiskDone, InIo
  <1>2. /\ b \in Bios /\ bio[b].st = "job" /\ Active(b) /\ bio[b].dbn = dbn[s]
        /\ IsWrite(b) = (job[s].act = "WRITECACHE")
        /\ s \in hashed /\ dbn[s] \in Dbns /\ s \notin md_io
    BY <1>1, JobFacts
  <1>3. "DIRTY" \notin cache_state[s] BY <1>1 DEF DataInv, JobBioInv, Bits
  <1>4. DiskStep BY <1>1 DEF DiskStep
  <1>5. CASE EndIo(b, TRUE, None) /\ FinishIo(s, TRUE, None)
    BY <1>1, <1>3, <1>4, <1>5, IoEndData DEF DataStep
  <1>6. CASE /\ bio' = [bio EXCEPT ![b].val = disk[dbn[s]]]
             /\ job' = [job EXCEPT ![s].act = "READFILL"]
             /\ UNCHANGED <<cache_state, live, seen>>
    <2>1. /\ bio'[b].st = "job" /\ bio'[b].dbn = bio[b].dbn /\ bio'[b].dir = bio[b].dir
          /\ bio'[b].val = disk[dbn[s]]
          /\ \A c \in Bios \ {b} : bio'[c] = bio[c]
      BY <1>2, <1>6 DEF IInv, RequestInv, BioTypeOK, BioType
    <2>2. /\ job'[s].phase = "io" /\ job'[s].act = "READFILL" /\ job'[s].bio = b
          /\ \A t \in Slots \ {s} : job'[t] = job[t]
      BY <1>1, <1>6 DEF IInv, BlockInv, JobTypeOK, JobType
    <2>3. \A t \in Slots \ {s} : Untouched(t) BY <1>1, <1>6, <2>2 DEF Untouched
    <2>4. OneSlotStep(s) BY <1>6, <2>1, <2>3 DEF OneSlotStep
    <2>5. KeepsData BY <1>1, <1>2, <1>6, <2>2, OneSlotKeeps
    <2>6. ASSUME NEW c \in Bios
          PROVE  /\ Active(c)' => Active(c)
                 /\ bio'[c].st = "new" => bio[c].st = "new"
                 /\ bio'[c].st = "ok" => bio'[c] = bio[c]
                 /\ DirectKept(c)
      <3>1. DirectKept(c) BY <2>1, <2>2, <2>4, NotSentKept
      <3> QED BY <1>2, <2>1, <3>1 DEF Active
    <2>7. \A t \in hashed : dbn[t] = dbn[s] => t = s
      BY <1>2 DEF IInv, BlockInv, ListInv
    <2>8. disk[dbn[s]] \in live[dbn[s]] BY <1>2, <1>3, <2>7, DiskIsLive
    <2>9. \A c \in pending'[s] : bio'[c].dbn = dbn'[s]
      BY <1>1, <1>2, <2>1 DEF DataInv, JobBioInv, IInv, BlockInv, SlotTypeOK
    <2>10. JobBioInv(s)'
      BY <1>1, <1>2, <1>3, <1>6, <2>1, <2>2, <2>9 DEF JobBioInv, Bits, IsWrite
    <2>11. SlotDataInv(s)'
      BY <1>1, <1>3, <1>6, <2>1, <2>2, <2>8 DEF SlotDataInv, Filled, Bits
    <2> QED BY <1>4, <1>6, <2>4, <2>5, <2>6, <2>10, <2>11, StatusStep
  <1> QED BY <1>5, <1>6 DEF ReadDiskDone

LEMMA ReadFillDoneData ==
  ASSUME IInv, IInv', DataInv, NEW s \in Slots, ReadFillDone(s) PROVE DataInv'
  <1> DEFINE b == job[s].bio
  <1>1. /\ job[s].phase = "io" /\ job[s].act = "READFILL"
        /\ UNCHANGED <<dbn, hashed, pending, mdVars, flash_md, disk>>
        /\ ssd' \in {ssd, [ssd EXCEPT ![s] = bio[b].val]}
    BY DEF ReadFillDone, InIo
  <1>2. /\ b \in Bios /\ Active(b) /\ bio[b].dbn = dbn[s] /\ ~IsWrite(b)
    BY <1>1, JobFacts
  <1>3. "DIRTY" \notin cache_state[s] /\ bio[b].val \in live[dbn[s]]
    BY <1>1 DEF DataInv, JobBioInv, SlotDataInv, Bits
  <1>4. DiskStep BY <1>1 DEF DiskStep
  <1>5. \A t \in Slots \ {s} : ssd'[t] = ssd[t]
    BY <1>1 DEF IInv, DeviceInv, DevTypeOK
  <1>6. CASE EndIo(b, FALSE, bio[b].val) /\ FinishIo(s, FALSE, None)
             /\ ssd' = [ssd EXCEPT ![s] = bio[b].val]
    <2>1. bio[b].val \in Values \cup {None} /\ live' = live
      BY <1>2, <1>6 DEF EndIo, IInv, RequestInv, BioTypeOK, BioType
    <2>2. bio[b].val \in seen[b]
      BY <1>2, <1>3 DEF DataInv, GhostInv, ReadsMayReturn, ActiveRead
    <2>3. ssd'[s] \in live'[dbn[s]]
      BY <1>3, <1>6, <2>1 DEF IInv, DeviceInv, DevTypeOK
    <2> QED BY <1>1, <1>3, <1>4, <1>5, <1>6, <2>1, <2>2, <2>3, IoEndData DEF DataStep
  <1>7. CASE FailBio(s)
    BY <1>1, <1>3, <1>5, <1>7, FailBioData DEF DataStep
  <1> QED BY <1>6, <1>7 DEF ReadFillDone

LEMMA ReadCacheDoneData ==
  ASSUME IInv, IInv', DataInv, NEW s \in Slots, ReadCacheDone(s) PROVE DataInv'
  <1> DEFINE b == job[s].bio
  <1>1. /\ job[s].phase = "io" /\ job[s].act = "READCACHE"
        /\ UNCHANGED <<dbn, hashed, pending, mdVars, devVars>>
    BY DEF ReadCacheDone, InIo
  <1>2. /\ b \in Bios /\ Active(b) /\ bio[b].dbn = dbn[s] /\ ~IsWrite(b) /\ s \in hashed
    BY <1>1, JobFacts
  <1>3. DiskStep BY <1>1 DEF DiskStep
  <1>4. CASE EndIo(b, FALSE, ssd[s]) /\ FinishIo(s, FALSE, None)
    <2>1. ssd[s] \in live[dbn[s]]
      BY <1>1, <1>2 DEF DataInv, SlotDataInv, Filled
    <2>2. ssd[s] \in seen[b]
      BY <1>2, <2>1 DEF DataInv, GhostInv, ReadsMayReturn, ActiveRead
    <2>3. ssd[s] \in Values \cup {None} /\ live' = live
      BY <1>2, <1>4 DEF EndIo, IInv, DeviceInv, DevTypeOK
    <2> QED BY <1>1, <1>3, <1>4, <2>1, <2>2, <2>3, IoEndData DEF DataStep
  <1>5. CASE FailBio(s) BY <1>1, <1>5, FailBioData DEF DataStep
  <1> QED BY <1>4, <1>5 DEF ReadCacheDone

(* What a completed write leaves live.                                     *)
LEMMA WriteEnds ==
  ASSUME IInv, DataInv, NEW b \in Bios, ActiveWrite(b), NEW v, EndIo(b, FALSE, v)
  PROVE  b \in live'[bio[b].dbn]
  <1>1. bio[b].dbn \in Dbns BY DEF ActiveWrite, Active, IInv, RequestInv, BioInv
  <1>2. b \in live[bio[b].dbn] /\ b \notin seen[b]
    BY DEF DataInv, GhostInv, WritesAreLive, NotSuperseded
  <1> QED BY <1>1, <1>2 DEF EndIo, ActiveWrite, IInv, RequestInv, GhostTypeOK

(* A metadata update joins the pipeline.                                   *)
LEMMA MdWriteKeeps ==
  ASSUME IInv, NEW s \in Slots, job[s].phase = "io", MdWrite(s),
         UNCHANGED <<dbn, flash_md>>, \A t \in Slots \ {s} : ssd'[t] = ssd[t],
         ssd'[s] = ssd[s] \/ "DIRTY" \notin cache_state[s]
  PROVE  /\ KeepsData
         /\ job'[s].phase = "md" /\ job'[s].act = job[s].act /\ job'[s].bio = job[s].bio
         /\ cache_state' = cache_state
         /\ \A t \in Slots \ {s} : job'[t] = job[t]
  <1>1. s \notin md_io /\ md_io \subseteq Slots
    BY BlockFacts DEF IInv, BlockInv, MdTypeOK
  <1>2. /\ job'[s].phase = "md" /\ job'[s].act = job[s].act /\ job'[s].bio = job[s].bio
        /\ cache_state' = cache_state /\ md_image' = md_image /\ md_error' = md_error
        /\ \A t \in Slots \ {s} : job'[t] = job[t]
        /\ \/ md_phase' = md_phase /\ md_io' = md_io
           \/ md_phase = "idle" /\ md_phase' = "kickoff"
    BY DEF MdWrite, IInv, BlockInv, JobTypeOK, JobType
  <1>3. PipelineKept BY <1>1, <1>2 DEF PipelineKept
  <1>4. DirtKept BY <1>2 DEF DirtKept
  <1> QED BY <1>1, <1>2, <1>3, <1>4 DEF KeepsData

LEMMA WriteCacheDoneData ==
  ASSUME IInv, IInv', DataInv, NEW s \in Slots, WriteCacheDone(s) PROVE DataInv'
  <1> DEFINE b == job[s].bio
  <1>1. /\ job[s].phase = "io" /\ job[s].act = "WRITECACHE"
        /\ UNCHANGED <<dbn, hashed, pending, flash_md, disk>>
        /\ ssd' \in {ssd, [ssd EXCEPT ![s] = b]}
    BY DEF WriteCacheDone, InIo
  <1>2. /\ b \in Bios /\ ActiveWrite(b) /\ bio[b].dbn = dbn[s] /\ bio[b].st = "job"
        /\ s \in hashed /\ dbn[s] \in Dbns /\ s \notin md_io
    BY <1>1, JobFacts DEF ActiveWrite
  <1>3. Fresh(b, dbn[s]) BY <1>2, WriteIsFresh DEF DataInv
  <1>4. DiskStep BY <1>1 DEF DiskStep
  <1>5. /\ \A t \in Slots \ {s} : ssd'[t] = ssd[t]
        /\ ssd'[s] \in {ssd[s], b}
        /\ ssd' = [ssd EXCEPT ![s] = b] => ssd'[s] = b
    BY <1>1 DEF IInv, DeviceInv, DevTypeOK
  <1>6. DataStep(s) BY <1>3, <1>5 DEF DataStep
  <1>7. CASE /\ ssd' = [ssd EXCEPT ![s] = b] /\ "DIRTY" \in cache_state[s]
             /\ EndIo(b, FALSE, b) /\ FinishIo(s, FALSE, None) /\ UNCHANGED mdVars
    <2>1. b \in live'[dbn[s]] BY <1>2, <1>7, WriteEnds
    <2>2. b \in Values \cup {None} BY <1>2 DEF Values
    <2> QED BY <1>1, <1>4, <1>5, <1>6, <1>7, <2>1, <2>2, IoEndData
  <1>8. CASE /\ ssd' = [ssd EXCEPT ![s] = b] /\ "DIRTY" \notin cache_state[s]
             /\ MdWrite(s) /\ UNCHANGED <<bio, live, seen>>
    <2>1. /\ KeepsData
          /\ job'[s].phase = "md" /\ job'[s].act = job[s].act /\ job'[s].bio = b
          /\ cache_state' = cache_state
          /\ \A t \in Slots \ {s} : job'[t] = job[t]
      BY <1>1, <1>5, <1>8, MdWriteKeeps
    <2>2. \A t \in Slots \ {s} : Untouched(t) BY <1>1, <1>5, <2>1 DEF Untouched
    <2>3. HasBio(s) BY <1>1, <1>2 DEF HasBio, IInv, BlockInv, SlotInv, PhaseInv
    <2>4. JobBioInv(s)'
      BY <1>1, <1>8, <2>1, <2>3 DEF DataInv, JobBioInv, Bits, IsWrite
    <2>5. SlotDataInv(s)'
      BY <1>1, <1>3, <1>5, <1>8, <2>1 DEF SlotDataInv, Fresh
    <2> QED BY <1>4, <1>8, <2>1, <2>2, <2>4, <2>5, QuietStep
  <1>9. CASE FailBio(s) /\ UNCHANGED mdVars
    BY <1>1, <1>5, <1>6, <1>9, FailBioData
  <1> QED BY <1>7, <1>8, <1>9 DEF WriteCacheDone

LEMMA WriteThroughDoneData ==
  ASSUME IInv, IInv', DataInv, NEW s \in Slots, WriteThroughDone(s) PROVE DataInv'
  <1> DEFINE b == job[s].bio
  <1>1. /\ job[s].phase = "io" /\ job[s].act = "WRITECACHE" /\ CacheMode = "WRITE_THROUGH"
        /\ UNCHANGED <<dbn, hashed, pending, mdVars, flash_md>>
        /\ ssd' \in {ssd, [ssd EXCEPT ![s] = b]}
        /\ disk' \in {disk, [disk EXCEPT ![dbn[s]] = b]}
    BY DEF WriteThroughDone, InIo
  <1>2. /\ b \in Bios /\ ActiveWrite(b) /\ bio[b].dbn = dbn[s] /\ dbn[s] \in Dbns
    BY <1>1, JobFacts DEF ActiveWrite
  <1>3. Fresh(b, dbn[s]) BY <1>2, WriteIsFresh DEF DataInv
  <1>4. DiskStep BY <1>1, <1>3 DEF DiskStep, IInv, DeviceInv, DevTypeOK
  <1>5. \A t \in Slots \ {s} : ssd'[t] = ssd[t]
    BY <1>1 DEF IInv, DeviceInv, DevTypeOK
  <1>6. "DIRTY" \notin cache_state[s]
    BY <1>1 DEF IInv, BlockInv, SlotInv, BitsInv, Bits
  <1>7. b \in Values \cup {None} BY <1>2 DEF Values
  <1>8. CASE /\ ssd' = [ssd EXCEPT ![s] = b] /\ disk' = [disk EXCEPT ![dbn[s]] = b]
             /\ EndIo(b, FALSE, b) /\ FinishIo(s, FALSE, None)
    <2>1. b \in live'[dbn[s]] BY <1>2, <1>8, WriteEnds
    <2>2. ssd'[s] = b /\ disk'[dbn[s]] = b
      BY <1>2, <1>8 DEF IInv, DeviceInv, DevTypeOK
    <2> QED BY <1>1, <1>4, <1>5, <1>6, <1>7, <1>8, <2>1, <2>2, IoEndData DEF DataStep
  <1>9. CASE EndIo(b, TRUE, b) /\ FinishIo(s, TRUE, None)
    BY <1>1, <1>4, <1>5, <1>6, <1>7, <1>9, IoEndData DEF DataStep
  <1> QED BY <1>8, <1>9 DEF WriteThroughDone

(* A dirty block is copied to the disk, or the copy fails.                 *)
LEMMA KcopydDoneData ==
  ASSUME IInv, IInv', DataInv, NEW s \in Slots, KcopydDone(s) PROVE DataInv'
  <1>1. /\ job[s].phase = "io" /\ job[s].act = "WRITEDISK"
        /\ UNCHANGED <<dbn, hashed, pending, ssd, flash_md, bio, live, seen>>
        /\ disk' \in {disk, [disk EXCEPT ![dbn[s]] = ssd[s]]}
    BY DEF KcopydDone, InIo
  <1>2. "DIRTY" \in cache_state[s] /\ job[s].bio = None
    BY <1>1 DEF IInv, BlockInv, SlotInv, PhaseInv, Bits
  <1>3. Fresh(ssd[s], dbn[s]) /\ dbn[s] \in Dbns /\ s \in hashed /\ s \notin md_io
    BY <1>1, <1>2, DirtyIsFresh, BlockFacts
  <1>4. DiskStep BY <1>1, <1>3 DEF DiskStep, IInv, DeviceInv, DevTypeOK
  <1>5. JobBioInv(s) /\ SlotDataInv(s) BY DEF DataInv
  <1>6. CASE disk' = [disk EXCEPT ![dbn[s]] = ssd[s]] /\ MdWrite(s)
    <2>1. /\ KeepsData
          /\ job'[s].phase = "md" /\ job'[s].act = "WRITEDISK" /\ job'[s].bio = None
          /\ cache_state' = cache_state
          /\ \A t \in Slots \ {s} : job'[t] = job[t]
      BY <1>1, <1>2, <1>6, MdWriteKeeps
    <2>2. \A t \in Slots \ {s} : Untouched(t) BY <1>1, <2>1 DEF Untouched
    <2>3. disk'[dbn[s]] = ssd[s] BY <1>3, <1>6 DEF IInv, DeviceInv, DevTypeOK
    <2>4. JobBioInv(s)' BY <1>1, <1>5, <2>1 DEF JobBioInv, HasBio
    <2>5. SlotDataInv(s)' BY <1>1, <1>3, <2>1, <2>3 DEF SlotDataInv, Fresh
    <2> QED BY <1>1, <1>4, <2>1, <2>2, <2>4, <2>5, QuietStep
  <1>7. CASE /\ job' = [job EXCEPT ![s].phase = "pend", ![s].err = TRUE]
             /\ UNCHANGED <<cache_state, mdVars>>
    <2>1. /\ job'[s].phase = "pend" /\ job'[s].bio = None
          /\ \A t \in Slots \ {s} : job'[t] = job[t]
      BY <1>2, <1>7 DEF IInv, BlockInv, JobTypeOK, JobType
    <2>2. \A t \in Slots \ {s} : Untouched(t) BY <1>1, <1>7, <2>1 DEF Untouched
    <2>3. KeepsData BY <1>1, <1>3, <1>7, <2>1, OneSlotKeeps
    <2>4. JobBioInv(s)' BY <1>1, <1>5, <2>1 DEF JobBioInv, HasBio
    <2>5. SlotDataInv(s)' BY <1>1, <1>3, <2>1 DEF SlotDataInv, Fresh
    <2> QED BY <1>1, <1>4, <2>1, <2>2, <2>3, <2>4, <2>5, QuietStep
  <1> QED BY <1>6, <1>7 DEF KcopydDone

(* An uncached I/O ends: no copy of its block is left in the cache.        *)
LEMMA UncachedIoCompleteData ==
  ASSUME IInv, IInv', DataInv, NEW b \in Bios, UncachedIoComplete(b) PROVE DataInv'
  <1> DEFINE d == bio[b].dbn
  <1>1. /\ bio[b].st = "disk_done" /\ Conflicts(d) = {} /\ InvalidateClean(d)
        /\ EndIo(b, bio[b].err, bio[b].val)
        /\ UNCHANGED <<dbn, pending, job, mdVars, devVars>>
    BY DEF UncachedIoComplete
  <1>2. /\ d \in Dbns /\ Active(b) /\ DirectInv(b)
        /\ bio[b].err \in BOOLEAN /\ bio[b].val \in Values \cup {None}
    BY <1>1 DEF Active, DataInv, IInv, RequestInv, BioInv, BioTypeOK, BioType
  <1>3. GhostInv' BY <1>1, <1>2, GhostEnds DEF DataInv, DirectInv, IInv
  <1>4. /\ bio'[b].st \in {"ok", "eio"} /\ seen' = seen
        /\ \A c \in Bios \ {b} : bio'[c] = bio[c]
        /\ \A c \in Bios : bio'[c].dbn = bio[c].dbn
    BY <1>1 DEF EndIo, IInv, RequestInv, BioTypeOK, BioType
  <1>5. /\ \A e \in Dbns : e # d => live'[e] = live[e]
        /\ IF ~bio[b].err /\ IsWrite(b) THEN live'[d] = live[d] \ seen[b] ELSE live' = live
    BY <1>1, <1>2 DEF EndIo, IInv, RequestInv, GhostTypeOK
  <1>6. /\ KeepsData
        /\ \A t \in Cached(d) : t \notin hashed' /\ job'[t].phase = "none"
        /\ \A t \in Slots \ Cached(d) :
             cache_state'[t] = cache_state[t] /\ (t \in hashed') = (t \in hashed)
    BY <1>1, <1>2, DropKeeps
  <1>7. DirtStep BY <1>6, DirtStays DEF KeepsData
  <1>8. DiskStep BY <1>1 DEF DiskStep
  <1>9. FlashBehindInv'
    BY <1>6, FlashBehindKept DEF DataInv, KeepsData, DirtKept
  <1>10. DiskLive'
    <2> SUFFICES ASSUME NEW e \in Dbns, NoneDirty(e)' PROVE disk'[e] \in live'[e]
      BY DEF DiskLive
    <2>1. CASE e # d
      BY <1>5, <1>6, <1>8, <2>1, DiskLiveAt DEF KeepsData, DirtKept
    <2>2. CASE e = d
      <3>1. disk[d] \in live[d] BY <1>1, <1>2, DropFacts, DiskIsLive
      <3>2. ~bio[b].err /\ IsWrite(b) => disk[d] \notin seen[b]
        BY <1>1, <1>2 DEF DirectInv
      <3> QED BY <1>1, <1>5, <2>2, <3>1, <3>2
    <2> QED BY <2>1, <2>2
  <1>11. ASSUME NEW c \in Bios PROVE DirectKept(c)
    <2>1. CASE c = b
      <3>1. \A t \in Slots : b \notin pending'[t]
        BY <1>4 DEF IInv, QueueInv, Queued
      <3> QED BY <1>4, <2>1, <3>1, NotDirectNow
    <2>2. CASE c # b
      BY <1>1, <1>4, <2>2 DEF DirectKept, Direct, AtDisk, Draining
    <2> QED BY <2>1, <2>2
  <1>12. ASSUME NEW t \in Slots PROVE JobBioInv(t)' /\ SlotDataInv(t)'
    <2>1. CASE t \in Cached(d)
      <3>1. pending'[t] = {} BY <1>1, <1>2, <2>1, DropFacts
      <3> QED BY <1>6, <2>1, <3>1, EmptySlot
    <2>2. CASE t \notin Cached(d)
      <3>1. Untouched(t) BY <1>1, <1>6, <2>2 DEF Untouched
      <3>2. HasBio(t) => bio'[job[t].bio] = bio[job[t].bio]
        <4>1. HasBio(t) => job[t].bio \in Bios /\ bio[job[t].bio].st = "job"
          BY DEF HasBio, DataInv, JobBioInv, IInv, BlockInv, JobTypeOK, JobType
        <4> QED BY <1>1, <1>4, <4>1
      <3>3. \A c \in pending[t] : bio'[c].dbn = bio[c].dbn
        BY <1>4 DEF IInv, BlockInv, SlotTypeOK
      <3>4. t \in hashed => dbn[t] \in Dbns /\ dbn[t] # d
        BY <2>2, BlockFacts DEF Cached
      <3> QED BY <1>1, <1>5, <3>1, <3>2, <3>3, <3>4, SlotKept
    <2> QED BY <2>1, <2>2
  <1> QED BY <1>3, <1>7, <1>8, <1>9, <1>10, <1>11, <1>12, DataFollows

-----------------------------------------------------------------------------
(* The metadata updates                                                    *)

(* The pipeline moves on; the blocks, the data and the bios stay.          *)
LEMMA PipelineMoves ==
  ASSUME IInv, IInv', DataInv, UNCHANGED <<slotVars, ssd, disk, bio, live, seen>>,
         FlashBehindInv'
  PROVE  DataInv'
  <1>1. DirtStep BY DirtStays DEF DirtKept
  <1>2. DiskStep BY DEF DiskStep
  <1>3. GhostInv' BY GhostStays DEF DataInv, Active
  <1>4. ASSUME NEW b \in Bios PROVE DirectKept(b)
    BY DEF DirectKept, Direct, AtDisk, Draining
  <1>5. ASSUME NEW t \in Slots PROVE JobBioInv(t)' /\ SlotDataInv(t)'
    BY SlotKept DEF Untouched
  <1>6. DiskLive' BY DEF DataInv, DiskLive, NoneDirty, Bits
  <1> QED BY <1>1, <1>2, <1>3, <1>4, <1>5, <1>6, DataFollows

LEMMA MdKickoffData ==
  ASSUME IInv, IInv', DataInv, MdKickoff PROVE DataInv'
  <1>1. /\ md_phase = "kickoff" /\ md_phase' = "io" /\ md_io' = md_io \cup md_queue
        /\ \A s \in Slots : md_image'[s] = MdRecord(s, md_io \cup md_queue)
        /\ UNCHANGED <<slotVars, devVars, bio, live, seen>>
    BY DEF MdKickoff
  <1>2. FlashBehindInv'
    <2> SUFFICES ASSUME NoMdWriteFault, NEW s \in Slots
                 PROVE  /\ "DIRTY" \in flash_md[s].state =>
                             flash_md[s].dbn = dbn[s] /\ "DIRTY" \in Bits(s)
                        /\ "DIRTY" \in md_image'[s].state =>
                             /\ md_image'[s].dbn = dbn[s]
                             /\ \/ "DIRTY" \in Bits(s) /\ ~BecomesClean(s)'
                                \/ BecomesDirty(s)'
      BY <1>1 DEF FlashBehindInv, MdLanded, Bits
    <2>1. "DIRTY" \in flash_md[s].state => flash_md[s].dbn = dbn[s] /\ "DIRTY" \in Bits(s)
      BY <1>1 DEF DataInv, FlashBehindInv, MdLanded
    <2>2. "DIRTY" \in md_image'[s].state =>
            /\ md_image'[s].dbn = dbn[s]
            /\ \/ "DIRTY" \in Bits(s) /\ ~BecomesClean(s)'
               \/ BecomesDirty(s)'
      <3> DEFINE S == md_io \cup md_queue
      <3>1. md_image'[s] = MdRecord(s, S) BY <1>1
      <3>2. md_io' = S /\ job' = job /\ cache_state' = cache_state BY <1>1
      <3>3. MdRecord(s, S).dbn = dbn[s] BY DEF MdRecord
      <3>4. MdRecord(s, S).state =
              IF s \notin S THEN cache_state[s] \cap {"VALID", "INVALID", "DIRTY"}
              ELSE IF job[s].act = "WRITECACHE" THEN {"VALID", "DIRTY"}
              ELSE {"VALID"}
        BY DEF MdRecord
      <3> HIDE DEF S
      <3>5. CASE s \notin S
        <4>1. "DIRTY" \in MdRecord(s, S).state => "DIRTY" \in cache_state[s] BY <3>5, <3>4
        <4>2. ~BecomesClean(s)' BY <3>5, <3>2 DEF BecomesClean
        <4> QED BY <3>1, <3>3, <4>1, <4>2 DEF Bits
      <3>6. CASE s \in S
        <4>1. "DIRTY" \in MdRecord(s, S).state => job[s].act = "WRITECACHE"
          BY <3>6, <3>4
        <4>2. job[s].act = "WRITECACHE" => BecomesDirty(s)'
          BY <3>6, <3>2 DEF BecomesDirty
        <4> QED BY <3>1, <3>3, <4>1, <4>2
      <3> QED BY <3>5, <3>6
    <2> QED BY <2>1, <2>2
  <1> QED BY <1>1, <1>2, PipelineMoves

(* There is no page for the md block: nothing is written.                  *)
LEMMA MdKickoffFailsData ==
  ASSUME IInv, IInv', DataInv, MdKickoffFails PROVE DataInv'
  <1>1. /\ md_phase = "kickoff" /\ md_phase' = "done" /\ md_error' = TRUE /\ md_io' = md_io
        /\ UNCHANGED <<slotVars, devVars, bio, live, seen>>
    BY DEF MdKickoffFails
  <1>2. FlashBehindInv'
    BY <1>1 DEF DataInv, FlashBehindInv, MdLanded, BecomesDirty, Bits
  <1> QED BY <1>1, <1>2, PipelineMoves

LEMMA MdWriteDoneData ==
  ASSUME IInv, IInv', DataInv, MdWriteDone PROVE DataInv'
  <1>1. /\ md_phase = "done" /\ md_io = {} /\ md_phase' \in {"idle", "kickoff"}
        /\ UNCHANGED <<slotVars, devVars, bio, live, seen>>
    BY DEF MdWriteDone
  <1>2. FlashBehindInv'
    BY <1>1 DEF DataInv, FlashBehindInv, MdLanded, BecomesDirty, Bits
  <1> QED BY <1>1, <1>2, PipelineMoves

(* The image reaches the flash, or the write fails.                        *)
LEMMA MdWriteCallbackData ==
  ASSUME IInv, IInv', DataInv, MdWriteCallback PROVE DataInv'
  <1>1. /\ md_phase = "io" /\ md_phase' = "done"
        /\ NoMdWriteFault => flash_md' = md_image /\ ~md_error'
        /\ UNCHANGED <<slotVars, md_io, ssd, disk, bio, live, seen>>
    BY DEF MdWriteCallback, Outcome, MayFail, NoMdWriteFault
  <1>2. FlashBehindInv'
    BY <1>1 DEF DataInv, FlashBehindInv, MdLanded, BecomesDirty, BecomesClean, Bits
  <1> QED BY <1>1, <1>2, PipelineMoves

(* The update of one slot is over: what it was about.                      *)
LEMMA MdJobFacts ==
  ASSUME IInv, DataInv, NEW s \in Slots, MdJobDone(s)
  PROVE  /\ md_phase = "done" /\ s \in md_io /\ md_io' = md_io \ {s}
         /\ UNCHANGED <<dbn, hashed, pending, md_phase, md_error, devVars>>
         /\ job[s].phase = "md" /\ job[s].act \in {"WRITECACHE", "WRITEDISK"} /\ s \in hashed
         /\ CacheMode = "WRITE_BACK" /\ md_error \in BOOLEAN
         /\ dbn[s] \in Dbns /\ ssd[s] \in live[dbn[s]]
         /\ IF job[s].act = "WRITECACHE"
            THEN /\ job[s].bio \in Bios /\ bio[job[s].bio].st = "job"
                 /\ ActiveWrite(job[s].bio) /\ bio[job[s].bio].dbn = dbn[s]
                 /\ ssd[s] = job[s].bio
                 /\ EndIo(job[s].bio, md_error, job[s].bio)
            ELSE UNCHANGED <<bio, live, seen>>
  <1>1. /\ md_phase = "done" /\ s \in md_io /\ md_io' = md_io \ {s}
        /\ UNCHANGED <<dbn, hashed, pending, md_phase, md_error, devVars>>
        /\ IF job[s].act = "WRITECACHE" THEN EndIo(job[s].bio, md_error, job[s].bio)
           ELSE UNCHANGED <<bio, live, seen>>
    BY DEF MdJobDone
  <1>2. job[s].phase = "md" /\ s \in hashed /\ dbn[s] \in Dbns BY <1>1, BlockFacts
  <1>3. /\ job[s].act \in {"WRITECACHE", "WRITEDISK"} /\ CacheMode = "WRITE_BACK"
        /\ (job[s].bio = None) = (job[s].act = "WRITEDISK")
        /\ md_error \in BOOLEAN
    BY <1>2 DEF IInv, BlockInv, SlotInv, PhaseInv, MdTypeOK
  <1>4. Filled(s) BY <1>2 DEF Filled
  <1>5. /\ ssd[s] \in live[dbn[s]]
        /\ job[s].act = "WRITECACHE" => ssd[s] = job[s].bio
    BY <1>2, <1>4 DEF DataInv, SlotDataInv
  <1>6. ASSUME job[s].act = "WRITECACHE"
        PROVE  /\ job[s].bio \in Bios /\ bio[job[s].bio].st = "job"
               /\ ActiveWrite(job[s].bio) /\ bio[job[s].bio].dbn = dbn[s]
    <2>1. job[s].bio \in Bios /\ HasBio(s)
      BY <1>2, <1>3, <1>6 DEF HasBio, IInv, BlockInv, JobTypeOK, JobType
    <2> QED BY <1>6, <2>1 DEF DataInv, JobBioInv, ActiveWrite, Active
  <1> QED BY <1>1, <1>2, <1>3, <1>5, <1>6

(* What it does to the block, if the metadata was written, and if not.     *)
LEMMA MdJobEffect ==
  ASSUME IInv, DataInv, NEW s \in Slots, MdJobDone(s)
  PROVE  /\ job'[s].phase \in {"none", "pend"} /\ (job'[s].phase = "pend" => job'[s].err = md_error)
         /\ "DIRTY" \in cache_state'[s] <=>
              IF md_error THEN "DIRTY" \in cache_state[s] ELSE job[s].act = "WRITECACHE"
         /\ \A t \in Slots \ {s} : job'[t] = job[t] /\ cache_state'[t] = cache_state[t]
  <1>1. job[s].act \in {"WRITECACHE", "WRITEDISK"} /\ md_error \in BOOLEAN BY MdJobFacts
  <1>2. job' \in {[job EXCEPT ![s].phase = "pend", ![s].err = md_error], [job EXCEPT ![s] = NoJob]}
    BY DEF MdJobDone
  <1>3. \E bits \in {cache_state[s], cache_state[s] \cup {"DIRTY"}, cache_state[s] \ {"DIRTY"}} :
          /\ "DIRTY" \in bits <=>
               IF md_error THEN "DIRTY" \in cache_state[s] ELSE job[s].act = "WRITECACHE"
          /\ cache_state' \in {[cache_state EXCEPT ![s] = bits],
                               [cache_state EXCEPT ![s] = bits \ BlockIoInprog]}
    BY <1>1 DEF MdJobDone
  <1>4. /\ job'[s].phase \in {"none", "pend"} /\ (job'[s].phase = "pend" => job'[s].err = md_error)
        /\ \A t \in Slots \ {s} : job'[t] = job[t]
    BY <1>1, <1>2 DEF IInv, BlockInv, JobTypeOK, JobType, NoJob
  <1>5. /\ "DIRTY" \in cache_state'[s] <=>
              IF md_error THEN "DIRTY" \in cache_state[s] ELSE job[s].act = "WRITECACHE"
        /\ \A t \in Slots \ {s} : cache_state'[t] = cache_state[t]
    BY <1>3 DEF IInv, BlockInv, SlotTypeOK, BlockIoInprog
  <1> QED BY <1>4, <1>5

LEMMA MdJobFlashBehind ==
  ASSUME IInv, DataInv, NEW s \in Slots, MdJobDone(s) PROVE FlashBehindInv'
  <1>1. /\ md_phase = "done" /\ s \in md_io /\ md_io' = md_io \ {s} /\ md_error \in BOOLEAN
        /\ UNCHANGED <<dbn, md_phase, md_error, devVars>>
        /\ job[s].act \in {"WRITECACHE", "WRITEDISK"}
    BY MdJobFacts
  <1>2. /\ "DIRTY" \in cache_state'[s] <=>
              IF md_error THEN "DIRTY" \in cache_state[s] ELSE job[s].act = "WRITECACHE"
        /\ \A t \in Slots \ {s} : job'[t] = job[t] /\ cache_state'[t] = cache_state[t]
    BY MdJobEffect
  <1> SUFFICES ASSUME NoMdWriteFault, NEW t \in Slots, "DIRTY" \in flash_md[t].state
               PROVE  /\ flash_md[t].dbn = dbn[t]
                      /\ \/ "DIRTY" \in cache_state'[t] /\ ~(BecomesClean(t)' /\ ~md_error)
                         \/ BecomesDirty(t)' /\ ~md_error
    BY <1>1 DEF FlashBehindInv, MdLanded, Bits
  <1>3. /\ flash_md[t].dbn = dbn[t]
        /\ \/ "DIRTY" \in cache_state[t] /\ ~(BecomesClean(t) /\ ~md_error)
           \/ BecomesDirty(t) /\ ~md_error
    BY <1>1 DEF DataInv, FlashBehindInv, MdLanded, Bits
  <1>4. CASE t = s BY <1>1, <1>2, <1>3, <1>4 DEF BecomesClean, BecomesDirty
  <1>5. CASE t # s BY <1>1, <1>2, <1>3, <1>5 DEF BecomesClean, BecomesDirty
  <1> QED BY <1>4, <1>5

(* The bio and the slot, whatever the outcome.                             *)
LEMMA MdJobDoneData ==
  ASSUME IInv, IInv', DataInv, NEW s \in Slots, MdJobDone(s) PROVE DataInv'
  <1> DEFINE b == job[s].bio
  <1>1. /\ UNCHANGED <<dbn, hashed, pending, devVars>>
        /\ job[s].phase = "md" /\ job[s].act \in {"WRITECACHE", "WRITEDISK"} /\ s \in hashed
        /\ CacheMode = "WRITE_BACK" /\ md_error \in BOOLEAN
        /\ dbn[s] \in Dbns /\ ssd[s] \in live[dbn[s]]
        /\ IF job[s].act = "WRITECACHE"
           THEN /\ b \in Bios /\ bio[b].st = "job" /\ ActiveWrite(b) /\ bio[b].dbn = dbn[s]
                /\ ssd[s] = b /\ EndIo(b, md_error, b)
           ELSE UNCHANGED <<bio, live, seen>>
    BY MdJobFacts
  <1>2. /\ job'[s].phase \in {"none", "pend"} /\ (job'[s].phase = "pend" => job'[s].err = md_error)
        /\ "DIRTY" \in cache_state'[s] <=>
             IF md_error THEN "DIRTY" \in cache_state[s] ELSE job[s].act = "WRITECACHE"
        /\ \A t \in Slots \ {s} : job'[t] = job[t] /\ cache_state'[t] = cache_state[t]
    BY MdJobEffect
  <1>3. \A t \in Slots \ {s} : Untouched(t) BY <1>1, <1>2 DEF Untouched
  <1>4. DiskStep BY <1>1 DEF DiskStep
  <1>5. FlashBehindInv' BY MdJobFlashBehind
  <1>6. /\ GhostInv' /\ seen' = seen
        /\ \A c \in Bios : /\ bio'[c].dbn = bio[c].dbn /\ bio'[c].dir = bio[c].dir
                           /\ bio'[c].st \in {"disk", "disk_done"} => bio'[c] = bio[c]
                           /\ bio[c].st = "job" /\ c # b => bio'[c] = bio[c]
    <2>1. CASE job[s].act = "WRITECACHE"
      <3>1. GhostInv' BY <1>1, <2>1, GhostEnds DEF ActiveWrite, DataInv, IInv, Values
      <3>2. /\ bio'[b].st \in {"ok", "eio"} /\ seen' = seen
            /\ bio'[b].dbn = bio[b].dbn /\ bio'[b].dir = bio[b].dir
            /\ \A c \in Bios \ {b} : bio'[c] = bio[c]
        BY <1>1, <2>1 DEF EndIo, IInv, RequestInv, BioTypeOK, BioType
      <3> QED BY <3>1, <3>2
    <2>2. CASE job[s].act # "WRITECACHE"
      BY <1>1, <2>2, GhostStays DEF DataInv, Active
    <2> QED BY <2>1, <2>2
  <1>7. /\ \A d \in Dbns : d # dbn[s] => live'[d] = live[d]
        /\ md_error \/ job[s].act # "WRITECACHE" => live' = live
        /\ ~md_error /\ job[s].act = "WRITECACHE" => b \in live'[dbn[s]]
    <2>1. CASE job[s].act = "WRITECACHE"
      BY <1>1, <2>1, WriteEnds DEF EndIo, IInv, RequestInv, GhostTypeOK
    <2>2. CASE job[s].act # "WRITECACHE" BY <1>1, <2>2
    <2> QED BY <2>1, <2>2
  <1>8. OneSlotStep(s) BY <1>3, <1>6 DEF OneSlotStep
  <1>9. DirtStep
    <2> SUFFICES ASSUME NEW t \in Slots, "DIRTY" \in cache_state'[t]
                 PROVE  Fresh(ssd'[t], dbn'[t])
      BY DEF DirtStep
    <2>1. CASE "DIRTY" \in cache_state[t] BY <1>1, <2>1, DirtyIsFresh
    <2>2. CASE "DIRTY" \notin cache_state[t]
      <3>1. t = s /\ job[s].act = "WRITECACHE" BY <1>2, <2>2
      <3> QED BY <1>1, <3>1, WriteIsFresh DEF DataInv
    <2> QED BY <2>1, <2>2
  <1>10. ssd[s] \in live'[dbn[s]] BY <1>1, <1>7
  <1>11. DiskLive'
    <2> SUFFICES ASSUME NEW d \in Dbns, NoneDirty(d)' PROVE disk[d] \in live'[d]
      BY <1>1 DEF DiskLive
    <2>1. CASE NoneDirty(d)
      <3>1. disk[d] \in live[d] BY <2>1 DEF DataInv, DiskLive
      <3>2. d = dbn[s] => md_error \/ job[s].act # "WRITECACHE"
        BY <1>1, <1>2 DEF NoneDirty, Bits
      <3> QED BY <1>7, <3>1, <3>2
    <2>2. CASE ~NoneDirty(d)
      <3>1. "DIRTY" \in cache_state[s] /\ dbn[s] = d /\ "DIRTY" \notin cache_state'[s]
        BY <1>1, <1>2, <2>2 DEF NoneDirty, Bits
      <3>2. ~md_error /\ job[s].act = "WRITEDISK" BY <1>1, <1>2, <3>1
      <3> QED BY <1>1, <1>7, <3>1, <3>2 DEF DataInv, SlotDataInv
    <2> QED BY <2>1, <2>2
  <1>12. \A c \in pending[s] : bio'[c].dbn = dbn[s]
    BY <1>6 DEF DataInv, JobBioInv, IInv, BlockInv, SlotTypeOK
  <1>13. JobBioInv(s)' BY <1>1, <1>2, <1>12 DEF JobBioInv, HasBio
  <1>14. SlotDataInv(s)' BY <1>1, <1>2, <1>10 DEF SlotDataInv
  <1>15. \A t \in Slots : JobBioInv(t)' /\ SlotDataInv(t)'
    BY <1>1, <1>4, <1>7, <1>8, <1>13, <1>14, OtherSlots
  <1>16. ASSUME NEW c \in Bios PROVE DirectKept(c)
    BY <1>2, <1>6, <1>8, NotSentKept
  <1> QED BY <1>4, <1>5, <1>6, <1>9, <1>11, <1>15, <1>16, DataFollows

-----------------------------------------------------------------------------
(* A crash                                                                 *)

(* What a reload would find is live: what is dirty on flash is dirty in    *)
(* memory or about to be, and what is not on flash is on the disk.         *)
LEMMA DurableFollows ==
  ASSUME NoMdWriteFault, IInv, MdCurrentInv, DataInv PROVE Durable
  <1> SUFFICES ASSUME NEW d \in Dbns PROVE Recovered(d) \subseteq live[d]
    BY DEF Durable
  <1>1. ASSUME NEW s \in DirtyOnFlash(d) PROVE ssd[s] \in live[d]
    <2>1. s \in Slots /\ "DIRTY" \in flash_md[s].state /\ flash_md[s].dbn = d
      BY DEF DirtyOnFlash
    <2>2. dbn[s] = d /\ ("DIRTY" \in Bits(s) \/ s \in md_io)
      BY <2>1 DEF DataInv, FlashBehindInv, BecomesDirty
    <2>3. s \in hashed /\ Filled(s) BY <2>1, <2>2, BlockFacts DEF Filled, Bits
    <2> QED BY <2>1, <2>2, <2>3 DEF DataInv, SlotDataInv
  <1>2. CASE DirtyOnFlash(d) # {} BY <1>1, <1>2 DEF Recovered
  <1>3. CASE DirtyOnFlash(d) = {}
    <2>1. CASE NoneDirty(d) BY <1>3, <2>1 DEF DataInv, DiskLive, Recovered
    <2>2. CASE ~NoneDirty(d)
      <3>1. PICK s \in Slots : dbn[s] = d /\ "DIRTY" \in Bits(s) BY <2>2 DEF NoneDirty
      <3>2. flash_md[s] # DirtyRecord(s)
        BY <1>3, <3>1 DEF DirtyOnFlash, DirtyRecord, DirtyBits
      <3>3. CleanLanded(s) BY <3>1, <3>2 DEF MdCurrentInv
      <3>4. job[s].phase = "md" /\ job[s].act = "WRITEDISK"
        BY <3>3, BlockFacts DEF CleanLanded
      <3>5. disk[d] \in live[d] BY <3>1, <3>4 DEF DataInv, SlotDataInv
      <3> QED BY <1>3, <3>5 DEF Recovered
    <2> QED BY <2>1, <2>2
  <1> QED BY <1>2, <1>3

LEMMA CrashDurable ==
  ASSUME NoMdWriteFault, IInv, MdCurrentInv, DataInv, Crash PROVE Durable'
  <1>1. flash_md' = flash_md /\ \A d \in Dbns : live'[d] = live[d] \cap Recovered(d)'
    BY DEF Crash
  <1>2. ASSUME NEW s \in Slots, InIo(s, "WRITECACHE") PROVE job[s].bio \in live[dbn[s]]
    BY <1>2, JobFacts DEF InIo, DataInv, GhostInv, WritesAreLive, ActiveWrite
  <1>3. ASSUME NEW d \in Dbns PROVE Recovered(d)' \subseteq live[d]
    <2>1. DirtyOnFlash(d)' = DirtyOnFlash(d) BY <1>1 DEF DirtyOnFlash
    <2>2. Recovered(d) \subseteq live[d] BY DurableFollows DEF Durable
    <2>3. ASSUME NEW s \in DirtyOnFlash(d) PROVE ssd'[s] \in live[d]
      <3>1. s \in Slots /\ dbn[s] = d BY DEF DirtyOnFlash, DataInv, FlashBehindInv
      <3>2. ssd[s] \in live[d] BY <2>2 DEF Recovered
      <3>3. ssd'[s] = ssd[s] \/ (InIo(s, "WRITECACHE") /\ ssd'[s] = job[s].bio)
        BY <3>1 DEF Crash
      <3> QED BY <1>2, <3>1, <3>2, <3>3
    <2>4. ASSUME DirtyOnFlash(d) = {} PROVE disk'[d] \in live[d]
      <3>1. disk[d] \in live[d] BY <2>2, <2>4 DEF Recovered
      <3>2. PICK L \in SUBSET {s \in Slots : InIo(s, "WRITECACHE") /\ CacheMode = "WRITE_THROUGH"} :
              disk' = [e \in Dbns |-> IF \E s \in L : dbn[s] = e
                                      THEN job[CHOOSE s \in L : dbn[s] = e].bio ELSE disk[e]]
        BY DEF Crash
      <3>3. CASE \E s \in L : dbn[s] = d
        <4>1. PICK s \in L : s = (CHOOSE r \in L : dbn[r] = d) /\ dbn[s] = d BY <3>3
        <4>2. disk'[d] = job[s].bio BY <3>2, <3>3, <4>1
        <4> QED BY <1>2, <4>1, <4>2
      <3>4. CASE ~\E s \in L : dbn[s] = d
        <4>1. disk'[d] = disk[d] BY <3>2, <3>4
        <4> QED BY <3>1, <4>1
      <3> QED BY <3>3, <3>4
    <2> QED BY <2>1, <2>3, <2>4 DEF Recovered
  <1> QED BY <1>1, <1>3 DEF Durable

LEMMA CrashData ==
  ASSUME NoMdWriteFault, IInv, IInv', MdCurrentInv, DataInv, Crash PROVE DataInv'
  <1> DEFINE reload == IF CacheMode = "WRITE_BACK"
                       THEN {s \in Slots : "DIRTY" \in flash_md[s].state} ELSE {}
  <1>1. /\ \A s \in reload : cache_state'[s] = flash_md[s].state /\ dbn'[s] = flash_md[s].dbn
        /\ hashed' = reload
        /\ md_phase' = "idle" /\ md_io' = {}
        /\ UNCHANGED <<flash_md, seen>>
        /\ \A s \in Slots : job'[s] = NoJob /\ pending'[s] = {}
        /\ \A d \in Dbns : live'[d] = live[d] \cap Recovered(d)'
    BY DEF Crash
  <1>2. \A b \in Bios : /\ bio'[b].st \in {"new", "ok", "eio", "lost"}
                        /\ bio'[b].st # "lost" => bio'[b] = bio[b]
    <2>1. bio' = SetStatus({b \in Bios : Active(b)}, "lost") BY DEF Crash
    <2> QED BY <2>1 DEF SetStatus, Active, IInv, RequestInv, BioTypeOK, BioType, BioStatus
  <1>3. \A s \in Slots : "DIRTY" \in flash_md[s].state =>
          s \in reload /\ flash_md[s].dbn = dbn[s] /\ dbn[s] \in Dbns
    BY DEF IInv, DeviceInv, DirtyRecordsInv, DataInv, FlashBehindInv
  <1>4. Durable' BY CrashDurable
  <1>5. GhostInv'
    <2>1. \A b \in Bios : ~Active(b)' BY <1>2 DEF Active
    <2>2. NewIsNotLive' BY <1>1, <1>2 DEF DataInv, GhostInv, NewIsNotLive
    <2>3. ReadsCurrent' BY <1>1, <1>2 DEF DataInv, GhostInv, ReadsCurrent, IsWrite
    <2>4. WritesAreLive' /\ NotSuperseded' /\ ReadsMayReturn'
      BY <2>1 DEF WritesAreLive, NotSuperseded, ReadsMayReturn, ActiveWrite, ActiveRead
    <2> QED BY <2>2, <2>3, <2>4 DEF GhostInv
  <1>6. FlashBehindInv'
    BY <1>1, <1>3 DEF FlashBehindInv, BecomesClean, Bits
  <1>7. DiskLive'
    <2> SUFFICES ASSUME NEW d \in Dbns, NoneDirty(d)' PROVE disk'[d] \in live'[d]
      BY DEF DiskLive
    <2>1. ASSUME NEW s \in DirtyOnFlash(d)' PROVE FALSE
      <3>1. s \in Slots /\ "DIRTY" \in flash_md[s].state /\ flash_md[s].dbn = d
        BY <1>1 DEF DirtyOnFlash
      <3>2. "DIRTY" \in cache_state'[s] /\ dbn'[s] = d BY <1>1, <1>3, <3>1
      <3> QED BY <3>1, <3>2 DEF NoneDirty, Bits
    <2>2. Recovered(d)' = {disk'[d]} BY <2>1 DEF Recovered
    <2> QED BY <1>4, <2>2 DEF Durable
  <1>8. ASSUME NEW s \in Slots PROVE JobBioInv(s)' /\ SlotDataInv(s)'
    <2>1. ASSUME s \in hashed' PROVE ssd'[s] \in live'[dbn'[s]]
      <3>1. PICK d \in Dbns : d = flash_md[s].dbn
        BY <1>1, <1>3, <2>1
      <3>2. s \in DirtyOnFlash(d)' /\ dbn'[s] = d
        BY <1>1, <2>1, <3>1 DEF DirtyOnFlash
      <3>3. ssd'[s] \in Recovered(d)' BY <3>2 DEF Recovered
      <3> QED BY <1>4, <3>2, <3>3 DEF Durable
    <2> QED BY <1>1, <2>1, LeftIdle
  <1>9. \A b \in Bios : DirectInv(b)'
    BY <1>1, <1>2 DEF DirectInv, Direct, AtDisk, Draining, NoJob
  <1> QED BY <1>5, <1>6, <1>7, <1>8, <1>9 DEF DataInv

-----------------------------------------------------------------------------
(* The invariant, and what follows from it                                 *)

LEMMA InitData == Init => DataInv
  <1> SUFFICES ASSUME Init PROVE DataInv
    OBVIOUS
  <1>1. /\ \A b \in Bios : bio[b] = NewBio /\ seen[b] = {}
        /\ \A d \in Dbns : live[d] = {d} /\ disk[d] = d
        /\ \A s \in Slots : /\ job[s] = NoJob /\ pending[s] = {}
                            /\ "DIRTY" \notin flash_md[s].state
        /\ hashed = {} /\ md_phase = "idle"
    BY DEF Init, BlankMd
  <1>2. \A b \in Bios : ~Active(b) /\ bio[b].st = "new"
    BY <1>1 DEF Active, NewBio
  <1>3. GhostInv
    <2>1. NewIsNotLive BY <1>1, FlashcacheAssumption DEF NewIsNotLive
    <2>2. WritesAreLive /\ NotSuperseded /\ ReadsMayReturn
      BY <1>2 DEF WritesAreLive, NotSuperseded, ReadsMayReturn, ActiveWrite, ActiveRead
    <2>3. ReadsCurrent BY <1>2 DEF ReadsCurrent
    <2> QED BY <2>1, <2>2, <2>3 DEF GhostInv
  <1>4. FlashBehindInv BY <1>1 DEF FlashBehindInv
  <1>5. DiskLive BY <1>1 DEF DiskLive
  <1>6. \A s \in Slots : JobBioInv(s) /\ SlotDataInv(s)
    BY <1>1 DEF JobBioInv, SlotDataInv, HasBio, NoJob
  <1>7. \A b \in Bios : DirectInv(b)
    BY <1>1, <1>2 DEF DirectInv, Direct, AtDisk, Draining, NoJob
  <1> QED BY <1>3, <1>4, <1>5, <1>6, <1>7 DEF DataInv

LEMMA SlotStepsData ==
  ASSUME IInv, IInv', DataInv, NEW s \in Slots, SlotStep(s) PROVE DataInv'
  <1>1. CASE \E b \in Bios : DrainPending(s, b) \/ DrainPendingConflict(s, b)
                             \/ DrainPendingFails(s, b)
    BY <1>1, DrainPendingData, BioWaitsData, BioFailsData
  <1>2. CASE StartJob(s) \/ DirtyWriteback(s) \/ StartJobFails(s) \/ DirtyWritebackFails(s)
    BY <1>2, StartData, StartFailsData
  <1>3. CASE \/ ReadDiskDone(s) \/ ReadFillDone(s) \/ ReadCacheDone(s)
             \/ WriteCacheDone(s) \/ WriteThroughDone(s) \/ KcopydDone(s)
    BY <1>3, ReadDiskDoneData, ReadFillDoneData, ReadCacheDoneData,
       WriteCacheDoneData, WriteThroughDoneData, KcopydDoneData
  <1>4. CASE \/ DoPendingError(s) \/ DoPendingErrorRetry(s)
             \/ DoPendingDirty(s) \/ DoPendingClean(s) \/ DrainDone(s)
    BY <1>4, PendingErrorData, PendingRetryData, PendingDirtyData, PendingCleanData
  <1> QED BY <1>1, <1>2, <1>3, <1>4 DEF SlotStep

(* Only a crash counts as one.                                             *)
LEMMA CrashesCount ==
  IInv /\ [Next]_vars =>
    /\ crashes' = crashes \/ Crash
    /\ crashes' = 0 => crashes = 0 /\ ~Crash
  <1> SUFFICES ASSUME IInv, [Next]_vars
               PROVE  (crashes' = crashes \/ Crash) /\ (crashes' = 0 => crashes = 0 /\ ~Crash)
    OBVIOUS
  <1>1. ASSUME NEW b \in Bios, BioArrives(b) \/ UncachedStep(b) PROVE crashes' = crashes
    BY <1>1 DEF BioArrives, MapUncached, MapUncachedConflict, MapFails, MapHit, MapHitBusy,
                MapMiss, UncachedStep, UncachedIoDone, UncachedIoComplete,
                UncachedIoRequeue, UncachedIoCompleteFails
  <1>2. ASSUME NEW s \in Slots, SlotStep(s) PROVE crashes' = crashes
    BY <1>2 DEF SlotStep, StartJob, StartJobFails, ReadDiskDone, ReadFillDone, ReadCacheDone,
                WriteCacheDone, WriteThroughDone, DirtyWriteback, DirtyWritebackFails,
                KcopydDone, DoPendingError, DoPendingErrorRetry, DoPendingDirty,
                DoPendingClean, DrainPending, DrainPendingConflict, DrainPendingFails, DrainDone
  <1>3. ASSUME NEW S \in SUBSET Slots, CleanSet(S) PROVE crashes' = crashes
    BY <1>3 DEF CleanSet
  <1>4. ASSUME MdStep PROVE crashes' = crashes
    BY <1>4 DEF MdStep, MdKickoff, MdKickoffFails, MdWriteCallback, MdJobDone, MdWriteDone
  <1>5. ASSUME UNCHANGED vars PROVE crashes' = crashes BY <1>5 DEF vars
  <1>6. Crash => crashes' # 0 BY DEF Crash, IInv
  <1> QED BY <1>1, <1>2, <1>3, <1>4, <1>5, <1>6 DEF Next

LEMMA NextData ==
  /\ IInv /\ (NoMdWriteFault => MdCurrentInv) /\ (MdReliable => DataInv) /\ [Next]_vars
  => (MdReliable => DataInv)'
  <1> SUFFICES ASSUME IInv, NoMdWriteFault => MdCurrentInv, MdReliable => DataInv, [Next]_vars,
                      MdReliable'
               PROVE  DataInv'
    OBVIOUS
  <1>0. IInv' BY NextIInv
  <1>1. MdReliable /\ (Crash => NoMdWriteFault) BY CrashesCount DEF MdReliable
  <1>2. DataInv BY <1>1
  <1>3. ASSUME NEW b \in Bios, BioArrives(b) PROVE DataInv'
    BY <1>0, <1>2, <1>3, BioArrivesData
  <1>4. ASSUME NEW b \in Bios, UncachedStep(b) PROVE DataInv'
    BY <1>0, <1>2, <1>4, UncachedIoDoneData, UncachedIoCompleteData, BioWaitsData, BioFailsData
    DEF UncachedStep
  <1>5. ASSUME NEW s \in Slots, SlotStep(s) PROVE DataInv'
    BY <1>0, <1>2, <1>5, SlotStepsData
  <1>6. ASSUME NEW S \in SUBSET Slots, CleanSet(S) PROVE DataInv'
    BY <1>0, <1>2, <1>6, CleanSetData
  <1>7. ASSUME MdStep PROVE DataInv'
    BY <1>0, <1>2, <1>7, MdKickoffData, MdKickoffFailsData, MdWriteCallbackData,
       MdWriteDoneData, MdJobDoneData DEF MdStep
  <1>8. ASSUME Crash PROVE DataInv'
    BY <1>0, <1>1, <1>2, <1>8, CrashData
  <1>9. ASSUME UNCHANGED vars PROVE DataInv'
    <2>1. UNCHANGED <<slotVars, mdVars, devVars, bio, live, seen>> BY <1>9 DEF vars
    <2>2. FlashBehindInv'
      BY <1>2, <2>1 DEF DataInv, FlashBehindInv, MdLanded, BecomesDirty, BecomesClean, Bits
    <2> QED BY <1>0, <1>2, <2>1, <2>2, PipelineMoves
  <1> QED BY <1>3, <1>4, <1>5, <1>6, <1>7, <1>8, <1>9 DEF Next

LEMMA MdCurrentIfReliable == Spec => [](NoMdWriteFault => MdCurrentInv)
  <1>1. CASE NoMdWriteFault BY <1>1, MdStaysCurrent, PTL
  <1>2. CASE ~NoMdWriteFault
    <2>1. NoMdWriteFault => MdCurrentInv BY <1>2
    <2> QED BY <2>1, PTL
  <1> QED BY <1>1, <1>2

(* Whatever a slot, the flash or the disk will be asked for is data of the *)
(* disk block that is still current for whoever asks, in every state: the  *)
(* invariant holds through every interleaving and failure until the first  *)
(* crash, and through every crash too if no metadata write fails.          *)
THEOREM DataStaysCurrent == Spec => [](MdReliable => DataInv)
  <1>1. Init => (MdReliable => DataInv) BY InitData
  <1>2. /\ IInv /\ (NoMdWriteFault => MdCurrentInv) /\ (MdReliable => DataInv) /\ [Next]_vars
        => (MdReliable => DataInv)'
    BY NextData
  <1> QED BY <1>1, <1>2, Inductive, MdCurrentIfReliable, PTL DEF Spec

(* As long as no metadata write fails, a crash at any moment leaves every  *)
(* acknowledged write where the reload finds it.                           *)
THEOREM AcknowledgedSurvives == NoMdWriteFault /\ Spec => []Durable
  <1> SUFFICES ASSUME NoMdWriteFault PROVE Spec => []Durable
    OBVIOUS
  <1>1. IInv /\ MdCurrentInv /\ (MdReliable => DataInv) => Durable
    BY DurableFollows DEF MdReliable
  <1> QED BY <1>1, Inductive, MdStaysCurrent, DataStaysCurrent, PTL

(* No read returns superseded data, whichever of the cache, the disk or a  *)
(* replay served it and whatever failed: until the first crash, and after  *)
(* crashes too if no metadata write fails.                                 *)
THEOREM ReadsStayCurrent == Spec => []ReadsCurrentIfReliable
  <1>1. (MdReliable => DataInv) => ReadsCurrentIfReliable
    BY DEF DataInv, GhostInv, ReadsCurrentIfReliable
  <1> QED BY <1>1, DataStaysCurrent, PTL

(* As long as no metadata write fails, no read returns superseded data,    *)
(* however often the machine crashes.                                      *)
COROLLARY ReadsAreCurrent == NoMdWriteFault /\ Spec => []ReadsCurrent
  <1> SUFFICES ASSUME NoMdWriteFault PROVE Spec => []ReadsCurrent
    OBVIOUS
  <1>1. ReadsCurrentIfReliable => ReadsCurrent
    BY DEF ReadsCurrentIfReliable, MdReliable
  <1> QED BY <1>1, ReadsStayCurrent, PTL

-----------------------------------------------------------------------------
(* What the file system sees of a step                                     *)

(* The step does not show on request b.                                    *)
Hidden(b) ==
  /\ bio'[b].dir = bio[b].dir /\ bio'[b].dbn = bio[b].dbn
  /\ Active(b)' = Active(b)
  /\ ~Active(b) => bio'[b] = bio[b]

LEMMA ReqFields ==
  ASSUME NEW b \in Bios
  PROVE  /\ AbstractReq[b].st = (IF Active(b) THEN "out" ELSE bio[b].st)
         /\ AbstractReq[b].dir = bio[b].dir /\ AbstractReq[b].dbn = bio[b].dbn
         /\ Device!Out(b) <=> (Active(b) \/ bio[b].st = "out")
         /\ Device!IsWriteReq(b) <=> IsWrite(b)
  BY DEF AbstractReq, Device!Out, Device!IsWriteReq, IsWrite

LEMMA OutIsActive ==
  ASSUME RequestInv, NEW b \in Bios PROVE Device!Out(b) <=> Active(b)
  BY ReqFields DEF RequestInv, BioTypeOK, BioType, BioStatus

LEMMA HiddenReq ==
  ASSUME NEW b \in Bios, Hidden(b) PROVE AbstractReq'[b] = AbstractReq[b]
  <1>1. CASE Active(b)
    <2>1. bio[b].st # "ok" /\ bio'[b].st # "ok" BY <1>1 DEF Hidden, Active
    <2> QED BY <1>1, <2>1 DEF AbstractReq, Hidden
  <1>2. CASE ~Active(b)
    BY <1>2 DEF AbstractReq, Hidden, IsWrite
  <1> QED BY <1>1, <1>2

LEMMA HiddenStep ==
  ASSUME \A b \in Bios : Hidden(b), UNCHANGED <<live, seen>>
  PROVE  UNCHANGED Device!bdVars
  <1>1. \A b \in Bios : AbstractReq'[b] = AbstractReq[b] BY HiddenReq
  <1>2. AbstractReq' = AbstractReq BY <1>1 DEF AbstractReq
  <1> QED BY <1>2 DEF Device!bdVars

Refines == [Device!Next]_(Device!bdVars)

(* A bio arrives: the request is submitted, or refused at once.            *)
LEMMA ArriveRefines ==
  ASSUME RequestInv, NEW b \in Bios, NEW d \in Dbns, NEW dir \in {"READ", "WRITE"},
         NEW st \in {"disk", "eio", "queued", "queued_inval", "job"},
         Arrive(b, d, dir, st)
  PROVE  Refines
  <1> DEFINE to == IF st = "eio" THEN "eio" ELSE "out"
  <1>1. /\ bio[b].st = "new" /\ bio'[b].st = st /\ bio'[b].dir = dir /\ bio'[b].dbn = d
        /\ \A c \in Bios : c # b => bio'[c] = bio[c]
    BY DEF Arrive, RequestInv, BioTypeOK, BioType
  <1>2. ~Active(b) /\ AbstractReq[b].st = "new" BY <1>1, ReqFields DEF Active
  <1>3. AbstractReq'[b] = [st |-> to, dir |-> dir, dbn |-> d, val |-> None]
    BY <1>1 DEF AbstractReq, Active
  <1>4. ASSUME NEW c \in Bios, c # b PROVE AbstractReq'[c] = AbstractReq[c]
    BY <1>1, <1>4, HiddenReq DEF Hidden, Active
  <1>5. AbstractReq' = [AbstractReq EXCEPT ![b] =
                          [st |-> to, dir |-> dir, dbn |-> d, val |-> None]]
    BY <1>3, <1>4 DEF AbstractReq
  <1>6. \A c \in Bios : (Device!Out(c) <=> Active(c)) /\ (Device!IsWriteReq(c) <=> IsWrite(c))
    BY OutIsActive, ReqFields
  <1>7. \A c \in Bios : AbstractReq[c].dbn = bio[c].dbn BY ReqFields
  <1>8. CASE dir = "READ"
    <2>1. /\ seen' = [c \in Bios |-> IF c = b THEN live[d] ELSE seen[c]]
          /\ live' = live
      BY <1>8 DEF Arrive
    <2>2. seen' = [seen EXCEPT ![b] = live[d]]
      BY <2>1 DEF RequestInv, GhostTypeOK
    <2>3. Device!Submit(b, d, dir, to) BY <1>2, <1>5, <1>8, <2>1, <2>2 DEF Device!Submit
    <2> QED BY <2>3 DEF Refines, Device!Next
  <1>9. CASE dir = "WRITE"
    <2>1. live' = [live EXCEPT ![d] = @ \cup {b}] BY <1>9 DEF Arrive
    <2>2. {w \in Bios : Active(w) /\ IsWrite(w)}
            = {w \in Bios : Device!Out(w) /\ Device!IsWriteReq(w)}
      BY <1>6
    <2>3. seen' = [c \in Bios |->
             IF c = b THEN live[d] \ {w \in Bios : Active(w) /\ IsWrite(w)}
             ELSE IF Active(c) /\ ~IsWrite(c) /\ bio[c].dbn = d
                  THEN seen[c] \cup {b} ELSE seen[c]]
      BY <1>9 DEF Arrive
    <2>4. seen' = [c \in Bios |->
             IF c = b THEN live[d] \ {w \in Bios : Device!Out(w) /\ Device!IsWriteReq(w)}
             ELSE IF Device!Out(c) /\ ~Device!IsWriteReq(c) /\ AbstractReq[c].dbn = d
                  THEN seen[c] \cup {b} ELSE seen[c]]
      BY <1>6, <1>7, <2>2, <2>3
    <2>5. Device!Submit(b, d, dir, to) BY <1>2, <1>5, <1>9, <2>1, <2>4 DEF Device!Submit
    <2> QED BY <2>5 DEF Refines, Device!Next
  <1> QED BY <1>8, <1>9

(* Requests that are out fail together; none may.                          *)
LEMMA FailRefines ==
  ASSUME RequestInv, NEW B \in SUBSET Bios, UNCHANGED <<live, seen>>,
         \A b \in B : Active(b) /\ bio'[b] = [bio[b] EXCEPT !.st = "eio"],
         \A b \in Bios \ B : Hidden(b)
  PROVE  Refines
  <1>1. CASE B = {} BY <1>1, HiddenStep DEF Refines
  <1>2. CASE B # {}
    <2>1. ASSUME NEW b \in B
          PROVE  AbstractReq'[b] = [AbstractReq[b] EXCEPT !.st = "eio"]
      <3>1. /\ bio'[b].st = "eio" /\ bio'[b].dir = bio[b].dir /\ bio'[b].dbn = bio[b].dbn
            /\ Active(b) /\ bio[b].st # "ok"
        <4>1. bio[b] \in BioType
          BY DEF RequestInv, BioTypeOK
        <4>2. bio'[b] = [bio[b] EXCEPT !.st = "eio"] /\ Active(b)
          OBVIOUS
        <4> QED BY <4>1, <4>2 DEF BioType, Active
      <3>2. AbstractReq[b] = [st |-> "out", dir |-> bio[b].dir, dbn |-> bio[b].dbn, val |-> None]
        BY <3>1 DEF AbstractReq
      <3>3. AbstractReq'[b] = [st |-> "eio", dir |-> bio[b].dir, dbn |-> bio[b].dbn, val |-> None]
        BY <3>1 DEF AbstractReq, Active
      <3> QED BY <3>2, <3>3
    <2>2. \A b \in Bios \ B : AbstractReq'[b] = AbstractReq[b] BY HiddenReq
    <2>3. AbstractReq' = [b \in Bios |-> IF b \in B THEN [AbstractReq[b] EXCEPT !.st = "eio"]
                                                    ELSE AbstractReq[b]]
      BY <2>1, <2>2 DEF AbstractReq
    <2>4. \A b \in B : Device!Out(b) BY ReqFields
    <2>5. Device!Fail(B) BY <1>2, <2>3, <2>4 DEF Device!Fail
    <2> QED BY <2>5 DEF Refines, Device!Next
  <1> QED BY <1>1, <1>2

(* A request ends.                                                         *)
LEMMA EndIoRefines ==
  ASSUME RequestInv, GhostInv', NEW b \in Bios, Active(b), NEW error \in BOOLEAN,
         NEW v \in Values \cup {None}, EndIo(b, error, v)
  PROVE  Refines
  <1>1. /\ bio'[b].st = (IF error THEN "eio" ELSE "ok") /\ bio'[b].val = v
        /\ bio'[b].dir = bio[b].dir /\ bio'[b].dbn = bio[b].dbn
        /\ \A c \in Bios : c # b => bio'[c] = bio[c]
        /\ seen' = seen /\ bio[b].dbn \in Dbns
    BY DEF EndIo, RequestInv, BioTypeOK, BioType, BioInv, Active
  <1>2. bio[b].st # "ok" /\ ~Active(b)' BY <1>1 DEF Active
  <1>3. \A c \in Bios \ {b} : AbstractReq'[c] = AbstractReq[c]
    BY <1>1, HiddenReq DEF Hidden, Active
  <1>4. Device!Out(b) /\ (Device!IsWriteReq(b) <=> IsWrite(b)) BY ReqFields
  <1>5. CASE error
    <2>1. AbstractReq'[b] = [AbstractReq[b] EXCEPT !.st = "eio"]
      BY <1>1, <1>2, <1>5 DEF AbstractReq
    <2>2. AbstractReq' = [c \in Bios |-> IF c \in {b} THEN [AbstractReq[c] EXCEPT !.st = "eio"]
                                                      ELSE AbstractReq[c]]
      BY <1>3, <2>1 DEF AbstractReq
    <2>3. live' = live BY <1>5 DEF EndIo
    <2>4. Device!Fail({b}) BY <1>1, <1>4, <2>2, <2>3 DEF Device!Fail
    <2> QED BY <2>4 DEF Refines, Device!Next
  <1>6. CASE ~error /\ ~IsWrite(b)
    <2>1. v \in seen[b] BY <1>1, <1>6 DEF GhostInv, ReadsCurrent, IsWrite
    <2>2. v \in Bios \cup Dbns BY <2>1 DEF RequestInv, GhostTypeOK, Values
    <2>3. AbstractReq'[b] = [AbstractReq[b] EXCEPT !.st = "ok", !.val = v]
      <3>1. AbstractReq[b] = [st |-> "out", dir |-> bio[b].dir, dbn |-> bio[b].dbn, val |-> None]
        BY <1>2 DEF AbstractReq
      <3>2. AbstractReq'[b] = [st |-> "ok", dir |-> bio[b].dir, dbn |-> bio[b].dbn, val |-> v]
        BY <1>1, <1>2, <1>6 DEF AbstractReq, IsWrite
      <3>3. PICK r : r = [AbstractReq[b] EXCEPT !.st = "ok"] OBVIOUS
      <3>4. r = [st |-> "ok", dir |-> bio[b].dir, dbn |-> bio[b].dbn, val |-> None]
        BY <3>1, <3>3
      <3>5. [r EXCEPT !.val = v] = AbstractReq'[b] BY <3>2, <3>4
      <3>6. [AbstractReq[b] EXCEPT !.st = "ok", !.val = v] = [r EXCEPT !.val = v]
        BY <3>3
      <3> QED BY <3>5, <3>6
    <2>4. AbstractReq' = [AbstractReq EXCEPT ![b].st = "ok", ![b].val = v]
      BY <1>3, <2>3 DEF AbstractReq
    <2>5. live' = live BY <1>6 DEF EndIo
    <2>6. Device!ReadOk(b, v) BY <1>1, <1>4, <1>6, <2>1, <2>4, <2>5 DEF Device!ReadOk
    <2> QED BY <2>2, <2>6 DEF Refines, Device!Next
  <1>7. CASE ~error /\ IsWrite(b)
    <2>1. AbstractReq'[b] = [AbstractReq[b] EXCEPT !.st = "ok"]
      BY <1>1, <1>2, <1>7 DEF AbstractReq, IsWrite
    <2>2. AbstractReq' = [AbstractReq EXCEPT ![b].st = "ok"]
      BY <1>3, <2>1 DEF AbstractReq
    <2>3. live' = [live EXCEPT ![AbstractReq[b].dbn] = @ \ seen[b]]
      BY <1>7, ReqFields DEF EndIo
    <2>4. Device!WriteOk(b) BY <1>1, <1>4, <1>7, <2>2, <2>3 DEF Device!WriteOk
    <2> QED BY <2>4 DEF Refines, Device!Next
  <1> QED BY <1>5, <1>6, <1>7

-----------------------------------------------------------------------------
(* Step by step                                                            *)

LEMMA QueuedIsActive ==
  ASSUME IInv, NEW s \in Slots, NEW b \in pending[s] PROVE b \in Bios /\ Active(b)
  BY DEF IInv, BlockInv, SlotTypeOK, QueueInv, Queued, Active

LEMMA JobBioIsActive ==
  ASSUME IInv, DataInv, NEW s \in Slots, HasBio(s)
  PROVE  job[s].bio \in Bios /\ Active(job[s].bio)
  BY DEF HasBio, IInv, BlockInv, JobTypeOK, JobType, DataInv, JobBioInv, Active

LEMMA BioUnchanged == UNCHANGED <<bio, live, seen>> => Refines
  <1> SUFFICES ASSUME UNCHANGED <<bio, live, seen>> PROVE Refines OBVIOUS
  <1>1. \A b \in Bios : Hidden(b) BY DEF Hidden, Active
  <1> QED BY <1>1, HiddenStep DEF Refines

(* Active bios fail with EIO at once.                                      *)
LEMMA QueueFailsRefines ==
  ASSUME IInv, NEW B \in SUBSET Bios, \A b \in B : Active(b), bio' = SetStatus(B, "eio"),
         UNCHANGED <<live, seen>>
  PROVE  Refines
  <1>1. \A b \in B : bio'[b] = [bio[b] EXCEPT !.st = "eio"] BY DEF SetStatus
  <1>2. \A b \in Bios \ B : Hidden(b) BY DEF SetStatus, Hidden, Active
  <1> QED BY <1>1, <1>2, FailRefines DEF IInv

(* One bio moves on; it is still out.                                      *)
LEMMA MovesOn ==
  ASSUME NEW b \in Bios, Active(b), Active(b)', UNCHANGED <<live, seen>>,
         bio'[b].dir = bio[b].dir, bio'[b].dbn = bio[b].dbn,
         \A c \in Bios \ {b} : bio'[c] = bio[c]
  PROVE  Refines
  <1>1. \A c \in Bios : Hidden(c) BY DEF Hidden, Active
  <1> QED BY <1>1, HiddenStep DEF Refines

LEMMA BioArrivesRefines ==
  ASSUME IInv, NEW b \in Bios, BioArrives(b) PROVE Refines
  <1>1. PICK d \in Dbns, dir \in {"READ", "WRITE"} :
          \E st \in {"disk", "eio", "queued", "queued_inval", "job"} : Arrive(b, d, dir, st)
    BY DEF BioArrives, MapUncached, MapUncachedConflict, MapFails, MapHit, MapHitBusy,
           MapMiss, StartUncached
  <1> QED BY <1>1, ArriveRefines DEF IInv

LEMMA UncachedRefines ==
  ASSUME IInv, DataInv, DataInv', NEW b \in Bios, UncachedStep(b) PROVE Refines
  <1>1. CASE UncachedIoDone(b)
    <2>1. /\ bio[b].st = "disk" /\ bio'[b].st = "disk_done"
          /\ bio'[b].dir = bio[b].dir /\ bio'[b].dbn = bio[b].dbn
          /\ \A c \in Bios \ {b} : bio'[c] = bio[c]
          /\ UNCHANGED <<live, seen>>
      BY <1>1 DEF UncachedIoDone, IInv, RequestInv, BioTypeOK, BioType
    <2> QED BY <2>1, MovesOn DEF Active
  <1>2. CASE UncachedIoComplete(b)
    <2>1. /\ bio[b].st = "disk_done" /\ EndIo(b, bio[b].err, bio[b].val)
          /\ bio[b].err \in BOOLEAN /\ bio[b].val \in Values \cup {None}
      BY <1>2 DEF UncachedIoComplete, IInv, RequestInv, BioTypeOK, BioType
    <2> QED BY <2>1, EndIoRefines DEF Active, IInv, DataInv
  <1>3. CASE UncachedIoRequeue(b)
    <2>1. /\ bio[b].st = "disk_done" /\ bio'[b].st = "queued_inval"
          /\ bio'[b].dir = bio[b].dir /\ bio'[b].dbn = bio[b].dbn
          /\ \A c \in Bios \ {b} : bio'[c] = bio[c]
          /\ UNCHANGED <<live, seen>>
      BY <1>3 DEF UncachedIoRequeue, IInv, RequestInv, BioTypeOK, BioType
    <2> QED BY <2>1, MovesOn DEF Active
  <1>4. CASE UncachedIoCompleteFails(b)
    <2>1. /\ bio[b].st = "disk_done" /\ bio' = SetStatus({b}, "eio")
          /\ UNCHANGED <<live, seen>>
      BY <1>4 DEF UncachedIoCompleteFails
    <2> QED BY <2>1, QueueFailsRefines DEF Active
  <1> QED BY <1>1, <1>2, <1>3, <1>4 DEF UncachedStep

(* The callbacks: an error in write-back mode, and every success, ends the *)
(* bio; the other modes keep a bio whose I/O failed.                       *)
LEMMA CallbackRefines ==
  ASSUME IInv, DataInv, DataInv', NEW s \in Slots,
         \/ ReadDiskDone(s) \/ ReadFillDone(s) \/ ReadCacheDone(s)
         \/ WriteCacheDone(s) \/ WriteThroughDone(s)
  PROVE  Refines
  <1> DEFINE b == job[s].bio
  <1>1. job[s].phase = "io" /\ job[s].act # "WRITEDISK"
    BY DEF ReadDiskDone, ReadFillDone, ReadCacheDone, WriteCacheDone, WriteThroughDone, InIo
  <1>2. b \in Bios /\ Active(b) /\ bio[b].st = "job" BY <1>1, JobFacts
  <1>3. /\ bio[b].val \in Values \cup {None} /\ ssd[s] \in Values \cup {None}
        /\ b \in Values \cup {None}
    BY <1>2 DEF IInv, RequestInv, BioTypeOK, BioType, DeviceInv, DevTypeOK, Values
  <1>4. ASSUME NEW error \in BOOLEAN, NEW v \in Values \cup {None}, EndIo(b, error, v)
        PROVE  Refines
    BY <1>2, <1>4, EndIoRefines DEF IInv, DataInv
  <1>5. ASSUME FailBio(s) PROVE Refines
    BY <1>3, <1>4, <1>5, BioUnchanged DEF FailBio
  <1>6. CASE ReadDiskDone(s)
    <2>1. CASE EndIo(b, TRUE, None) BY <1>4, <2>1
    <2>2. CASE UNCHANGED <<live, seen>> /\ bio' = [bio EXCEPT ![b].val = disk[dbn[s]]]
      <3>1. /\ bio'[b].st = "job" /\ bio'[b].dir = bio[b].dir /\ bio'[b].dbn = bio[b].dbn
            /\ \A c \in Bios \ {b} : bio'[c] = bio[c]
        BY <1>2, <2>2 DEF IInv, RequestInv, BioTypeOK, BioType
      <3> QED BY <1>2, <2>2, <3>1, MovesOn DEF Active
    <2> QED BY <1>6, <2>1, <2>2 DEF ReadDiskDone
  <1>7. CASE ReadFillDone(s) BY <1>3, <1>4, <1>5, <1>7 DEF ReadFillDone
  <1>8. CASE ReadCacheDone(s) BY <1>3, <1>4, <1>5, <1>8 DEF ReadCacheDone
  <1>9. CASE WriteCacheDone(s)
    BY <1>3, <1>4, <1>5, <1>9, BioUnchanged DEF WriteCacheDone
  <1>10. CASE WriteThroughDone(s) BY <1>3, <1>4, <1>10 DEF WriteThroughDone
  <1> QED BY <1>6, <1>7, <1>8, <1>9, <1>10

(* do_pending and the failures to allocate a job: whoever waits fails, or  *)
(* goes to the disk.                                                       *)
LEMMA WaitersRefine ==
  ASSUME IInv, DataInv, NEW s \in Slots,
         \/ StartJobFails(s) \/ DirtyWritebackFails(s) \/ DoPendingError(s)
         \/ DoPendingErrorRetry(s)
  PROVE  Refines
  <1>1. \A b \in pending[s] : b \in Bios /\ Active(b) BY QueuedIsActive
  <1>2. CASE StartJobFails(s)
    <2>1. HasBio(s)
      BY <1>2 DEF StartJobFails, HasBio, IInv, BlockInv, SlotInv, PhaseInv
    <2>2. job[s].bio \in Bios /\ Active(job[s].bio) BY <2>1, JobBioIsActive
    <2>3. bio' = SetStatus(pending[s] \cup {job[s].bio}, "eio") /\ UNCHANGED <<live, seen>>
      BY <1>2 DEF StartJobFails
    <2> QED BY <1>1, <2>2, <2>3, QueueFailsRefines
  <1>3. CASE DirtyWritebackFails(s) \/ DoPendingError(s)
    <2>1. bio' = SetStatus(pending[s], "eio") /\ UNCHANGED <<live, seen>>
      BY <1>3 DEF DirtyWritebackFails, DoPendingError
    <2> QED BY <1>1, <2>1, QueueFailsRefines
  <1>4. CASE DoPendingErrorRetry(s)
    <2>1. HasBio(s) BY <1>4 DEF DoPendingErrorRetry, HasBio
    <2>2. job[s].bio \in Bios /\ Active(job[s].bio) BY <2>1, JobBioIsActive
    <2> DEFINE W == pending[s] \cup {job[s].bio}
    <2>3. PICK F \in SUBSET W :
            bio' = [b \in Bios |-> IF b \in F THEN [bio[b] EXCEPT !.st = "eio"]
                                   ELSE IF b \in W THEN [bio[b] EXCEPT !.st = "disk"]
                                   ELSE bio[b]]
      BY <1>4 DEF DoPendingErrorRetry
    <2>4. W \subseteq Bios /\ \A b \in W : Active(b) BY <1>1, <2>2
    <2>5. \A b \in F : bio'[b] = [bio[b] EXCEPT !.st = "eio"] BY <2>3, <2>4
    <2>6. ASSUME NEW b \in Bios \ F PROVE Hidden(b)
      <3>1. CASE b \in W
        <4>1. bio'[b] = [bio[b] EXCEPT !.st = "disk"] BY <2>3, <3>1
        <4>2. bio'[b].st = "disk" /\ bio'[b].dir = bio[b].dir /\ bio'[b].dbn = bio[b].dbn
          BY <4>1 DEF IInv, RequestInv, BioTypeOK, BioType
        <4> QED BY <2>4, <3>1, <4>2 DEF Hidden, Active
      <3>2. CASE b \notin W
        BY <2>3, <3>2 DEF Hidden, Active
      <3> QED BY <3>1, <3>2
    <2>7. F \in SUBSET Bios /\ UNCHANGED <<live, seen>>
      BY <1>4, <2>4 DEF DoPendingErrorRetry
    <2> QED BY <2>4, <2>5, <2>6, <2>7, FailRefines DEF IInv
  <1> QED BY <1>2, <1>3, <1>4

LEMMA SlotRefines ==
  ASSUME IInv, DataInv, DataInv', NEW s \in Slots, SlotStep(s) PROVE Refines
  <1>1. CASE \/ StartJob(s) \/ DirtyWriteback(s) \/ KcopydDone(s) \/ DoPendingDirty(s)
             \/ DoPendingClean(s) \/ DrainDone(s)
             \/ \E b \in Bios : DrainPendingConflict(s, b)
    BY <1>1, BioUnchanged DEF StartJob, DirtyWriteback, KcopydDone, DoPendingDirty,
       DoPendingClean, DrainDone, DrainPendingConflict
  <1>2. ASSUME NEW b \in Bios, DrainPending(s, b) PROVE Refines
    <2>1. Active(b) BY <1>2, QueuedIsActive DEF DrainPending
    <2>2. PICK st \in {"disk", "eio"} : bio' = SetStatus({b}, st)
      BY <1>2 DEF DrainPending, StartUncached
    <2>3. UNCHANGED <<live, seen>> BY <1>2 DEF DrainPending
    <2>4. CASE st = "eio" BY <2>1, <2>2, <2>3, <2>4, QueueFailsRefines
    <2>5. CASE st = "disk"
      <3>1. /\ bio'[b].st = "disk" /\ bio'[b].dir = bio[b].dir /\ bio'[b].dbn = bio[b].dbn
            /\ \A c \in Bios \ {b} : bio'[c] = bio[c]
        BY <2>2, <2>5 DEF SetStatus, IInv, RequestInv, BioTypeOK, BioType
      <3> QED BY <2>1, <2>3, <3>1, MovesOn DEF Active
    <2> QED BY <2>4, <2>5
  <1>3. ASSUME NEW b \in Bios, DrainPendingFails(s, b) PROVE Refines
    <2>1. Active(b) BY <1>3, QueuedIsActive DEF DrainPendingFails
    <2> QED BY <1>3, <2>1, QueueFailsRefines DEF DrainPendingFails
  <1> QED BY <1>1, <1>2, <1>3, CallbackRefines, WaitersRefine DEF SlotStep

LEMMA MdRefines ==
  ASSUME IInv, DataInv, DataInv', MdStep PROVE Refines
  <1>1. CASE MdKickoff \/ MdKickoffFails \/ MdWriteCallback \/ MdWriteDone
    BY <1>1, BioUnchanged DEF MdKickoff, MdKickoffFails, MdWriteCallback, MdWriteDone
  <1>2. ASSUME NEW s \in Slots, MdJobDone(s) PROVE Refines
    <2>1. CASE job[s].act # "WRITECACHE" BY <1>2, <2>1, BioUnchanged DEF MdJobDone
    <2>2. CASE job[s].act = "WRITECACHE"
      <3>1. job[s].phase = "md" BY <1>2 DEF MdJobDone, IInv, BlockInv, PipelineInv
      <3>2. HasBio(s) BY <2>2, <3>1 DEF HasBio, IInv, BlockInv, SlotInv, PhaseInv
      <3>3. job[s].bio \in Bios /\ Active(job[s].bio) BY <3>2, JobBioIsActive
      <3>4. EndIo(job[s].bio, md_error, job[s].bio) /\ md_error \in BOOLEAN
        BY <1>2, <2>2 DEF MdJobDone, IInv, BlockInv, MdTypeOK
      <3> QED BY <3>3, <3>4, EndIoRefines DEF IInv, DataInv, Values
    <2> QED BY <2>1, <2>2
  <1> QED BY <1>1, <1>2 DEF MdStep

-----------------------------------------------------------------------------
(* A crash                                                                 *)

(* The reload finds exactly one value of a disk block.                     *)
OneIsRecovered == \A d \in Dbns : \E v : Recovered(d) = {v}

LEMMA InvRecoversOne == IInv => OneIsRecovered
  <1> SUFFICES ASSUME IInv, NEW d \in Dbns PROVE \E v : Recovered(d) = {v}
    BY DEF OneIsRecovered
  <1>1. CASE DirtyOnFlash(d) = {} BY <1>1 DEF Recovered
  <1>2. CASE DirtyOnFlash(d) # {}
    <2>1. PICK s : s \in DirtyOnFlash(d) BY <1>2
    <2>2. DirtyOnFlash(d) = {s}
      BY <2>1 DEF DirtyOnFlash, IInv, DeviceInv, DirtyRecordsInv
    <2>3. Recovered(d) = {ssd[s]} BY <2>2 DEF Recovered
    <2> QED BY <2>3
  <1> QED BY <1>1, <1>2

LEMMA NextRecoversOne == IInv' => OneIsRecovered'
  BY InvRecoversOne, PTL

LEMMA CrashRefines ==
  ASSUME NoMdWriteFault, IInv, IInv', MdCurrentInv, DataInv, Crash PROVE Refines
  <1>1. /\ bio' = SetStatus({b \in Bios : Active(b)}, "lost")
        /\ \A d \in Dbns : live'[d] = live[d] \cap Recovered(d)'
        /\ live' = [d \in Dbns |-> live'[d]]
        /\ seen' = seen
    BY DEF Crash
  <1>2. \A d \in Dbns : \E v : Recovered(d)' = {v}
    BY NextRecoversOne DEF OneIsRecovered
  <1> DEFINE kept == [d \in Dbns |-> CHOOSE v : v \in live'[d]]
  <1>3. ASSUME NEW d \in Dbns PROVE live'[d] = {kept[d]} /\ kept[d] \in live[d]
    <2>1. PICK v : Recovered(d)' = {v} BY <1>2
    <2>2. Recovered(d)' \subseteq live'[d] BY CrashDurable DEF Durable
    <2>3. live'[d] = {v} BY <1>1, <2>1, <2>2
    <2>4. kept[d] = v BY <2>3
    <2> QED BY <1>1, <2>3, <2>4
  <1>4. kept \in [Dbns -> UNION {live[d] : d \in Dbns}] BY <1>3
  <1>5. live' = [d \in Dbns |-> {kept[d]}] BY <1>1, <1>3
  <1>6. ASSUME NEW b \in Bios
        PROVE  AbstractReq'[b] = IF Device!Out(b) THEN [AbstractReq[b] EXCEPT !.st = "lost"]
                                                  ELSE AbstractReq[b]
    <2>1. Device!Out(b) <=> Active(b) BY OutIsActive DEF IInv
    <2>2. CASE Active(b)
      <3>1. bio'[b] = [bio[b] EXCEPT !.st = "lost"] BY <1>1, <2>2 DEF SetStatus
      <3>2. bio'[b].st = "lost" /\ bio'[b].dir = bio[b].dir /\ bio'[b].dbn = bio[b].dbn
        BY <3>1 DEF IInv, RequestInv, BioTypeOK, BioType
      <3>3. AbstractReq[b] = [st |-> "out", dir |-> bio[b].dir, dbn |-> bio[b].dbn, val |-> None]
        BY <2>2 DEF AbstractReq, Active
      <3>4. AbstractReq'[b] = [st |-> "lost", dir |-> bio[b].dir, dbn |-> bio[b].dbn, val |-> None]
        BY <3>2 DEF AbstractReq, Active
      <3> QED BY <2>1, <2>2, <3>3, <3>4
    <2>3. CASE ~Active(b)
      <3>1. bio'[b] = bio[b] BY <1>1, <2>3 DEF SetStatus
      <3>2. Hidden(b) BY <3>1 DEF Hidden, Active
      <3> QED BY <2>1, <2>3, <3>2, HiddenReq
    <2> QED BY <2>2, <2>3
  <1>7. AbstractReq' = [b \in Bios |-> IF Device!Out(b) THEN [AbstractReq[b] EXCEPT !.st = "lost"]
                                                         ELSE AbstractReq[b]]
    BY <1>6 DEF AbstractReq
  <1>8. Device!Crash BY <1>1, <1>3, <1>4, <1>5, <1>7 DEF Device!Crash
  <1> QED BY <1>8 DEF Refines, Device!Next

-----------------------------------------------------------------------------
LEMMA InitRefines == Init => Device!Init
  <1> SUFFICES ASSUME Init PROVE Device!Init OBVIOUS
  <1>1. AbstractReq = [b \in Bios |-> [st |-> "new", dir |-> "READ", dbn |-> None, val |-> None]]
    <2>1. \A b \in Bios : bio[b] = NewBio BY DEF Init
    <2> QED BY <2>1 DEF AbstractReq, Active, NewBio
  <1> QED BY <1>1 DEF Init, Device!Init

LEMMA NextRefines ==
  /\ IInv /\ IInv' /\ (NoMdWriteFault => MdCurrentInv) /\ MdReliable /\ MdReliable'
  /\ (MdReliable => DataInv) /\ (MdReliable => DataInv)' /\ [Next]_vars
  => [Device!Next]_(Device!bdVars)
  <1> SUFFICES ASSUME IInv, IInv', NoMdWriteFault => MdCurrentInv, MdReliable',
                      DataInv, DataInv', [Next]_vars
               PROVE  Refines
    BY DEF Refines
  <1>1. CASE UNCHANGED vars BY <1>1, BioUnchanged DEF vars
  <1>2. ASSUME NEW S \in SUBSET Slots, CleanSet(S) PROVE Refines
    BY <1>2, BioUnchanged DEF CleanSet
  <1>3. ASSUME NEW b \in Bios, BioArrives(b) \/ UncachedStep(b) PROVE Refines
    BY <1>3, BioArrivesRefines, UncachedRefines
  <1>4. ASSUME NEW s \in Slots, SlotStep(s) PROVE Refines BY <1>4, SlotRefines
  <1>5. CASE MdStep BY <1>5, MdRefines
  <1>6. CASE Crash
    <2>1. NoMdWriteFault BY <1>6, CrashesCount DEF MdReliable
    <2> QED BY <1>6, <2>1, CrashRefines
  <1> QED BY <1>1, <1>2, <1>3, <1>4, <1>5, <1>6 DEF Next

(* Flashcache is the block device of BlockDevice: through every            *)
(* interleaving of requests, fills, writebacks, invalidations and failures *)
(* until the first crash, and through crashes if no metadata write fails,  *)
(* each read returns a value that the device may return, no acknowledged   *)
(* write is lost, and a crash keeps one possible value of each block.      *)
THEOREM FlashcacheIsABlockDevice == Spec /\ []MdReliable => ImplementsBlockDevice
  <1>1. Init => Device!Init BY InitRefines
  <1>2. /\ IInv /\ IInv' /\ (NoMdWriteFault => MdCurrentInv) /\ MdReliable /\ MdReliable'
        /\ (MdReliable => DataInv) /\ (MdReliable => DataInv)' /\ [Next]_vars
        => [Device!Next]_(Device!bdVars)
    BY NextRefines
  <1> QED BY <1>1, <1>2, Inductive, MdCurrentIfReliable, DataStaysCurrent, PTL
          DEF Spec, ImplementsBlockDevice, Device!Spec
=============================================================================
