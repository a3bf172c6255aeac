---------------------------- MODULE FlashcacheInv ----------------------------
(***************************************************************************)
(* The inductive invariant of Flashcache: how the state bits of a block,   *)
(* the job that works on it, the lists it is on and the metadata pipeline  *)
(* fit together in every reachable state.                                  *)
(***************************************************************************)
EXTENDS Flashcache

Bits(s) == cache_state[s]
DirtyBits == {"VALID", "DIRTY"}

(* A request that has arrived names a disk block.                          *)
BioInv == \A b \in Bios : bio[b].st # "new" => bio[b].dbn \in Dbns

(* A bio is queued on one block and marked so, or belongs to one job.      *)
Queued == {"queued", "queued_inval"}
QueueInv ==
  /\ \A s \in Slots : \A b \in pending[s] : bio[b].st \in Queued
  /\ \A b \in Bios : bio[b].st \in Queued => \E s \in Slots : b \in pending[s]
  /\ \A s, t \in Slots : \A b \in pending[s] : b \in pending[t] => s = t
  /\ \A s \in Slots : job[s].bio # None => bio[job[s].bio].st \in {"job", "ok", "eio"}
  /\ \A s, t \in Slots : job[s].bio # None /\ job[s].bio = job[t].bio => s = t

(* The bits of a block: valid or invalid but not both, dirty only when     *)
(* valid and in write-back mode, a valid block has a disk block.           *)
BitsInv(s) ==
  /\ ("VALID" \in Bits(s)) # ("INVALID" \in Bits(s))
  /\ "DIRTY" \in Bits(s) => "VALID" \in Bits(s) /\ CacheMode = "WRITE_BACK"
  /\ "VALID" \in Bits(s) => dbn[s] \in Dbns

(* The job owns exactly the INPROG bit of its action; no job, no bit; bios *)
(* are queued only while there is a job; a block is in progress without    *)
(* being valid only in limbo.                                              *)
JobInv(s) ==
  /\ job[s].phase = "none" => Bits(s) \cap BlockIoInprog = {} /\ pending[s] = {}
  /\ job[s].phase # "none" =>
       /\ job[s].act \in Actions
       /\ Bits(s) \cap BlockIoInprog = {InprogBit(job[s].act)}
       /\ ("VALID" \in Bits(s)) = (job[s].phase # "limbo")

(* What a job may be doing in each phase.                                  *)
PhaseInv(s) ==
  /\ job[s].act = "WRITEDISK" /\ job[s].phase \notin {"pend", "limbo"} =>
       "DIRTY" \in Bits(s)
  /\ job[s].phase \in {"hit", "miss"} => job[s].bio # None /\ job[s].act # "WRITEDISK"
  /\ job[s].phase = "miss" => "DIRTY" \notin Bits(s)
  /\ job[s].phase = "wb" => job[s].act = "WRITEDISK" /\ job[s].bio = None
  /\ job[s].phase = "io" => (job[s].bio = None) = (job[s].act = "WRITEDISK")
  /\ job[s].phase = "md" => /\ job[s].act \in {"WRITECACHE", "WRITEDISK"}
                            /\ (job[s].bio = None) = (job[s].act = "WRITEDISK")
                            /\ CacheMode = "WRITE_BACK"
  /\ job[s].phase = "limbo" => "DIRTY" \notin Bits(s)

(* The hash holds the valid blocks, once each; the invalid list the blocks *)
(* that are invalid and idle.                                              *)
ListInv ==
  /\ \A s \in Slots : /\ (s \in hashed) = ("VALID" \in Bits(s))
                      /\ (s \in invalid_list) = (Bits(s) = {"INVALID"})
  /\ \A s, t \in hashed : dbn[s] = dbn[t] => s = t

(* The slots in the metadata pipeline.                                     *)
PipelineInv ==
  /\ \A s \in Slots : (job[s].phase = "md") = (s \in md_io \cup md_queue)
  /\ md_io \cap md_queue = {}
  /\ md_phase = "idle" => md_io = {} /\ md_queue = {}
  /\ md_error => md_phase = "done"

(* Dirty records, on flash or on their way, are well formed and unique.    *)
DirtyRecordsInv(md) ==
  /\ \A s \in Slots : "DIRTY" \in md[s].state =>
       md[s].state = DirtyBits /\ md[s].dbn \in Dbns /\ CacheMode = "WRITE_BACK"
  /\ \A s, t \in Slots :
       "DIRTY" \in md[s].state /\ "DIRTY" \in md[t].state /\ md[s].dbn = md[t].dbn
         => s = t

SlotInv == \A s \in Slots : BitsInv(s) /\ JobInv(s) /\ PhaseInv(s)

(* The invariant, by the variables it is about.                            *)
BlockInv == /\ SlotTypeOK /\ JobTypeOK /\ MdTypeOK
            /\ SlotInv /\ ListInv /\ PipelineInv
RequestInv == BioTypeOK /\ GhostTypeOK /\ BioInv
DeviceInv == DevTypeOK /\ DirtyRecordsInv(flash_md) /\ DirtyRecordsInv(md_image)

IInv == /\ BlockInv /\ RequestInv /\ QueueInv /\ DeviceInv
        /\ bypass_cache \in BOOLEAN /\ crashes \in Nat

-----------------------------------------------------------------------------
(* With metadata writes that do not fail: what the md block says of a      *)
(* block that is, or is being made, dirty.  An update for which there is   *)
(* no memory is over without having been written; if there always is       *)
(* memory, no job keeps its bio to retry it in write-back mode.            *)
NoMdWriteFault == "md_write" \notin Faults
NoMdFaults == {"md_alloc", "md_write"} \cap Faults = {}

(* No metadata write fails, or nothing has crashed yet.                    *)
MdReliable == NoMdWriteFault \/ crashes = 0

(* Until the first crash reads return current data whatever fails, for     *)
(* what is on the flash is not looked at, and a block stays dirty when its *)
(* cleaning fails.                                                         *)
ReadsCurrentIfReliable == MdReliable => ReadsCurrent

DirtyRecord(s) == [dbn |-> dbn[s], state |-> DirtyBits]

(* The metadata write that has just ended is on the flash.                 *)
MdLanded == md_phase = "done" /\ ~md_error

MdCurrentInv ==
  /\ NoMdFaults => ~md_error
  /\ \A s \in Slots :
       /\ NoMdFaults /\ job[s].phase = "pend" /\ job[s].err /\ job[s].bio # None
            => CacheMode # "WRITE_BACK"
       /\ "DIRTY" \in Bits(s) /\ ~(CleanLanded(s) /\ ~md_error)
            => flash_md[s] = DirtyRecord(s)
       /\ s \in md_io /\ job[s].act = "WRITECACHE" =>
            /\ MdLanded => flash_md[s] = DirtyRecord(s)
            /\ md_phase = "io" => md_image[s] = DirtyRecord(s)
       /\ md_phase = "io" /\ "DIRTY" \in Bits(s)
            /\ ~(s \in md_io /\ job[s].act = "WRITEDISK")
            => md_image[s] = DirtyRecord(s)

-----------------------------------------------------------------------------
(* Why what is cached and clean agrees with the disk, whatever fails: the  *)
(* disk block changes under it only by an uncached write, and such a write *)
(* is out, or waits on the block to invalidate it, or has failed.          *)
Excused(s) ==
  \E b \in Bios : /\ IsWrite(b) /\ bio[b].dbn = dbn[s]
                  /\ bio[b].st \in {"disk", "disk_done", "eio"} \/ b \in pending[s]

(* A clean block that a hit may find, or that a failed hit leaves behind.  *)
Settled(s) ==
  /\ s \in hashed /\ "DIRTY" \notin Bits(s)
  /\ \/ job[s].phase \in {"none", "hit"}
     \/ job[s].phase = "io" /\ job[s].act = "READCACHE"

(* Such a block, the data a fill is about to write to it, and a dirty      *)
(* block that has been copied, agree with the disk.                        *)
CleanInv(s) ==
  /\ Settled(s) => ssd[s] = disk[dbn[s]] \/ Excused(s)
  /\ job[s].phase = "io" /\ job[s].act = "READFILL" =>
       bio[job[s].bio].val = disk[dbn[s]] \/ Excused(s)
  /\ job[s].phase = "md" /\ job[s].act = "WRITEDISK" => ssd[s] = disk[dbn[s]] \/ Excused(s)

(* A hit is served from the cache, a miss from the disk or by a write, and *)
(* the bio of a job has not ended before its I/O.                          *)
JobStartInv(s) ==
  /\ job[s].phase = "hit" => job[s].act \in {"READCACHE", "WRITECACHE"}
  /\ job[s].phase = "miss" => job[s].act \in {"READDISK", "WRITECACHE"}
  /\ job[s].phase \in {"hit", "miss", "io", "md"} /\ job[s].bio # None =>
       bio[job[s].bio].st = "job"

CleanDataInv == \A s \in Slots : CleanInv(s) /\ JobStartInv(s)
=============================================================================
