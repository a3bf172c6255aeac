----------------------------- MODULE Flashcache -----------------------------
(***************************************************************************)
(* The I/O path of one cache set of flashcache (src/flashcache_main.c):    *)
(* how a bio is mapped onto the SSD or the disk, how I/O to a busy block   *)
(* is queued and replayed, how dirty blocks are written back, how metadata *)
(* updates are batched onto flash, and what a crash leaves behind.         *)
(*                                                                         *)
(* Every step that the code takes between two acquisitions of the per-set  *)
(* spinlock is one action.  The devices are external: an I/O moves its     *)
(* data in the step that runs its completion callback.                     *)
(***************************************************************************)
EXTENDS Naturals, FiniteSets

CONSTANTS
  Slots,      \* the cache slots (cacheblocks) of the set
  Dbns,       \* the disk blocks that hash to the set
  Bios,       \* the I/O requests; a bio that writes, writes its own identity
  None,       \* "no bio", "no block", "no data"
  CacheMode,  \* the cache mode of the device
  Faults,     \* the faults the environment may inject
  MaxCrashes  \* bound on the number of crashes

FaultKinds == {"job_alloc", "pjob_alloc", "md_alloc", "ssd_read", "ssd_write",
               "disk_read", "disk_write", "md_write"}

ASSUME FlashcacheAssumption ==
  /\ None \notin Slots /\ None \notin Dbns /\ None \notin Bios
  /\ Dbns \cap Bios = {}
  /\ CacheMode \in {"WRITE_BACK", "WRITE_THROUGH", "WRITE_AROUND"}
  /\ Faults \subseteq FaultKinds
  /\ MaxCrashes \in Nat

VARIABLES
  cache_state,  \* cache_state[s]: the state bits of slot s
  dbn,          \* dbn[s]: the disk block slot s holds
  hashed,       \* the slots on the per-set hash
  invalid_list, \* the slots on the per-set invalid list
  pending,      \* pending[s]: the bios queued on slot s; nr_queued is its size
  job,          \* job[s]: the kcached_job that works on slot s
  md_phase,     \* where the metadata update of the set's md block stands
  md_io,        \* the slots whose updates the current md write carries
  md_queue,     \* the slots on queued_updates
  md_image,     \* the md block image built by kickoff
  md_error,     \* job->error of the md write
  ssd,          \* ssd[s]: the data on flash in slot s
  flash_md,     \* flash_md[s]: the flash_cacheblock of slot s on flash
  disk,         \* disk[d]: the data on the disk
  bio,          \* bio[b]: the requests
  bypass_cache, \* the cache is being bypassed after an SSD error
  crashes       \* number of crashes so far

(* Ghost state: what a reader may legitimately be told.                    *)
VARIABLES
  live,  \* live[d]: the values a read of d that starts now may return
  seen   \* seen[b]: for a read, the values it may return; for a write, the
         \* values that were complete when it started, which it supersedes

slotVars  == <<cache_state, dbn, hashed, invalid_list, pending, job>>
mdVars    == <<md_phase, md_io, md_queue, md_image, md_error>>
devVars   == <<ssd, flash_md, disk>>
ghostVars == <<live, seen>>
vars == <<slotVars, mdVars, devVars, bio, bypass_cache, crashes, ghostVars>>

-----------------------------------------------------------------------------
(* State bits, jobs and bios                                               *)

BlockIoInprog == {"DISKREADINPROG", "DISKWRITEINPROG",
                  "CACHEREADINPROG", "CACHEWRITEINPROG"}
StateBits == {"VALID", "INVALID", "DIRTY"} \cup BlockIoInprog

Actions == {"READCACHE", "WRITECACHE", "READDISK", "WRITEDISK", "READFILL"}

(* Where a job is: taken on a hit or a miss but not yet allocated; chosen  *)
(* for writeback; in I/O; in the metadata pipeline; on the pending_jobs    *)
(* work list; draining the queue of a block that is in limbo.              *)
Phases == {"hit", "miss", "wb", "io", "md", "pend", "limbo"}

NoJob == [act |-> "none", phase |-> "none", bio |-> None, err |-> FALSE]
Job(act, phase, b) == [act |-> act, phase |-> phase, bio |-> b, err |-> FALSE]

(* The INPROG bit a job holds on its block.                                *)
InprogBit(act) ==
  CASE act = "READCACHE"  -> "CACHEREADINPROG"
    [] act = "WRITECACHE" -> "CACHEWRITEINPROG"
    [] act = "WRITEDISK"  -> "DISKWRITEINPROG"
    [] OTHER              -> "DISKREADINPROG"

Values == Bios \cup Dbns
MdStates == SUBSET {"VALID", "INVALID", "DIRTY"}

(* A bio is new, served by a job, queued on a block (to go to the disk, or *)
(* to invalidate again first), in uncached I/O, awaiting                   *)
(* uncached_io_complete, or ended.                                         *)
BioStatus == {"new", "job", "queued", "queued_inval", "disk", "disk_done",
              "ok", "eio", "lost"}
Active(b) == bio[b].st \in {"job", "queued", "queued_inval", "disk", "disk_done"}
IsWrite(b) == bio[b].dir = "WRITE"

NewBio == [st |-> "new", dir |-> "READ", dbn |-> None, val |-> None, err |-> FALSE]

MayFail(f) == f \in Faults
(* An operation subject to fault f may end with each of these errors.      *)
Outcome(f) == {FALSE} \cup (IF MayFail(f) THEN {TRUE} ELSE {})

BlankMd == [s \in Slots |-> [dbn |-> None, state |-> {"INVALID"}]]

Init ==
  /\ cache_state = [s \in Slots |-> {"INVALID"}]
  /\ dbn = [s \in Slots |-> None]
  /\ hashed = {}
  /\ invalid_list = Slots
  /\ pending = [s \in Slots |-> {}]
  /\ job = [s \in Slots |-> NoJob]
  /\ md_phase = "idle"
  /\ md_io = {}
  /\ md_queue = {}
  /\ md_image = BlankMd
  /\ md_error = FALSE
  /\ ssd = [s \in Slots |-> None]
  /\ flash_md = BlankMd
  /\ disk = [d \in Dbns |-> d]
  /\ bio = [b \in Bios |-> NewBio]
  /\ bypass_cache = FALSE
  /\ crashes = 0
  /\ live = [d \in Dbns |-> {d}]
  /\ seen = [b \in Bios |-> {}]

-----------------------------------------------------------------------------
(* Blocks, and the life of a bio                                           *)

(* Refuted variant: a block being written back counts as free.             *)
BusyUnlessWriteback(s) ==
  cache_state[s] \cap (BlockIoInprog \ {"DISKWRITEINPROG"}) # {}

Busy(s) == cache_state[s] \cap BlockIoInprog # {}
Idle(s) == ~Busy(s) /\ pending[s] = {}

(* flashcache_hash_lookup: the slots whose hash entry is for block d.      *)
Cached(d) == {s \in hashed : dbn[s] = d}

(* The blocks flashcache_lookup may take for a new dbn: the head of the    *)
(* invalid list, or else whatever the reclaim policy finds; both policies  *)
(* only take a block whose state is exactly VALID.                         *)
Victims == IF invalid_list # {} THEN invalid_list
                                ELSE {s \in Slots : cache_state[s] = {"VALID"}}

SetStatus(B, st) ==
  [b \in Bios |-> IF b \in B THEN [bio[b] EXCEPT !.st = st] ELSE bio[b]]

(* A new bio comes in.  Ghost: a read may return what is live now and the  *)
(* data of any write that starts before it ends.                           *)
Arrive(b, d, dir, st) ==
  /\ bio[b].st = "new"
  /\ bio' = [bio EXCEPT ![b] =
              [st |-> st, dir |-> dir, dbn |-> d, err |-> FALSE,
               val |-> IF dir = "WRITE" THEN b ELSE None]]
  /\ live' = IF dir = "WRITE" THEN [live EXCEPT ![d] = @ \cup {b}] ELSE live
  /\ seen' = [c \in Bios |->
       IF c = b
       THEN IF dir = "READ" THEN live[d]
            ELSE live[d] \ {w \in Bios : Active(w) /\ IsWrite(w)}
       ELSE IF dir = "WRITE" /\ Active(c) /\ ~IsWrite(c) /\ bio[c].dbn = d
            THEN seen[c] \cup {b} ELSE seen[c]]

(* flashcache_bio_endio.  Ghost: a completed write supersedes every value  *)
(* that was complete when it started.                                      *)
EndIo(b, error, v) ==
  /\ bio' = [bio EXCEPT ![b].st = IF error THEN "eio" ELSE "ok", ![b].val = v]
  /\ live' = IF ~error /\ IsWrite(b)
             THEN [live EXCEPT ![bio[b].dbn] = @ \ seen[b]] ELSE live
  /\ UNCHANGED seen

(* flashcache_start_uncached_io: the bio goes to the disk, or fails when   *)
(* no job can be allocated for it.                                         *)
StartUncached == IF MayFail("job_alloc") THEN {"disk", "eio"} ELSE {"disk"}

-----------------------------------------------------------------------------
(* flashcache_inval_blocks                                                 *)

(* Refuted variant: a dirty copy that is idle is dropped.                  *)
ConflictsBusyOnly(d) == {s \in Cached(d) : ~Idle(s)}

(* The cached copies of d that cannot be dropped on the spot.              *)
Conflicts(d) == {s \in Cached(d) : ~Idle(s) \/ "DIRTY" \in cache_state[s]}

(* No conflict: any cached copy of d is idle and clean, and is dropped.    *)
InvalidateClean(d) ==
  LET S == Cached(d) IN
  /\ cache_state' = [s \in Slots |-> IF s \in S THEN {"INVALID"} ELSE cache_state[s]]
  /\ hashed' = hashed \ S
  /\ invalid_list' = invalid_list \cup S

(* A conflict on slot s, on which the bio has been queued: if the block is *)
(* idle and dirty, a writeback is started so that it becomes clean.        *)
CleanForInvalidate(s) ==
  IF Busy(s)
  THEN UNCHANGED <<cache_state, job>>
  ELSE IF "DIRTY" \in cache_state[s]
  THEN /\ cache_state' = [cache_state EXCEPT ![s] = @ \cup {"DISKWRITEINPROG"}]
       /\ job' = [job EXCEPT ![s] = Job("WRITEDISK", "wb", None)]
  ELSE UNCHANGED <<cache_state, job>>

-----------------------------------------------------------------------------
(* flashcache_map: a bio arrives                                           *)

Cacheable(dir) ==
  /\ ~bypass_cache
  /\ dir = "WRITE" => CacheMode # "WRITE_AROUND"

(* The bio bypasses the cache (its size, its pid, its sequentiality, the   *)
(* cache mode, or no room in the set), once no cached copy is in the way.  *)
MapUncached(b, d, dir) ==
  /\ Conflicts(d) = {}
  /\ \E st \in StartUncached : Arrive(b, d, dir, st)
  /\ InvalidateClean(d)
  /\ UNCHANGED <<dbn, pending, job, mdVars, devVars, bypass_cache, crashes>>

MapUncachedConflict(b, d, dir) ==
  \E s \in Conflicts(d) :
    /\ Arrive(b, d, dir, "queued_inval")
    /\ pending' = [pending EXCEPT ![s] = @ \cup {b}]
    /\ CleanForInvalidate(s)
    /\ UNCHANGED <<dbn, hashed, invalid_list, mdVars, devVars, bypass_cache, crashes>>

(* No memory for the pending_job that inval_blocks or a busy hit needs.    *)
MapFails(b, d, dir) ==
  /\ MayFail("pjob_alloc")
  /\ Arrive(b, d, dir, "eio")
  /\ UNCHANGED <<slotVars, mdVars, devVars, bypass_cache, crashes>>

(* flashcache_read_hit and flashcache_write_hit on an idle block.          *)
MapHit(b, d, dir) ==
  /\ Cacheable(dir)
  /\ \E s \in Cached(d) :
       LET act == IF dir = "READ" THEN "READCACHE" ELSE "WRITECACHE" IN
       /\ Idle(s)
       /\ Arrive(b, d, dir, "job")
       /\ cache_state' = [cache_state EXCEPT ![s] = @ \cup {InprogBit(act)}]
       /\ job' = [job EXCEPT ![s] = Job(act, "hit", b)]
  /\ UNCHANGED <<dbn, hashed, invalid_list, pending, mdVars, devVars,
                 bypass_cache, crashes>>

(* The same on a busy block: the bio waits on the block's queue.           *)
MapHitBusy(b, d, dir) ==
  /\ Cacheable(dir)
  /\ \E s \in Cached(d) :
       /\ ~Idle(s)
       /\ Arrive(b, d, dir, "queued")
       /\ pending' = [pending EXCEPT ![s] = @ \cup {b}]
  /\ UNCHANGED <<cache_state, dbn, hashed, invalid_list, job, mdVars, devVars,
                 bypass_cache, crashes>>

(* A miss claims a block before the lock is dropped.                       *)
MapMiss(b, d, dir) ==
  /\ Cacheable(dir)
  /\ Cached(d) = {}
  /\ \E s \in Victims :
       LET act == IF dir = "READ" THEN "READDISK" ELSE "WRITECACHE" IN
       /\ Arrive(b, d, dir, "job")
       /\ cache_state' = [cache_state EXCEPT ![s] = {"VALID", InprogBit(act)}]
       /\ dbn' = [dbn EXCEPT ![s] = d]
       /\ hashed' = hashed \cup {s}
       /\ invalid_list' = invalid_list \ {s}
       /\ job' = [job EXCEPT ![s] = Job(act, "miss", b)]
  /\ UNCHANGED <<pending, mdVars, devVars, bypass_cache, crashes>>

(* new_kcached_job after the claim: the I/O is sent down.                  *)
StartJob(s) ==
  /\ job[s].phase \in {"hit", "miss"}
  /\ job' = [job EXCEPT ![s].phase = "io"]
  /\ UNCHANGED <<cache_state, dbn, hashed, invalid_list, pending, mdVars,
                 devVars, bio, bypass_cache, crashes, ghostVars>>

(* ... or fails: the bio and those queued meanwhile get EIO, and a miss    *)
(* gives its block back.                                                   *)
StartJobFails(s) ==
  /\ MayFail("job_alloc")
  /\ job[s].phase \in {"hit", "miss"}
  /\ bio' = SetStatus(pending[s] \cup {job[s].bio}, "eio")
  /\ pending' = [pending EXCEPT ![s] = {}]
  /\ job' = [job EXCEPT ![s] = NoJob]
  /\ IF job[s].phase = "hit"
     THEN /\ cache_state' = [cache_state EXCEPT ![s] = @ \ BlockIoInprog]
          /\ UNCHANGED <<hashed, invalid_list>>
     ELSE /\ cache_state' = [cache_state EXCEPT ![s] = {"INVALID"}]
          /\ hashed' = hashed \ {s}
          /\ invalid_list' = invalid_list \cup {s}
  /\ UNCHANGED <<dbn, mdVars, devVars, bypass_cache, crashes, ghostVars>>

-----------------------------------------------------------------------------
(* flashcache_io_callback                                                  *)

InIo(s, act) == job[s].phase = "io" /\ job[s].act = act

(* Refuted variant: the tail does not look at the queue.                   *)
FinishIoIgnoresQueue(s, error, b) ==
  IF error
  THEN /\ job' = [job EXCEPT ![s].phase = "pend", ![s].bio = b, ![s].err = error]
       /\ UNCHANGED cache_state
  ELSE /\ job' = [job EXCEPT ![s] = NoJob]
       /\ cache_state' = [cache_state EXCEPT ![s] = @ \ BlockIoInprog]

(* The common tail of the callback: the block stays in progress, with the  *)
(* job on the pending work list, if there was an error or bios are queued. *)
FinishIo(s, error, b) ==
  IF error \/ pending[s] # {}
  THEN /\ job' = [job EXCEPT ![s].phase = "pend", ![s].bio = b, ![s].err = error]
       /\ UNCHANGED cache_state
  ELSE /\ job' = [job EXCEPT ![s] = NoJob]
       /\ cache_state' = [cache_state EXCEPT ![s] = @ \ BlockIoInprog]

(* On an error write-back fails the bio here; the other modes keep it in   *)
(* the job, to retry it from disk, and start to bypass the cache.          *)
FailBio(s) ==
  /\ bypass_cache' = (bypass_cache \/ CacheMode # "WRITE_BACK")
  /\ IF CacheMode = "WRITE_BACK"
     THEN EndIo(job[s].bio, TRUE, bio[job[s].bio].val) /\ FinishIo(s, TRUE, None)
     ELSE FinishIo(s, TRUE, job[s].bio) /\ UNCHANGED <<bio, ghostVars>>

ReadDiskDone(s) ==
  /\ InIo(s, "READDISK")
  /\ \E error \in Outcome("disk_read") :
       IF error
       THEN \* a disk error ends the bio in every mode
            /\ EndIo(job[s].bio, TRUE, None)
            /\ FinishIo(s, TRUE, None)
            /\ bypass_cache' = (bypass_cache \/ CacheMode # "WRITE_BACK")
       ELSE \* push_io: flashcache_do_io writes the data to flash
            /\ bio' = [bio EXCEPT ![job[s].bio].val = disk[dbn[s]]]
            /\ job' = [job EXCEPT ![s].act = "READFILL"]
            /\ UNCHANGED <<cache_state, bypass_cache, ghostVars>>
  /\ UNCHANGED <<dbn, hashed, invalid_list, pending, mdVars, devVars, crashes>>

ReadFillDone(s) ==
  LET b == job[s].bio IN
  /\ InIo(s, "READFILL")
  /\ \/ /\ ssd' = [ssd EXCEPT ![s] = bio[b].val]
        /\ EndIo(b, FALSE, bio[b].val)
        /\ FinishIo(s, FALSE, None)
        /\ UNCHANGED bypass_cache
     \/ /\ MayFail("ssd_write")
        /\ ssd' \in {ssd, [ssd EXCEPT ![s] = bio[b].val]}
        /\ FailBio(s)
  /\ UNCHANGED <<dbn, hashed, invalid_list, pending, mdVars, flash_md, disk, crashes>>

ReadCacheDone(s) ==
  /\ InIo(s, "READCACHE")
  /\ \E error \in Outcome("ssd_read") :
       IF error
       THEN FailBio(s)
       ELSE /\ EndIo(job[s].bio, FALSE, ssd[s])
            /\ FinishIo(s, FALSE, None)
            /\ UNCHANGED bypass_cache
  /\ UNCHANGED <<dbn, hashed, invalid_list, pending, mdVars, devVars, crashes>>

(* flashcache_md_write: start a metadata update, or queue it behind the    *)
(* one that is in progress for the md block.                               *)
MdWrite(s) ==
  /\ job' = [job EXCEPT ![s].phase = "md"]
  /\ IF md_phase = "idle"
     THEN /\ md_phase' = "kickoff"
          /\ md_io' = {s}
          /\ UNCHANGED md_queue
     ELSE /\ md_queue' = md_queue \cup {s}
          /\ UNCHANGED <<md_phase, md_io>>
  /\ UNCHANGED <<md_image, md_error, cache_state>>

(* Refuted variant: a write to a valid block never updates the metadata.   *)
WriteCacheDoneSkipsMd(s) ==
  LET b == job[s].bio IN
  /\ CacheMode = "WRITE_BACK"
  /\ InIo(s, "WRITECACHE")
  /\ ssd' = [ssd EXCEPT ![s] = b]
  /\ EndIo(b, FALSE, b)
  /\ FinishIo(s, FALSE, None)
  /\ UNCHANGED <<dbn, hashed, invalid_list, pending, mdVars, flash_md, disk,
                 bypass_cache, crashes>>

(* A write to the cache in write-back mode; only a write that makes the    *)
(* block dirty updates the metadata.                                       *)
WriteCacheDone(s) ==
  LET b == job[s].bio IN
  /\ CacheMode = "WRITE_BACK"
  /\ InIo(s, "WRITECACHE")
  /\ \/ /\ ssd' = [ssd EXCEPT ![s] = b]
        /\ IF "DIRTY" \in cache_state[s]
           THEN EndIo(b, FALSE, b) /\ FinishIo(s, FALSE, None) /\ UNCHANGED mdVars
           ELSE MdWrite(s) /\ UNCHANGED <<bio, ghostVars>>
        /\ UNCHANGED bypass_cache
     \/ /\ MayFail("ssd_write")
        /\ ssd' \in {ssd, [ssd EXCEPT ![s] = b]}
        /\ FailBio(s)
        /\ UNCHANGED mdVars
  /\ UNCHANGED <<dbn, hashed, invalid_list, pending, flash_md, disk, crashes>>

(* A write to the cache and the disk in write-through mode; an error of    *)
(* either counts as a disk error and ends the bio.                         *)
WriteThroughDone(s) ==
  LET b == job[s].bio
      ssdNew  == [ssd EXCEPT ![s] = b]
      diskNew == [disk EXCEPT ![dbn[s]] = b] IN
  /\ CacheMode = "WRITE_THROUGH"
  /\ InIo(s, "WRITECACHE")
  /\ \/ /\ ssd' = ssdNew /\ disk' = diskNew
        /\ EndIo(b, FALSE, b)
        /\ FinishIo(s, FALSE, None)
        /\ UNCHANGED bypass_cache
     \/ /\ MayFail("ssd_write") \/ MayFail("disk_write")
        /\ ssd' \in {ssd, ssdNew} /\ disk' \in {disk, diskNew}
        /\ EndIo(b, TRUE, b)
        /\ FinishIo(s, TRUE, None)
        /\ bypass_cache' = TRUE
  /\ UNCHANGED <<dbn, hashed, invalid_list, pending, mdVars, flash_md, crashes>>

-----------------------------------------------------------------------------
(* Writeback of dirty blocks                                               *)

(* flashcache_clean_set and flashcache_sync_blocks pick idle dirty blocks  *)
(* and mark them under the lock; which ones is a matter of policy.         *)
CleanSet(S) ==
  /\ S # {}
  /\ \A s \in S : "DIRTY" \in cache_state[s] /\ ~Busy(s)
  /\ cache_state' = [s \in Slots |-> IF s \in S THEN cache_state[s] \cup {"DISKWRITEINPROG"}
                                                ELSE cache_state[s]]
  /\ job' = [s \in Slots |-> IF s \in S THEN Job("WRITEDISK", "wb", None) ELSE job[s]]
  /\ UNCHANGED <<dbn, hashed, invalid_list, pending, mdVars, devVars, bio,
                 bypass_cache, crashes, ghostVars>>

(* flashcache_dirty_writeback: kcopyd copies the block to the disk.        *)
DirtyWriteback(s) ==
  /\ job[s].phase = "wb"
  /\ job' = [job EXCEPT ![s].phase = "io"]
  /\ UNCHANGED <<cache_state, dbn, hashed, invalid_list, pending, mdVars,
                 devVars, bio, bypass_cache, crashes, ghostVars>>

DirtyWritebackFails(s) ==
  /\ MayFail("job_alloc")
  /\ job[s].phase = "wb"
  /\ bio' = SetStatus(pending[s], "eio")
  /\ pending' = [pending EXCEPT ![s] = {}]
  /\ cache_state' = [cache_state EXCEPT ![s] = @ \ BlockIoInprog]
  /\ job' = [job EXCEPT ![s] = NoJob]
  /\ UNCHANGED <<dbn, hashed, invalid_list, mdVars, devVars, bypass_cache,
                 crashes, ghostVars>>

(* flashcache_kcopyd_callback: the metadata update that marks the block    *)
(* clean follows the copy; a copy that fails leaves the block dirty.       *)
KcopydDone(s) ==
  LET diskNew == [disk EXCEPT ![dbn[s]] = ssd[s]] IN
  /\ InIo(s, "WRITEDISK")
  /\ \/ disk' = diskNew /\ MdWrite(s)
     \/ /\ \/ MayFail("ssd_read") /\ UNCHANGED disk
           \/ MayFail("disk_write") /\ disk' \in {disk, diskNew}
        /\ job' = [job EXCEPT ![s].phase = "pend", ![s].err = TRUE]
        /\ UNCHANGED <<cache_state, mdVars>>
  /\ UNCHANGED <<dbn, hashed, invalid_list, pending, ssd, flash_md, bio,
                 bypass_cache, crashes, ghostVars>>

-----------------------------------------------------------------------------
(* The metadata updates of the md block                                    *)

MdRecordFromMemory(s, S) ==
  [dbn |-> dbn[s], state |-> cache_state[s] \cap {"VALID", "INVALID", "DIRTY"}]

(* The flash_cacheblock kickoff writes for slot s when the write carries   *)
(* the updates of the slots in S.                                          *)
MdRecord(s, S) ==
  [dbn |-> dbn[s],
   state |-> IF s \notin S THEN cache_state[s] \cap {"VALID", "INVALID", "DIRTY"}
             ELSE IF job[s].act = "WRITECACHE" THEN {"VALID", "DIRTY"}
             ELSE {"VALID"}]

(* Refuted variant: the queued updates stay on the queue as well.          *)
MdKickoffKeepsQueue ==
  /\ md_phase = "kickoff"
  /\ md_phase' = "io"
  /\ md_io' = md_io \cup md_queue
  /\ md_image' = [s \in Slots |-> MdRecord(s, md_io \cup md_queue)]
  /\ UNCHANGED <<slotVars, md_queue, md_error, devVars, bio, bypass_cache,
                 crashes, ghostVars>>

(* flashcache_md_write_kickoff: the queued updates join the write.         *)
MdKickoff ==
  /\ md_phase = "kickoff"
  /\ md_phase' = "io"
  /\ md_io' = md_io \cup md_queue
  /\ md_queue' = {}
  /\ md_image' = [s \in Slots |-> MdRecord(s, md_io \cup md_queue)]
  /\ UNCHANGED <<slotVars, md_error, devVars, bio, bypass_cache, crashes, ghostVars>>

(* Refuted variant: the update is over, and nobody is told that it failed. *)
MdKickoffFailsSilently ==
  /\ MayFail("md_alloc")
  /\ md_phase = "kickoff"
  /\ md_phase' = "done"
  /\ UNCHANGED <<slotVars, md_error, md_io, md_queue, md_image, devVars, bio,
                 bypass_cache, crashes, ghostVars>>

(* No page for the md block: only the first update fails.                  *)
MdKickoffFails ==
  /\ MayFail("md_alloc")
  /\ md_phase = "kickoff"
  /\ md_phase' = "done"
  /\ md_error' = TRUE
  /\ UNCHANGED <<slotVars, md_io, md_queue, md_image, devVars, bio,
                 bypass_cache, crashes, ghostVars>>

(* flashcache_md_write_callback: a write that fails may still have reached *)
(* the flash.                                                              *)
MdWriteCallback ==
  /\ md_phase = "io"
  /\ md_phase' = "done"
  /\ md_error' \in Outcome("md_write")
  /\ \/ flash_md' = md_image
     \/ md_error' /\ UNCHANGED flash_md
  /\ md_image' = BlankMd
  /\ UNCHANGED <<slotVars, md_io, md_queue, ssd, disk, bio,
                 bypass_cache, crashes, ghostVars>>

(* Refuted variant: the block is released whatever the outcome.            *)
MdJobDoneReleases(s) ==
  /\ md_phase = "done"
  /\ s \in md_io
  /\ md_io' = md_io \ {s}
  /\ cache_state' = [cache_state EXCEPT ![s] = @ \ BlockIoInprog]
  /\ job' = [job EXCEPT ![s].phase = "pend", ![s].err = md_error]
  /\ IF job[s].act = "WRITECACHE"
     THEN EndIo(job[s].bio, md_error, job[s].bio)
     ELSE UNCHANGED <<bio, ghostVars>>
  /\ UNCHANGED <<dbn, hashed, invalid_list, pending, md_phase, md_queue, md_image,
                 md_error, devVars, bypass_cache, crashes>>

(* One turn of the loop of flashcache_md_write_done.                       *)
MdJobDone(s) ==
  /\ md_phase = "done"
  /\ s \in md_io
  /\ md_io' = md_io \ {s}
  /\ LET bits == IF md_error THEN cache_state[s]
                 ELSE IF job[s].act = "WRITECACHE" THEN cache_state[s] \cup {"DIRTY"}
                 ELSE cache_state[s] \ {"DIRTY"} IN
     IF md_error \/ pending[s] # {}
     THEN /\ job' = [job EXCEPT ![s].phase = "pend", ![s].err = md_error]
          /\ cache_state' = [cache_state EXCEPT ![s] = bits]
     ELSE /\ job' = [job EXCEPT ![s] = NoJob]
          /\ cache_state' = [cache_state EXCEPT ![s] = bits \ BlockIoInprog]
  /\ IF job[s].act = "WRITECACHE"
     THEN EndIo(job[s].bio, md_error, job[s].bio)
     ELSE UNCHANGED <<bio, ghostVars>>
  /\ UNCHANGED <<dbn, hashed, invalid_list, pending, md_phase, md_queue, md_image,
                 md_error, devVars, bypass_cache, crashes>>

(* Refuted variant: the next queued update is not kicked off.              *)
MdWriteDoneForgets ==
  /\ md_phase = "done"
  /\ md_io = {}
  /\ md_error' = FALSE
  /\ md_phase' = "idle"
  /\ UNCHANGED <<slotVars, md_io, md_queue, md_image, devVars, bio, bypass_cache,
                 crashes, ghostVars>>

(* The end of flashcache_md_write_done: kick off the next queued update.   *)
MdWriteDone ==
  /\ md_phase = "done"
  /\ md_io = {}
  /\ md_error' = FALSE
  /\ \/ /\ md_queue = {}
        /\ md_phase' = "idle"
        /\ UNCHANGED <<md_io, md_queue>>
     \/ \E s \in md_queue :
          /\ md_phase' = "kickoff"
          /\ md_io' = {s}
          /\ md_queue' = md_queue \ {s}
  /\ UNCHANGED <<slotVars, md_image, devVars, bio, bypass_cache, crashes, ghostVars>>

-----------------------------------------------------------------------------
(* flashcache_do_pending                                                   *)

(* Refuted variants: the block keeps its place on the hash; a block that   *)
(* failed stays valid; a dirty block is given up.                          *)
GiveUpKeepsHash(s) ==
  /\ job' = [job EXCEPT ![s] = NoJob]
  /\ pending' = [pending EXCEPT ![s] = {}]
  /\ cache_state' = [cache_state EXCEPT ![s] = {"INVALID"}]
  /\ invalid_list' = invalid_list \cup {s}
  /\ UNCHANGED hashed
GiveUpKeepsBlock(s) ==
  /\ job' = [job EXCEPT ![s] = NoJob]
  /\ pending' = [pending EXCEPT ![s] = {}]
  /\ cache_state' = [cache_state EXCEPT ![s] = @ \ BlockIoInprog]
  /\ UNCHANGED <<hashed, invalid_list>>
GiveUpDropsDirty(s) ==
  /\ job' = [job EXCEPT ![s] = NoJob]
  /\ pending' = [pending EXCEPT ![s] = {}]
  /\ cache_state' = [cache_state EXCEPT ![s] = {"INVALID"}]
  /\ hashed' = hashed \ {s}
  /\ invalid_list' = invalid_list \cup {s}

(* The block is given up unless it is dirty.                               *)
GiveUpUnlessDirty(s) ==
  /\ job' = [job EXCEPT ![s] = NoJob]
  /\ pending' = [pending EXCEPT ![s] = {}]
  /\ IF "DIRTY" \in cache_state[s]
     THEN /\ cache_state' = [cache_state EXCEPT ![s] = @ \ BlockIoInprog]
          /\ UNCHANGED <<hashed, invalid_list>>
     ELSE /\ cache_state' = [cache_state EXCEPT ![s] = {"INVALID"}]
          /\ hashed' = hashed \ {s}
          /\ invalid_list' = invalid_list \cup {s}

(* flashcache_do_pending_error without a bio: the queued bios fail.        *)
DoPendingError(s) ==
  /\ job[s].phase = "pend" /\ job[s].err /\ job[s].bio = None
  /\ GiveUpUnlessDirty(s)
  /\ bio' = SetStatus(pending[s], "eio")
  /\ UNCHANGED <<dbn, mdVars, devVars, bypass_cache, crashes, ghostVars>>

(* ... with a bio: it and the queued bios go to the disk.  The VERIFY on   *)
(* the cache mode halts the machine in write-back mode.                    *)
DoPendingErrorRetry(s) ==
  /\ job[s].phase = "pend" /\ job[s].err /\ job[s].bio # None
  /\ CacheMode # "WRITE_BACK"
  /\ GiveUpUnlessDirty(s)
  /\ \E F \in SUBSET (pending[s] \cup {job[s].bio}) :
       /\ F # {} => MayFail("job_alloc")
       /\ bio' = [b \in Bios |->
                   IF b \in F THEN [bio[b] EXCEPT !.st = "eio"]
                   ELSE IF b \in pending[s] \cup {job[s].bio}
                   THEN [bio[b] EXCEPT !.st = "disk"] ELSE bio[b]]
  /\ UNCHANGED <<dbn, mdVars, devVars, bypass_cache, crashes, ghostVars>>

(* flashcache_do_pending_noerror: a dirty block is first cleaned; a clean  *)
(* one leaves the hash and stays in limbo, still marked in progress, while *)
(* its queue is drained with the lock dropped.                             *)
DoPendingDirty(s) ==
  /\ job[s].phase = "pend" /\ ~job[s].err
  /\ "DIRTY" \in cache_state[s]
  /\ cache_state' = [cache_state EXCEPT ![s] = (@ \ BlockIoInprog) \cup {"DISKWRITEINPROG"}]
  /\ job' = [job EXCEPT ![s] = Job("WRITEDISK", "wb", None)]
  /\ UNCHANGED <<dbn, hashed, invalid_list, pending, mdVars, devVars, bio,
                 bypass_cache, crashes, ghostVars>>

DoPendingClean(s) ==
  /\ job[s].phase = "pend" /\ ~job[s].err
  /\ "DIRTY" \notin cache_state[s]
  /\ cache_state' = [cache_state EXCEPT ![s] = (@ \ {"VALID"}) \cup {"INVALID"}]
  /\ hashed' = hashed \ {s}
  /\ job' = [job EXCEPT ![s].phase = "limbo", ![s].bio = None]
  /\ UNCHANGED <<dbn, invalid_list, pending, mdVars, devVars, bio, bypass_cache,
                 crashes, ghostVars>>

(* One queued bio goes to the disk; one that was queued by an invalidation *)
(* first invalidates again, and may end up on the queue of another block.  *)
DrainPending(s, b) ==
  /\ job[s].phase = "limbo"
  /\ b \in pending[s]
  /\ bio[b].st = "queued_inval" => Conflicts(bio[b].dbn) = {}
  /\ pending' = [pending EXCEPT ![s] = @ \ {b}]
  /\ \E st \in StartUncached : bio' = SetStatus({b}, st)
  /\ IF bio[b].st = "queued_inval"
     THEN InvalidateClean(bio[b].dbn)
     ELSE UNCHANGED <<cache_state, hashed, invalid_list>>
  /\ UNCHANGED <<dbn, job, mdVars, devVars, bypass_cache, crashes, ghostVars>>

DrainPendingConflict(s, b) ==
  /\ job[s].phase = "limbo"
  /\ b \in pending[s]
  /\ bio[b].st = "queued_inval"
  /\ \E t \in Conflicts(bio[b].dbn) :
       /\ pending' = [pending EXCEPT ![s] = @ \ {b}, ![t] = @ \cup {b}]
       /\ CleanForInvalidate(t)
  /\ UNCHANGED <<dbn, hashed, invalid_list, mdVars, devVars, bio, bypass_cache,
                 crashes, ghostVars>>

(* No memory to requeue it: the bio fails.                                 *)
DrainPendingFails(s, b) ==
  /\ MayFail("pjob_alloc")
  /\ job[s].phase = "limbo"
  /\ b \in pending[s]
  /\ bio[b].st = "queued_inval"
  /\ pending' = [pending EXCEPT ![s] = @ \ {b}]
  /\ bio' = SetStatus({b}, "eio")
  /\ UNCHANGED <<cache_state, dbn, hashed, invalid_list, job, mdVars, devVars,
                 bypass_cache, crashes, ghostVars>>

DrainDone(s) ==
  /\ job[s].phase = "limbo"
  /\ pending[s] = {}
  /\ cache_state' = [cache_state EXCEPT ![s] = @ \ BlockIoInprog]
  /\ invalid_list' = invalid_list \cup {s}
  /\ job' = [job EXCEPT ![s] = NoJob]
  /\ UNCHANGED <<dbn, hashed, pending, mdVars, devVars, bio, bypass_cache,
                 crashes, ghostVars>>

-----------------------------------------------------------------------------
(* Uncached I/O                                                            *)

(* flashcache_uncached_io_callback                                         *)
UncachedIoDone(b) ==
  LET d == bio[b].dbn
      diskNew == [disk EXCEPT ![d] = b] IN
  /\ bio[b].st = "disk"
  /\ \E error \in Outcome(IF IsWrite(b) THEN "disk_write" ELSE "disk_read") :
       /\ IF IsWrite(b)
          THEN disk' = diskNew \/ (error /\ UNCHANGED disk)
          ELSE UNCHANGED disk
       /\ bio' = [bio EXCEPT ![b].st = "disk_done", ![b].err = error,
                             ![b].val = IF IsWrite(b) THEN b ELSE disk[d]]
  /\ UNCHANGED <<slotVars, mdVars, ssd, flash_md, bypass_cache, crashes, ghostVars>>

(* Refuted variant: no second invalidation.                                *)
UncachedIoCompleteNoInval(b) ==
  /\ bio[b].st = "disk_done"
  /\ EndIo(b, bio[b].err, bio[b].val)
  /\ UNCHANGED <<slotVars, mdVars, devVars, bypass_cache, crashes>>

(* flashcache_uncached_io_complete invalidates again, since the block may  *)
(* have been cached while the I/O was out; on a conflict the bio is queued *)
(* to be executed again.                                                   *)
UncachedIoComplete(b) ==
  /\ bio[b].st = "disk_done"
  /\ Conflicts(bio[b].dbn) = {}
  /\ InvalidateClean(bio[b].dbn)
  /\ EndIo(b, bio[b].err, bio[b].val)
  /\ UNCHANGED <<dbn, pending, job, mdVars, devVars, bypass_cache, crashes>>

UncachedIoRequeue(b) ==
  /\ bio[b].st = "disk_done"
  /\ \E s \in Conflicts(bio[b].dbn) :
       /\ pending' = [pending EXCEPT ![s] = @ \cup {b}]
       /\ CleanForInvalidate(s)
  /\ bio' = [bio EXCEPT ![b].st = "queued_inval", ![b].err = FALSE]
  /\ UNCHANGED <<dbn, hashed, invalid_list, mdVars, devVars, bypass_cache,
                 crashes, ghostVars>>

UncachedIoCompleteFails(b) ==
  /\ MayFail("pjob_alloc")
  /\ bio[b].st = "disk_done"
  /\ bio' = SetStatus({b}, "eio")
  /\ UNCHANGED <<slotVars, mdVars, devVars, bypass_cache, crashes, ghostVars>>

-----------------------------------------------------------------------------
(* A crash and the reload                                                  *)

(* What is left of block d when memory is lost.                            *)
DirtyOnFlash(d) == {s \in Slots : flash_md[s].dbn = d /\ "DIRTY" \in flash_md[s].state}
Recovered(d) ==
  IF DirtyOnFlash(d) # {} THEN {ssd[s] : s \in DirtyOnFlash(d)} ELSE {disk[d]}

(* Power is lost and the cache is loaded again.  Writes that were out may  *)
(* have landed; where landing and acknowledging are one step of the model  *)
(* (write hits, write-through) the crash itself says whether they did.     *)
(* flashcache_writeback_load keeps only the blocks that are dirty on       *)
(* flash; flashcache_writethrough_create starts with an empty cache.       *)
Crash ==
  /\ crashes < MaxCrashes
  /\ crashes' = crashes + 1
  /\ LET reload == IF CacheMode = "WRITE_BACK"
                   THEN {s \in Slots : "DIRTY" \in flash_md[s].state} ELSE {} IN
     /\ cache_state' = [s \in Slots |-> IF s \in reload THEN flash_md[s].state ELSE {"INVALID"}]
     /\ dbn' = [s \in Slots |-> IF s \in reload THEN flash_md[s].dbn ELSE None]
     /\ hashed' = reload
     /\ invalid_list' = Slots \ reload
  /\ \E L \in SUBSET {s \in Slots : InIo(s, "WRITECACHE")} :
       ssd' = [s \in Slots |-> IF s \in L THEN job[s].bio ELSE ssd[s]]
  /\ \E L \in SUBSET {s \in Slots : InIo(s, "WRITECACHE") /\ CacheMode = "WRITE_THROUGH"} :
       disk' = [d \in Dbns |-> IF \E s \in L : dbn[s] = d
                               THEN job[CHOOSE s \in L : dbn[s] = d].bio ELSE disk[d]]
  /\ pending' = [s \in Slots |-> {}]
  /\ job' = [s \in Slots |-> NoJob]
  /\ md_phase' = "idle" /\ md_io' = {} /\ md_queue' = {} /\ md_error' = FALSE
  /\ bio' = SetStatus({b \in Bios : Active(b)}, "lost")
  /\ md_image' = BlankMd
  /\ bypass_cache' = FALSE
  /\ UNCHANGED <<flash_md, seen>>
  /\ live' = [d \in Dbns |-> live[d] \cap Recovered(d)']

-----------------------------------------------------------------------------
BioArrives(b) ==
  \E d \in Dbns, dir \in {"READ", "WRITE"} :
    \/ MapUncached(b, d, dir) \/ MapUncachedConflict(b, d, dir) \/ MapFails(b, d, dir)
    \/ MapHit(b, d, dir) \/ MapHitBusy(b, d, dir) \/ MapMiss(b, d, dir)

SlotStep(s) ==
  \/ StartJob(s) \/ StartJobFails(s)
  \/ ReadDiskDone(s) \/ ReadFillDone(s) \/ ReadCacheDone(s)
  \/ WriteCacheDone(s) \/ WriteThroughDone(s)
  \/ DirtyWriteback(s) \/ DirtyWritebackFails(s) \/ KcopydDone(s)
  \/ DoPendingError(s) \/ DoPendingErrorRetry(s)
  \/ DoPendingDirty(s) \/ DoPendingClean(s) \/ DrainDone(s)
  \/ \E b \in Bios : DrainPending(s, b) \/ DrainPendingConflict(s, b)
                     \/ DrainPendingFails(s, b)

MdStep == MdKickoff \/ MdKickoffFails \/ MdWriteCallback \/ MdWriteDone
          \/ \E s \in Slots : MdJobDone(s)

UncachedStep(b) == \/ UncachedIoDone(b) \/ UncachedIoComplete(b)
                   \/ UncachedIoRequeue(b) \/ UncachedIoCompleteFails(b)

Next ==
  \/ \E b \in Bios : BioArrives(b) \/ UncachedStep(b)
  \/ \E s \in Slots : SlotStep(s)
  \/ \E S \in SUBSET Slots : CleanSet(S)
  \/ MdStep
  \/ Crash

Spec == Init /\ [][Next]_vars

(* Device I/O completes, the work queue runs what is queued on it, and the *)
(* updates queued on the md block get their turn: the code queues them at  *)
(* the tail and takes the one at the head.                                 *)
Fairness ==
  /\ \A s \in Slots : WF_vars(SlotStep(s))
  /\ \A b \in Bios : WF_vars(UncachedStep(b))
  /\ WF_vars(MdStep)
  /\ \A s \in Slots : SF_vars(MdWriteDone /\ md_io' = {s})

FairSpec == Spec /\ Fairness

-----------------------------------------------------------------------------
(* The variables keep their shapes: in particular what is written to flash *)
(* holds only persistent bits (kickoff masks the INPROG bits out), and a   *)
(* block's data is always that of some bio or of the disk.                 *)
JobType == [act : Actions \cup {"none"}, phase : Phases \cup {"none"},
            bio : Bios \cup {None}, err : BOOLEAN]
MdType == [dbn : Dbns \cup {None}, state : MdStates]
BioType == [st : BioStatus, dir : {"READ", "WRITE"}, dbn : Dbns \cup {None},
            val : Values \cup {None}, err : BOOLEAN]

SlotTypeOK ==
  /\ cache_state \in [Slots -> SUBSET StateBits]
  /\ dbn \in [Slots -> Dbns \cup {None}]
  /\ hashed \in SUBSET Slots
  /\ invalid_list \in SUBSET Slots
  /\ pending \in [Slots -> SUBSET Bios]
JobTypeOK == job \in [Slots -> JobType]
MdTypeOK ==
  /\ md_phase \in {"idle", "kickoff", "io", "done"}
  /\ md_io \in SUBSET Slots
  /\ md_queue \in SUBSET Slots
  /\ md_image \in [Slots -> MdType]
  /\ md_error \in BOOLEAN
DevTypeOK ==
  /\ ssd \in [Slots -> Values \cup {None}]
  /\ flash_md \in [Slots -> MdType]
  /\ disk \in [Dbns -> Values \cup {None}]
BioTypeOK == bio \in [Bios -> BioType]
GhostTypeOK ==
  /\ live \in [Dbns -> SUBSET Values]
  /\ seen \in [Bios -> SUBSET Values]

TypeOK == /\ SlotTypeOK /\ JobTypeOK /\ MdTypeOK /\ DevTypeOK /\ BioTypeOK
          /\ GhostTypeOK /\ bypass_cache \in BOOLEAN /\ crashes \in Nat

-----------------------------------------------------------------------------
(* Safety                                                                  *)

(* Every acknowledged write survives a crash: at any moment, what the      *)
(* reload after a crash would find for a block (its data in the slot that  *)
(* is dirty on flash, or else on the disk) is a value that no              *)
(* acknowledged write has superseded.                                      *)
Durable == \A d \in Dbns : Recovered(d) \subseteq live[d]

(* A read that succeeds returns the last write acknowledged before it      *)
(* started, or a write that overlaps it, whichever of the cache, the disk  *)
(* or a replay after an invalidation served it.                            *)
ReadsCurrent ==
  \A b \in Bios : bio[b].st = "ok" /\ ~IsWrite(b) => bio[b].val \in seen[b]

(* The metadata on flash is never behind memory: a block that is dirty in  *)
(* memory is dirty on flash, for the same disk block, from the moment the  *)
(* write that dirtied it is acknowledged until the metadata write that     *)
(* cleans it is over; and no disk block is dirty in two slots.             *)
CleanLanded(s) == s \in md_io /\ md_phase = "done" /\ job[s].act = "WRITEDISK"
FlashMdCurrent ==
  /\ \A s \in Slots : "DIRTY" \in cache_state[s] /\ ~CleanLanded(s) =>
       flash_md[s] = [dbn |-> dbn[s], state |-> {"VALID", "DIRTY"}]
  /\ \A s, t \in Slots :
       "DIRTY" \in flash_md[s].state /\ "DIRTY" \in flash_md[t].state
         /\ flash_md[s].dbn = flash_md[t].dbn => s = t

(* The hash holds exactly the valid blocks, at most one for a disk block,  *)
(* and every other block is on the invalid list or in limbo: no block is   *)
(* lost to the set, and none can be found twice or reused while I/O to it  *)
(* is in progress (flashcache_hash_lookup, flashcache_invalid_insert).     *)
SetPartition ==
  /\ \A s \in Slots : ("VALID" \in cache_state[s]) # ("INVALID" \in cache_state[s])
  /\ hashed = {s \in Slots : "VALID" \in cache_state[s]}
  /\ \A s, t \in hashed : dbn[s] = dbn[t] => s = t
  /\ invalid_list = {s \in Slots : cache_state[s] = {"INVALID"}}

(* A bio waits on a block only while something is in progress on the block *)
(* whose completion will look at the queue, and it waits on one block      *)
(* only ("We cannot turn that off until all the pending requests           *)
(* processed", flashcache_io_callback).                                    *)
PendingInProgress ==
  /\ \A s \in Slots : pending[s] # {} => Busy(s)
  /\ \A b \in Bios : bio[b].st \in {"queued", "queued_inval"} =>
       \E s \in Slots : b \in pending[s] /\ \A t \in Slots \ {s} : b \notin pending[t]

(* The VERIFYs of the handlers hold whenever the handler runs.             *)
VerifyIoCallback(s) ==
  job[s].phase = "io" => /\ InprogBit(job[s].act) \in cache_state[s]
                         /\ (job[s].bio = None) = (job[s].act = "WRITEDISK")
VerifyWriteback(s) ==
  job[s].phase = "wb" => /\ cache_state[s] \cap BlockIoInprog = {"DISKWRITEINPROG"}
                         /\ "DIRTY" \in cache_state[s]
VerifyMdWriteDone(s) ==
  job[s].phase = "md" => /\ job[s].act \in {"WRITECACHE", "WRITEDISK"}
                         /\ job[s].act = "WRITEDISK" => "DIRTY" \in cache_state[s]
VerifyDoPending(s) ==
  job[s].phase = "pend" =>
    /\ "VALID" \in cache_state[s]
    /\ "DIRTY" \in cache_state[s] => CacheMode = "WRITE_BACK"
    /\ job[s].err /\ job[s].bio # None => CacheMode # "WRITE_BACK"
VerifyLimbo(s) ==
  job[s].phase = "limbo" => cache_state[s] \ BlockIoInprog = {"INVALID"}
VerifyHolds ==
  \A s \in Slots : /\ VerifyIoCallback(s) /\ VerifyWriteback(s)
                   /\ VerifyMdWriteDone(s) /\ VerifyDoPending(s) /\ VerifyLimbo(s)

(* An idle clean block agrees with the disk, unless an uncached write to   *)
(* its disk block is out, whose completion will invalidate it ("What we    *)
(* try to avoid here is inconsistencies between disk and the ssd cache"),  *)
(* or one was reported to have failed: the write may be on the disk, and   *)
(* the invalidation may not have found the memory to wait for a busy copy. *)
CleanAgreesWithDisk ==
  \A s \in Slots :
    cache_state[s] = {"VALID"}
      /\ ~(\E b \in Bios : bio[b].st \in {"disk", "disk_done", "eio"} /\ IsWrite(b)
                           /\ bio[b].dbn = dbn[s])
    => ssd[s] = disk[dbn[s]]

-----------------------------------------------------------------------------
(* Action properties and liveness                                          *)

(* While a block is being written back, neither its identity nor its data  *)
(* changes, nor is it taken for clean before the copy is on the disk ("A   *)
(* block marked DISKWRITEINPROG cannot change underneath us").             *)
StableDuringWriteback ==
  [][\A s \in Slots :
       "DISKWRITEINPROG" \in cache_state[s] /\ crashes' = crashes =>
         /\ dbn'[s] = dbn[s] /\ ssd'[s] = ssd[s]
         /\ "DIRTY" \in cache_state[s] /\ "DIRTY" \notin cache_state'[s] =>
              CleanLanded(s) /\ ~md_error]_vars

(* Every bio that is accepted ends, whatever fails, unless a VERIFY of the *)
(* I/O path stops the machine.                                             *)
EveryBioEnds == \A b \in Bios : Active(b) ~> ~Active(b) \/ ~VerifyHolds

(* Flashcache implements the block device.                                 *)
AbstractReq ==
  [b \in Bios |->
    [st |-> IF Active(b) THEN "out" ELSE bio[b].st, dir |-> bio[b].dir,
     dbn |-> bio[b].dbn,
     val |-> IF bio[b].st = "ok" /\ ~IsWrite(b) THEN bio[b].val ELSE None]]

Device == INSTANCE BlockDevice WITH req <- AbstractReq
ImplementsBlockDevice == Device!Spec
=============================================================================
