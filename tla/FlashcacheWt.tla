---------------------------- MODULE FlashcacheWt ----------------------------
(***************************************************************************)
(* The stand-alone write-through and write-around cache, flashcache-wt     *)
(* (flashcache-wt/src/flashcache_wt.c): its own state machine for a block, *)
(* in which nothing is queued on a busy block.  A bio that meets one marks *)
(* it INPROG_INVALID and goes to the disk by itself.                       *)
(*                                                                         *)
(* Every stretch of code under cache_spin_lock is one action.  A callback  *)
(* takes the lock twice and ends its bio in between, so it is two; and if  *)
(* its job is the last one, waking the destructor of the cache is a third. *)
(***************************************************************************)
EXTENDS Integers, FiniteSets

CONSTANTS
  Size,         \* dmc->size: the slots are 0..Size-1
  Assoc,        \* dmc->assoc
  Dbns,         \* the blocks of the disk
  SetOfDbn(_),  \* hash_block: the set of a block
  Bios,         \* the submitters of bios, each with one bio at a time
  None,         \* no block
  write_around_mode,  \* dmc->write_around_mode
  Faults        \* the faults the environment may inject

Slots == 0..Size-1
SetOf(i) == i \div Assoc
Sets == {SetOf(i) : i \in Slots}
SlotsOf(t) == {i \in Slots : SetOf(i) = t}

ASSUME WtAssumption ==
  /\ Size \in Nat \ {0} /\ Assoc \in Nat \ {0} /\ Size % Assoc = 0
  /\ None \notin Dbns
  /\ \A d \in Dbns : SetOfDbn(d) \in Sets
  /\ IsFiniteSet(Bios) /\ write_around_mode \in BOOLEAN
  /\ Faults \subseteq {"job_alloc", "disk", "ssd"}

VARIABLES
  alive,             \* the cache context exists
  apart,             \* the submitters keep the bios to a block apart
  cache,             \* cache[i]: the dbn and the cache_state of slot i, and its data
  set_lru_next,      \* set_lru_next[t]: where the next reclaim in set t starts
  nr_jobs,           \* the jobs in progress
  bio                \* bio[b]: the bio of submitter b, and its kcached_job

vars == <<alive, apart, cache, set_lru_next, nr_jobs, bio>>
context == <<alive, apart>>

States == {"INVALID", "VALID", "INPROG", "CACHEREADINPROG", "INPROG_INVALID"}
Usable == {"VALID", "INPROG", "CACHEREADINPROG"}
Source == {"READSOURCE", "WRITESOURCE"}
Uses == Source \cup {"READCACHE", "WRITECACHE", "READCACHE_DONE"}

(* rw is the job's, and io how far it is: still to be served by the        *)
(* device, served, or ended with the job still to be released.             *)
(* fresh, of a bio and of a slot, says that its data is what the disk      *)
(* holds of the block now.                                                 *)
NoBio == [rw |-> "none", io |-> "new", write |-> FALSE, dbn |-> None,
          index |-> -1, err |-> FALSE, fresh |-> FALSE]

(* The callback has given up the count of the last job; of its bio and its *)
(* job nothing is left, but it still has to wake the destructor.           *)
Waking == [NoBio EXCEPT !.rw = "WAKEUP"]

(* The bio of b is out, or its job still has a slot or a count.            *)
Out(b) == bio[b].rw \notin {"none", "WAKEUP"}

Empty == [dbn |-> None, state |-> "INVALID", fresh |-> FALSE]

MayFail(f) == f \in Faults
Errors(f) == IF MayFail(f) THEN BOOLEAN ELSE {FALSE}

Init ==
  /\ alive = FALSE
  /\ apart \in BOOLEAN
  /\ cache = [i \in Slots |-> Empty]
  /\ set_lru_next = [t \in Sets |-> t * Assoc]
  /\ nr_jobs = 0
  /\ bio = [b \in Bios |-> NoBio]

(* cache_ctr: nothing of an earlier life is used.                          *)
Construct ==
  /\ ~alive
  /\ alive' = TRUE
  /\ cache' = [i \in Slots |-> Empty]
  /\ set_lru_next' = [t \in Sets |-> t * Assoc]
  /\ nr_jobs' = 0
  /\ UNCHANGED <<apart, bio>>

(* cache_dtr: the device-mapper has seen every bio end, and the wait in    *)
(* kcached_client_destroy is for nr_jobs alone.  If that is 0 already it   *)
(* does not sleep, and does not wait for the callback that wakes it.       *)
Destroy ==
  /\ alive
  /\ \A b \in Bios : Out(b) => bio[b].io = "ended"
  /\ nr_jobs = 0
  /\ alive' = FALSE
  /\ UNCHANGED <<apart, cache, set_lru_next, nr_jobs, bio>>

-----------------------------------------------------------------------------
(* Lookup and invalidation, under cache_spin_lock                          *)

In(C, t, S) == {i \in SlotsOf(t) : C[i].state \in S}

(* find_valid_dbn: an INPROG_INVALID slot is passed over.                  *)
FindValid(C, d) == {i \in In(C, SetOfDbn(d), Usable) : C[i].dbn = d}

(* find_invalid_dbn: the first such slot.                                  *)
FindInvalid(C, t) ==
  {i \in In(C, t, {"INVALID"}) : \A j \in In(C, t, {"INVALID"}) : i <= j}

(* Refuted variant: any slot that is not on its way in may be recycled.    *)
ReclaimBusy(C, t) == In(C, t, {"VALID", "CACHEREADINPROG"})

(* find_reclaim_dbn: the next VALID slot from set_lru_next on.             *)
FindReclaim(C, t) ==
  LET Distance(i) == (i - set_lru_next[t] + Assoc) % Assoc
  IN {i \in In(C, t, {"VALID"}) :
        \A j \in In(C, t, {"VALID"}) : Distance(i) <= Distance(j)}

After(i) == IF (i + 1) % Assoc = 0 THEN i + 1 - Assoc ELSE i + 1

(* cache_invalidate_blocks: an idle copy is dropped, one in use is marked. *)
Invalidated(C, d) ==
  [i \in Slots |->
     IF i \notin FindValid(C, d) THEN C[i]
     ELSE IF C[i].state = "VALID" THEN Empty
     ELSE [C[i] EXCEPT !.state = "INPROG_INVALID"]]

InUse(C, d) == \E i \in FindValid(C, d) : C[i].state # "VALID"

-----------------------------------------------------------------------------
(* flashcache_wt_map                                                       *)

Arriving(d, write) == [NoBio EXCEPT !.dbn = d, !.write = write]

Uncached(b, arrived) == bio' = [bio EXCEPT ![b] = [arrived EXCEPT !.rw = "UNCACHED"]]

(* The rest of cache_lookup, after a miss: a slot is claimed for the block *)
(* before the lock is dropped, or the bio goes uncached.                   *)
Claim(b, arrived, C, rw) ==
  LET t == SetOfDbn(arrived.dbn)
      Claimed(i) ==
        /\ cache' = [C EXCEPT ![i] = [Empty EXCEPT !.dbn = arrived.dbn, !.state = "INPROG"]]
        /\ bio' = [bio EXCEPT ![b] = [arrived EXCEPT !.rw = rw, !.index = i]]
  IN \/ \E i \in FindInvalid(C, t) : Claimed(i) /\ UNCHANGED set_lru_next
     \/ /\ FindInvalid(C, t) = {}
        /\ \E i \in FindReclaim(C, t) :
             Claimed(i) /\ set_lru_next' = [set_lru_next EXCEPT ![t] = After(i)]
     \/ /\ FindInvalid(C, t) = {} /\ FindReclaim(C, t) = {}
        /\ set_lru_next' = [set_lru_next EXCEPT ![t] = After(@)]
        /\ Uncached(b, arrived) /\ cache' = C

(* cache_read of a block that is VALID.                                    *)
ReadHit(b, arrived) ==
  \E i \in FindValid(cache, arrived.dbn) :
    /\ cache[i].state = "VALID"
    /\ cache' = [cache EXCEPT ![i].state = "CACHEREADINPROG"]
    /\ bio' = [bio EXCEPT ![b] = [arrived EXCEPT !.rw = "READCACHE", !.index = i]]
    /\ UNCHANGED set_lru_next

(* Otherwise: the copies of the block are invalidated, and the read is     *)
(* uncached if one was in use.                                             *)
ReadMiss(b, arrived) ==
  /\ \A i \in FindValid(cache, arrived.dbn) : cache[i].state # "VALID"
  /\ \/ /\ InUse(cache, arrived.dbn)
        /\ cache' = Invalidated(cache, arrived.dbn)
        /\ Uncached(b, arrived) /\ UNCHANGED set_lru_next
     \/ ~InUse(cache, arrived.dbn) /\ Claim(b, arrived, cache, "READSOURCE")

(* cache_write: the new data always gets a slot of its own.                *)
CacheWrite(b, arrived) ==
  \/ /\ InUse(cache, arrived.dbn)
     /\ cache' = Invalidated(cache, arrived.dbn)
     /\ Uncached(b, arrived) /\ UNCHANGED set_lru_next
  \/ /\ ~InUse(cache, arrived.dbn)
     /\ Claim(b, arrived, Invalidated(cache, arrived.dbn), "WRITESOURCE")

(* Refuted variant: the copies are left to the completion to invalidate.   *)
PassAroundLate(b, arrived) ==
  Uncached(b, arrived) /\ UNCHANGED <<cache, set_lru_next>>

(* A bio that is not a whole block, or a write around the cache.           *)
PassAround(b, arrived) ==
  /\ cache' = Invalidated(cache, arrived.dbn)
  /\ Uncached(b, arrived) /\ UNCHANGED set_lru_next

(* The submitters may wait until a block has neither a bio nor a job       *)
(* before they submit another bio to it.                                   *)
Arrives(b, d) ==
  /\ alive /\ bio[b].rw = "none"
  /\ apart => \A c \in Bios : Out(c) => bio[c].dbn # d

Map(b, d) ==
  /\ Arrives(b, d)
  /\ \E write, whole \in BOOLEAN :
       LET arrived == Arriving(d, write) IN
       IF ~whole \/ (write /\ write_around_mode) THEN PassAround(b, arrived)
       ELSE IF write THEN CacheWrite(b, arrived)
       ELSE ReadHit(b, arrived) \/ ReadMiss(b, arrived)
  /\ UNCHANGED <<context, nr_jobs>>

-----------------------------------------------------------------------------
(* Jobs                                                                    *)

At(b, S, io) == bio[b].rw \in S /\ bio[b].io = io

Gone(b) == bio' = [bio EXCEPT ![b] = NoBio]

(* The count of a job whose bio has ended is given up, after its slot and  *)
(* its memory, and the job that brings nr_jobs to 0 has to wake the        *)
(* destructor (atomic_dec_and_test, then wake_up).                         *)
CountGivenUp(b) ==
  /\ nr_jobs' = nr_jobs - 1
  /\ bio' = [bio EXCEPT ![b] = IF nr_jobs = 1 THEN Waking ELSE NoBio]

Released(i, state) ==
  cache' = [cache EXCEPT ![i] = IF state = "INVALID" THEN Empty
                                ELSE [@ EXCEPT !.state = state]]

(* Refuted variant: the caller returns without ending the bio.             *)
NoJobForgets(b) ==
  /\ MayFail("job_alloc")
  /\ At(b, {"READCACHE", "READSOURCE", "WRITESOURCE", "UNCACHED"}, "new")
  /\ IF bio[b].rw = "UNCACHED" THEN UNCHANGED cache
     ELSE Released(bio[b].index, IF bio[b].rw = "READCACHE" THEN "VALID" ELSE "INVALID")
  /\ bio' = [bio EXCEPT ![b].io = "lost"]
  /\ UNCHANGED <<context, set_lru_next, nr_jobs>>

(* There is no memory: the claim is undone, and the bio ends with an error.*)
NoJob(b) ==
  /\ MayFail("job_alloc")
  /\ At(b, {"READCACHE", "READSOURCE", "WRITESOURCE", "UNCACHED"}, "new")
  /\ IF bio[b].rw = "UNCACHED" THEN UNCHANGED cache
     ELSE Released(bio[b].index, IF bio[b].rw = "READCACHE" THEN "VALID" ELSE "INVALID")
  /\ Gone(b)
  /\ UNCHANGED <<context, set_lru_next, nr_jobs>>

(* The job is allocated, counted and submitted.  Nothing else can tell     *)
(* this from the moment the disk serves it, a read ...                     *)
DiskReads(b) ==
  /\ At(b, {"READSOURCE", "UNCACHED"}, "new") /\ ~bio[b].write
  /\ \E err \in Errors("disk") :
       bio' = [bio EXCEPT ![b].io = "served", ![b].err = err, ![b].fresh = ~err]
  /\ nr_jobs' = nr_jobs + 1
  /\ UNCHANGED <<context, cache, set_lru_next>>

(* ... or a write, which may reach it even when it fails: what others have *)
(* of the block is old then.                                               *)
DiskWrites(b) ==
  /\ At(b, {"WRITESOURCE", "UNCACHED"}, "new") /\ bio[b].write
  /\ \E err \in Errors("disk"), lands \in BOOLEAN :
       /\ err \/ lands
       /\ bio' = [c \in Bios |->
            IF c = b THEN [bio[b] EXCEPT !.io = "served", !.err = err, !.fresh = lands]
            ELSE IF lands /\ bio[c].dbn = bio[b].dbn THEN [bio[c] EXCEPT !.fresh = FALSE]
            ELSE bio[c]]
       /\ cache' = [i \in Slots |->
            IF lands /\ cache[i].dbn = bio[b].dbn THEN [cache[i] EXCEPT !.fresh = FALSE]
            ELSE cache[i]]
  /\ nr_jobs' = nr_jobs + 1
  /\ UNCHANGED <<context, set_lru_next>>

(* The flash serves a read, or the write that fills a slot.                *)
FlashReads(b) ==
  /\ At(b, {"READCACHE"}, "new")
  /\ \E err \in Errors("ssd") :
       bio' = [bio EXCEPT ![b].io = "served", ![b].err = err,
                          ![b].fresh = ~err /\ cache[bio[b].index].fresh]
  /\ nr_jobs' = nr_jobs + 1
  /\ UNCHANGED <<context, cache, set_lru_next>>

FlashWrites(b) ==
  /\ At(b, {"WRITECACHE"}, "new")
  /\ \E err \in Errors("ssd") :
       /\ bio' = [bio EXCEPT ![b].io = "served", ![b].err = err]
       /\ cache' = [cache EXCEPT ![bio[b].index].fresh = bio[b].fresh /\ ~err]
  /\ UNCHANGED <<context, set_lru_next, nr_jobs>>

-----------------------------------------------------------------------------
(* flashcache_wt_io_callback, up to the end of the bio                     *)

State(b) == cache[bio[b].index].state

(* READSOURCE and WRITESOURCE: the bio ends here only if the block is not  *)
(* to be cached; otherwise do_io writes it to flash.                       *)
SourceDone(b) ==
  /\ At(b, Source, "served")
  /\ IF bio[b].err \/ State(b) # "INPROG"
     THEN bio' = [bio EXCEPT ![b].io = "ended"]
     ELSE bio' = [bio EXCEPT ![b].rw = "WRITECACHE", ![b].io = "new"]
  /\ UNCHANGED <<context, cache, set_lru_next, nr_jobs>>

(* READCACHE: a read that failed, or whose block was invalidated, is       *)
(* bounced to the disk.                                                    *)
ReadCacheDone(b) ==
  /\ At(b, {"READCACHE"}, "served")
  /\ IF bio[b].err \/ State(b) # "CACHEREADINPROG"
     THEN bio' = [bio EXCEPT ![b].rw = "READCACHE_DONE"]
     ELSE bio' = [bio EXCEPT ![b].io = "ended"]
  /\ UNCHANGED <<context, cache, set_lru_next, nr_jobs>>

(* Refuted variant: the job is no longer counted once its bio has ended.   *)
WriteCacheDoneUncounted(b) ==
  /\ At(b, {"WRITECACHE"}, "served")
  /\ bio' = [bio EXCEPT ![b].io = "ended"]
  /\ nr_jobs' = nr_jobs - 1
  /\ UNCHANGED <<context, cache, set_lru_next>>

(* WRITECACHE: the bio is done, whether the block could be cached or not.  *)
WriteCacheDone(b) ==
  /\ At(b, {"WRITECACHE"}, "served")
  /\ bio' = [bio EXCEPT ![b].io = "ended"]
  /\ UNCHANGED <<context, cache, set_lru_next, nr_jobs>>

(* ... and from there to the count, the lock taken again.  A read leaves   *)
(* its block VALID, whatever was done to it meanwhile.                     *)
Release(b) ==
  /\ At(b, Source \cup {"READCACHE", "WRITECACHE"}, "ended")
  /\ Released(bio[b].index,
              IF \/ bio[b].rw = "READCACHE"
                 \/ bio[b].rw = "WRITECACHE" /\ ~bio[b].err /\ State(b) = "INPROG"
              THEN "VALID" ELSE "INVALID")
  /\ CountGivenUp(b)
  /\ UNCHANGED <<context, set_lru_next>>

(* flashcache_wt_do_complete, in the worker: the job is gone before the    *)
(* one of the uncached read is allocated.  If nr_jobs is 0 in between, the *)
(* wake_up here finds the context: the device-mapper keeps it for the bio. *)
DoComplete(b) ==
  /\ At(b, {"READCACHE_DONE"}, "served")
  /\ Released(bio[b].index, "INVALID")
  /\ Uncached(b, Arriving(bio[b].dbn, FALSE))
  /\ nr_jobs' = nr_jobs - 1
  /\ UNCHANGED <<context, set_lru_next>>

(* flashcache_wt_uncached_io_callback: what was cached while the I/O was   *)
(* in progress is invalidated again.                                       *)
UncachedDone(b) ==
  /\ At(b, {"UNCACHED"}, "served")
  /\ cache' = Invalidated(cache, bio[b].dbn)
  /\ bio' = [bio EXCEPT ![b].io = "ended"]
  /\ UNCHANGED <<context, set_lru_next, nr_jobs>>

UncachedRelease(b) ==
  /\ At(b, {"UNCACHED"}, "ended")
  /\ CountGivenUp(b)
  /\ UNCHANGED <<context, cache, set_lru_next>>

(* The end of either callback.  Nothing keeps the context for it: it uses  *)
(* dmc->destroyq also when cache_dtr has freed it.                         *)
WakeUp(b) ==
  /\ bio[b].rw = "WAKEUP"
  /\ Gone(b)
  /\ UNCHANGED <<context, cache, set_lru_next, nr_jobs>>

-----------------------------------------------------------------------------
Step(b) ==
  \/ NoJob(b) \/ DiskReads(b) \/ DiskWrites(b) \/ FlashReads(b) \/ FlashWrites(b)
  \/ SourceDone(b) \/ ReadCacheDone(b) \/ WriteCacheDone(b) \/ Release(b)
  \/ DoComplete(b) \/ UncachedDone(b) \/ UncachedRelease(b) \/ WakeUp(b)

Next ==
  \/ Construct \/ Destroy
  \/ \E b \in Bios : (\E d \in Dbns : Map(b, d)) \/ Step(b)

Spec == Init /\ [][Next]_vars

(* The devices answer, and callbacks and workers run.                      *)
FairSpec == Spec /\ \A b \in Bios : WF_vars(Step(b))

-----------------------------------------------------------------------------
(* Properties                                                              *)

SlotType == [dbn : Dbns \cup {None}, state : States, fresh : BOOLEAN]
BioType == [rw : Uses \cup {"none", "UNCACHED", "WAKEUP"}, io : {"new", "served", "ended"},
            write : BOOLEAN, dbn : Dbns \cup {None}, index : Slots \cup {-1},
            err : BOOLEAN, fresh : BOOLEAN]

(* The sweep of each set stays in it.                                      *)
Sweeps == {next \in [Sets -> Slots] : \A t \in Sets : next[t] \in SlotsOf(t)}

WtTypeOK ==
  /\ alive \in BOOLEAN /\ apart \in BOOLEAN
  /\ cache \in [Slots -> SlotType]
  /\ set_lru_next \in Sweeps
  /\ nr_jobs \in Nat
  /\ bio \in [Bios -> BioType]

Holders(i) == {b \in Bios : bio[b].rw \in Uses /\ bio[b].index = i}

(* A slot that is neither INVALID nor VALID has one owner, the job that    *)
(* will release it, and no other slot has one: invalidation by others,     *)
(* bounces, errors and the windows in which a callback has let go of the   *)
(* lock never let two jobs work on one slot.  The VERIFYs of the callback  *)
(* are the second part.                                                    *)
OneOwner ==
  /\ WtTypeOK
  /\ \A i \in Slots :
       /\ cache[i].state \notin {"INVALID", "VALID"} <=> Holders(i) # {}
       /\ \A b, c \in Holders(i) : b = c
  /\ \A b \in Bios :
       /\ bio[b].rw \in {"READCACHE", "READCACHE_DONE"} =>
            State(b) \in {"CACHEREADINPROG", "INPROG_INVALID"}
       /\ bio[b].rw \in Source \cup {"WRITECACHE"} => State(b) \in {"INPROG", "INPROG_INVALID"}

Jobs == {b \in Bios : bio[b].rw = "WRITECACHE" \/ bio[b].io # "new"}

(* nr_jobs, the only thing cache_dtr waits for, counts every job until its *)
(* callback has released its slot, also when it is dropped and taken again *)
(* for a bounced read.  So when the context is freed no I/O, no slot and   *)
(* no count is left of any job; all that can be left is a callback that    *)
(* found its job the last and still has to wake the destructor, which it   *)
(* then does in a context that is gone (WakeUp: the code does not exclude  *)
(* that).                                                                  *)
OnlyWakeUpsRemain ==
  /\ nr_jobs = Cardinality(Jobs)
  /\ ~alive => \A b \in Bios : ~Out(b)

(* When the bios to a block are kept apart, a cached block holds what the  *)
(* disk holds, in one slot only, and every read that ends well returns it: *)
(* in whatever order bios to other blocks of the set reclaim, bounce and   *)
(* fail.  (When they are not, this is not so: a read that ends leaves its  *)
(* block VALID even if it was invalidated since the callback looked.)      *)
CurrentIfApart ==
  apart =>
    /\ \A i \in Slots : cache[i].state \in {"VALID", "CACHEREADINPROG"} =>
         /\ cache[i].fresh
         /\ FindValid(cache, cache[i].dbn) = {i}
    /\ \A b \in Bios :
         /\ bio[b].io = "ended" /\ ~bio[b].write
         /\ bio[b].rw = "WRITECACHE" \/ ~bio[b].err
         => bio[b].fresh

(* Every bio ends, though a read may be bounced from the flash to the disk *)
(* and may meet blocks that others invalidate.                             *)
EveryBioEnds == \A b \in Bios : bio[b].rw # "none" ~> bio[b].rw = "none"
=============================================================================
