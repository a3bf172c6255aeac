------------------------- MODULE FlashcachePrefetch -------------------------
(***************************************************************************)
(* The I/O path with the prefetch cache in front of it (PREFETCHD_ON in    *)
(* flashcache_read): reads look into the prefetch cache first, writes do   *)
(* not; prefetching reads blocks from the disk, or from the cache, where   *)
(* it marks them CACHEREADINPROG behind the back of the job machinery.     *)
(***************************************************************************)
EXTENDS Flashcache

CONSTANTS Metas, IndexOf, Prefetchers

VARIABLES dbn_of, status, holders, prepare_lock, ssd_index, data, io, callback,
          reader, prefetcher

(* Nobody resets the prefetch cache while it is in use, and its I/O does   *)
(* not fail; PfdCache on its own covers both.                              *)
P == INSTANCE PfdCache WITH Readers <- Bios, Data <- Values, NoData <- None,
       NoBlock <- None, resetting <- {}, MayInterrupt <- FALSE, IoMayFail <- FALSE

prefetchVars == <<dbn_of, status, holders, prepare_lock, ssd_index, data, io,
                  callback, reader, prefetcher>>
allVars == <<vars, prefetchVars>>

FpInit == Init /\ P!PfdInit

-----------------------------------------------------------------------------
(* Reads                                                                   *)

(* flashcache_read asks pfd_cache_handle_bio first.                        *)
PfdLookup(b, d) ==
  /\ bio[b].st = "new" /\ ~bypass_cache
  /\ UNCHANGED <<slotVars, mdVars, devVars, bypass_cache, crashes>>
  /\ \/ P!LookupHit(b, d) /\ Arrive(b, d, "READ", "job")
     \/ P!LookupMiss(b, d) /\ UNCHANGED <<bio, ghostVars>>

(* What the steps of pfd_cache_handle_bio mean for the bio: a read that is  *)
(* copied ends, and one that is not served after all (its entry was reused *)
(* and emptied, PfdCache) goes on like one that arrives now.               *)
PfdReaderStep(b) ==
  /\ P!ReaderStep(b)
  /\ IF reader[b].pc = "copy" THEN EndIo(b, FALSE, data[P!Want(b)])
     ELSE /\ bio' = IF reader'[b].pc = "miss" THEN [bio EXCEPT ![b] = NewBio] ELSE bio
          /\ UNCHANGED ghostVars
  /\ UNCHANGED <<slotVars, mdVars, devVars, bypass_cache, crashes>>

(* flashcache_map: a write, a read that found nothing in the prefetch      *)
(* cache, or a read that bypasses both caches.                             *)
FpMap(b) ==
  /\ UNCHANGED prefetchVars
  /\ \E d \in Dbns :
       \/ reader[b].pc = "idle" /\
            (MapUncached(b, d, "READ") \/ MapUncachedConflict(b, d, "READ")
             \/ MapFails(b, d, "READ"))
       \/ reader[b].pc = "miss" /\ reader[b].dbn = d /\
            (MapUncached(b, d, "READ") \/ MapUncachedConflict(b, d, "READ")
             \/ MapFails(b, d, "READ") \/ MapHit(b, d, "READ")
             \/ MapHitBusy(b, d, "READ") \/ MapMiss(b, d, "READ"))
       \/ reader[b].pc = "idle" /\
            (MapUncached(b, d, "WRITE") \/ MapUncachedConflict(b, d, "WRITE")
             \/ MapFails(b, d, "WRITE") \/ MapHit(b, d, "WRITE")
             \/ MapHitBusy(b, d, "WRITE") \/ MapMiss(b, d, "WRITE"))

-----------------------------------------------------------------------------
(* Prefetching                                                             *)

(* Refuted variant: a busy block is borrowed as well.                      *)
BorrowableBusy(d) == Cached(d)

(* get_ssd_cache_index: the cached block must be idle.                     *)
Borrowable(d) == {s \in Cached(d) : Idle(s)}

FpUseSsd(p) ==
  /\ \E s \in Borrowable(prefetcher[p].dbn) :
       /\ P!UseSsd(p, s)
       /\ cache_state' = [cache_state EXCEPT ![s] = @ \cup {"CACHEREADINPROG"}]
  /\ UNCHANGED <<dbn, hashed, invalid_list, pending, job, mdVars, devVars, bio,
                 bypass_cache, crashes, ghostVars>>

(* Read from the disk: the share of the SSD is used up, or the block is    *)
(* busy or not cached.                                                     *)
FpUseDisk(p) == P!UseDisk(p) /\ UNCHANGED vars

(* For a block that is not cached flashcache_lookup takes a free one off   *)
(* the invalid list, for the miss it expects to be handled.                *)
FpUseDiskAfterLookup(p) ==
  /\ P!UseDisk(p)
  /\ Cached(prefetcher[p].dbn) = {}
  /\ \E s \in invalid_list : invalid_list' = invalid_list \ {s}
  /\ UNCHANGED <<cache_state, dbn, hashed, pending, job, mdVars, devVars, bio,
                 bypass_cache, crashes, ghostVars>>

FpPrefetch(p) ==
  \/ (\E d \in Dbns : P!Setup(p, d)) /\ UNCHANGED vars
  \/ FpUseSsd(p) \/ FpUseDisk(p) \/ FpUseDiskAfterLookup(p)
  \/ P!Dispatch(p) /\ UNCHANGED vars

(* io_callback: what the device returns is what it holds when it answers.  *)
FpCallbackStatus(m) ==
  /\ io[m] # P!NoIo
  /\ P!CallbackStatus(m, IF io[m].slot = None THEN disk[io[m].dbn] ELSE ssd[io[m].slot])
  /\ UNCHANGED vars

(* All the INPROG bits of the block are cleared, whoever waits for it.     *)
FpCallbackRelease(m) ==
  /\ P!CallbackRelease(m)
  /\ cache_state' = [s \in Slots |-> IF s = ssd_index[m] THEN cache_state[s] \ BlockIoInprog
                                                         ELSE cache_state[s]]
  /\ UNCHANGED <<dbn, hashed, invalid_list, pending, job, mdVars, devVars, bio,
                 bypass_cache, crashes, ghostVars>>

FpCallback(m) == \/ FpCallbackStatus(m) \/ FpCallbackRelease(m)
                 \/ P!CallbackUp(m) /\ UNCHANGED vars

-----------------------------------------------------------------------------
(* A crash loses the prefetch cache with the rest of the memory.           *)
FpCrash ==
  /\ Crash
  /\ dbn_of' = [m \in Metas |-> None] /\ status' = [m \in Metas |-> "empty"]
  /\ holders' = [m \in Metas |-> {}] /\ prepare_lock' = [m \in Metas |-> 0]
  /\ ssd_index' = [m \in Metas |-> None] /\ data' = [m \in Metas |-> None]
  /\ io' = [m \in Metas |-> P!NoIo] /\ callback' = [m \in Metas |-> "none"]
  /\ reader' = [b \in Bios |-> [pc |-> "idle", dbn |-> None, got |-> None]]
  /\ prefetcher' = [p \in Prefetchers |-> [pc |-> "idle", dbn |-> None]]

FpNext ==
  \/ \E b \in Bios : (\E d \in Dbns : PfdLookup(b, d)) \/ PfdReaderStep(b) \/ FpMap(b)
  \/ \E p \in Prefetchers : FpPrefetch(p)
  \/ \E m \in Metas : FpCallback(m)
  \/ /\ \/ \E b \in Bios : UncachedStep(b)
        \/ \E s \in Slots : SlotStep(s)
        \/ \E S \in SUBSET Slots : CleanSet(S)
        \/ MdStep
     /\ UNCHANGED prefetchVars
  \/ FpCrash

FpSpec == FpInit /\ [][FpNext]_allVars
=============================================================================
