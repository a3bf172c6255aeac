------------------------------ MODULE PfdCache ------------------------------
(***************************************************************************)
(* The prefetch cache (src/pfd_cache.c): an array of blocks in memory that *)
(* pfd_cache_prefetch fills, from the SSD or the disk, ahead of the        *)
(* reader, and from which pfd_cache_handle_bio serves reads.  A step is    *)
(* what a thread does between two points where another one can see it:     *)
(* meta->lock protects dbn and the transitions to prepare, but the status  *)
(* is read, and set by the I/O callback, without it.                       *)
(***************************************************************************)
EXTENDS Integers, FiniteSets

CONSTANTS
  Metas,        \* the entries of the cache, pfd_cache.metas
  Dbns,         \* the disk blocks
  IndexOf,      \* IndexOf[d]: dbn_to_cache_index, the entry block d maps to
  Slots,        \* the blocks of the SSD cache
  Readers,      \* the reads that pass through pfd_cache_handle_bio
  Prefetchers,  \* the threads in pfd_cache_prefetch
  Data,         \* what a block of memory may hold
  NoData,       \* memory that an I/O is writing, or never wrote
  NoBlock,      \* "no disk block", "no SSD block" (ssd_index = -1)
  MayInterrupt, \* down_interruptible may be interrupted
  IoMayFail     \* I/O and its dispatch may fail

ASSUME PfdAssumption ==
  /\ IndexOf \in [Dbns -> Metas]
  /\ NoBlock \notin Dbns /\ NoBlock \notin Slots /\ NoData \notin Data
  /\ Dbns \subseteq Data
  /\ MayInterrupt \in BOOLEAN /\ IoMayFail \in BOOLEAN
  /\ IsFiniteSet(Readers)

VARIABLES
  dbn_of,     \* meta->dbn
  status,     \* meta->status
  holders,    \* the readers counted in meta->hold_count
  prepare_lock, \* the count of the semaphore meta->prepare_lock
  ssd_index,  \* meta->ssd_index
  data,       \* cache->data, by entry
  io,         \* the request that is out for an entry: its dbn and SSD block
  callback,   \* how far io_callback has come for an entry (lock_interrupt)
  reader,     \* the readers: where they are, what they want, what they got
  prefetcher, \* the prefetching threads: where they are and for which block
  resetting   \* the entries pfd_cache_reset has still to visit

metaVars == <<dbn_of, status, holders, prepare_lock, ssd_index>>
ioVars   == <<data, io, callback>>
pfdVars  == <<metaVars, ioVars, reader, prefetcher, resetting>>

NoIo == [dbn |-> NoBlock, slot |-> NoBlock]
Busy(m) == status[m] = "prepare" \/ holders[m] # {}

PfdInit ==
  /\ dbn_of = [m \in Metas |-> NoBlock]
  /\ status = [m \in Metas |-> "empty"]
  /\ holders = [m \in Metas |-> {}]
  /\ prepare_lock = [m \in Metas |-> 0]
  /\ ssd_index = [m \in Metas |-> NoBlock]
  /\ data = [m \in Metas |-> NoData]
  /\ io = [m \in Metas |-> NoIo]
  /\ callback = [m \in Metas |-> "none"]
  /\ reader = [r \in Readers |-> [pc |-> "idle", dbn |-> NoBlock, got |-> NoData]]
  /\ prefetcher = [p \in Prefetchers |-> [pc |-> "idle", dbn |-> NoBlock]]
  /\ resetting = {}

-----------------------------------------------------------------------------
(* pfd_cache_handle_bio                                                    *)

Want(r) == IndexOf[reader[r].dbn]
Go(r, pc) == reader' = [reader EXCEPT ![r].pc = pc]

(* Under meta->lock: the entry is held if it is, or will be, the block.    *)
LookupHit(r, d) ==
  /\ reader[r].pc = "idle"
  /\ status[IndexOf[d]] # "empty" /\ dbn_of[IndexOf[d]] = d
  /\ holders' = [holders EXCEPT ![IndexOf[d]] = @ \cup {r}]
  /\ reader' = [reader EXCEPT ![r] = [pc |-> "held", dbn |-> d, got |-> NoData]]
  /\ UNCHANGED <<dbn_of, status, prepare_lock, ssd_index, ioVars, prefetcher, resetting>>

LookupMiss(r, d) ==
  /\ reader[r].pc = "idle"
  /\ status[IndexOf[d]] = "empty" \/ dbn_of[IndexOf[d]] # d
  /\ reader' = [reader EXCEPT ![r] = [pc |-> "miss", dbn |-> d, got |-> NoData]]
  /\ UNCHANGED <<metaVars, ioVars, prefetcher, resetting>>

(* The lock is dropped; the status is looked at without it.                *)
CheckPrepare(r) ==
  /\ reader[r].pc = "held"
  /\ Go(r, IF status[Want(r)] = "prepare" THEN "down" ELSE "test")
  /\ UNCHANGED <<metaVars, ioVars, prefetcher, resetting>>

(* Refuted variant: the count goes down without a wait.                    *)
DownNeverWaits(r) ==
  /\ reader[r].pc = "down"
  /\ prepare_lock' = [prepare_lock EXCEPT ![Want(r)] = @ - 1]
  /\ Go(r, "up")
  /\ UNCHANGED <<dbn_of, status, holders, ssd_index, ioVars, prefetcher, resetting>>

Down(r) ==
  /\ reader[r].pc = "down"
  /\ prepare_lock[Want(r)] > 0
  /\ prepare_lock' = [prepare_lock EXCEPT ![Want(r)] = @ - 1]
  /\ Go(r, "up")
  /\ UNCHANGED <<dbn_of, status, holders, ssd_index, ioVars, prefetcher, resetting>>

DownInterrupted(r) ==
  /\ MayInterrupt
  /\ reader[r].pc = "down"
  /\ Go(r, "up")
  /\ UNCHANGED <<metaVars, ioVars, prefetcher, resetting>>

(* up follows whether or not down got the semaphore.                       *)
Up(r) ==
  /\ reader[r].pc = "up"
  /\ prepare_lock' = [prepare_lock EXCEPT ![Want(r)] = @ + 1]
  /\ Go(r, "test")
  /\ UNCHANGED <<dbn_of, status, holders, ssd_index, ioVars, prefetcher, resetting>>

TestMiss(r) ==
  /\ reader[r].pc = "test" /\ status[Want(r)] # "valid"
  /\ holders' = [holders EXCEPT ![Want(r)] = @ \ {r}]
  /\ Go(r, "miss")
  /\ UNCHANGED <<dbn_of, status, prepare_lock, ssd_index, ioVars, prefetcher, resetting>>

TestHit(r) ==
  /\ reader[r].pc = "test" /\ status[Want(r)] = "valid"
  /\ Go(r, "copy")
  /\ UNCHANGED <<metaVars, ioVars, prefetcher, resetting>>

(* memcpy and bio_endio                                                    *)
Copy(r) ==
  /\ reader[r].pc = "copy"
  /\ reader' = [reader EXCEPT ![r].pc = "put", ![r].got = data[Want(r)]]
  /\ UNCHANGED <<metaVars, ioVars, prefetcher, resetting>>

Put(r) ==
  /\ reader[r].pc = "put"
  /\ holders' = [holders EXCEPT ![Want(r)] = @ \ {r}]
  /\ Go(r, "hit")
  /\ UNCHANGED <<dbn_of, status, prepare_lock, ssd_index, ioVars, prefetcher, resetting>>

-----------------------------------------------------------------------------
(* pfd_cache_prefetch                                                      *)

(* Refuted variant: the hold count is not looked at.                       *)
SetupIgnoresHold(p, d) ==
  /\ prefetcher[p].pc = "idle"
  /\ ~(status[IndexOf[d]] # "empty" /\ dbn_of[IndexOf[d]] = d)
  /\ status[IndexOf[d]] # "prepare"
  /\ dbn_of' = [dbn_of EXCEPT ![IndexOf[d]] = d]
  /\ status' = [status EXCEPT ![IndexOf[d]] = "prepare"]
  /\ prepare_lock' = [prepare_lock EXCEPT ![IndexOf[d]] = 0]
  /\ prefetcher' = [prefetcher EXCEPT ![p] = [pc |-> "setup", dbn |-> d]]
  /\ UNCHANGED <<holders, ssd_index, ioVars, reader, resetting>>

(* Under meta->lock: the entry is taken for block d unless it has it       *)
(* already, or is being filled, or is held by a reader.                    *)
Setup(p, d) ==
  /\ prefetcher[p].pc = "idle"
  /\ ~(status[IndexOf[d]] # "empty" /\ dbn_of[IndexOf[d]] = d)
  /\ ~Busy(IndexOf[d])
  /\ dbn_of' = [dbn_of EXCEPT ![IndexOf[d]] = d]
  /\ status' = [status EXCEPT ![IndexOf[d]] = "prepare"]
  /\ prepare_lock' = [prepare_lock EXCEPT ![IndexOf[d]] = 0]
  /\ prefetcher' = [prefetcher EXCEPT ![p] = [pc |-> "setup", dbn |-> d]]
  /\ UNCHANGED <<holders, ssd_index, ioVars, reader, resetting>>

Filling(p) == IndexOf[prefetcher[p].dbn]

(* get_ssd_cache_index found it idle in SSD block s, and marked that.      *)
UseSsd(p, s) ==
  /\ prefetcher[p].pc = "setup"
  /\ ssd_index' = [ssd_index EXCEPT ![Filling(p)] = s]
  /\ prefetcher' = [prefetcher EXCEPT ![p].pc = "dispatch"]
  /\ UNCHANGED <<dbn_of, status, holders, prepare_lock, ioVars, reader, resetting>>

(* It did not, or the share of the SSD is used up.                         *)
UseDisk(p) ==
  /\ prefetcher[p].pc = "setup"
  /\ ssd_index' = [ssd_index EXCEPT ![Filling(p)] = NoBlock]
  /\ prefetcher' = [prefetcher EXCEPT ![p].pc = "dispatch"]
  /\ UNCHANGED <<dbn_of, status, holders, prepare_lock, ioVars, reader, resetting>>

(* dispatch_io_request: from now on the I/O writes the entry's memory.     *)
Dispatch(p) ==
  LET m == Filling(p) IN
  /\ prefetcher[p].pc = "dispatch"
  /\ io' = [io EXCEPT ![m] = [dbn |-> dbn_of[m], slot |-> ssd_index[m]]]
  /\ data' = [data EXCEPT ![m] = NoData]
  /\ prefetcher' = [prefetcher EXCEPT ![p] = [pc |-> "idle", dbn |-> NoBlock]]
  /\ UNCHANGED <<metaVars, callback, reader, resetting>>

DispatchFails(p) ==
  LET m == Filling(p) IN
  /\ IoMayFail
  /\ prefetcher[p].pc = "dispatch"
  /\ status' = [status EXCEPT ![m] = "empty"]
  /\ prepare_lock' = [prepare_lock EXCEPT ![m] = @ + 1]
  /\ prefetcher' = [prefetcher EXCEPT ![p] = [pc |-> "idle", dbn |-> NoBlock]]
  /\ UNCHANGED <<dbn_of, holders, ssd_index, ioVars, reader, resetting>>

-----------------------------------------------------------------------------
(* io_callback, under lock_interrupt: the status is published, then the    *)
(* waiters are let in, and only then is the SSD block released.            *)

CallbackStatus(m, v) ==
  /\ io[m] # NoIo /\ callback[m] = "none"
  /\ io' = [io EXCEPT ![m] = NoIo]
  /\ \/ /\ status' = [status EXCEPT ![m] = "valid"]
        /\ data' = [data EXCEPT ![m] = v]
     \/ /\ IoMayFail
        /\ status' = [status EXCEPT ![m] = "empty"]
        /\ UNCHANGED data
  /\ callback' = [callback EXCEPT ![m] = "up"]
  /\ UNCHANGED <<dbn_of, holders, prepare_lock, ssd_index, reader,
                 prefetcher, resetting>>

(* Refuted variant: the waiters are not let in after an error.             *)
CallbackUpIfValid(m) ==
  /\ callback[m] = "up"
  /\ prepare_lock' = IF status[m] = "valid"
                     THEN [prepare_lock EXCEPT ![m] = @ + 1] ELSE prepare_lock
  /\ callback' = [callback EXCEPT ![m] = "release"]
  /\ UNCHANGED <<dbn_of, status, holders, ssd_index, data, io, reader,
                 prefetcher, resetting>>

CallbackUp(m) ==
  /\ callback[m] = "up"
  /\ prepare_lock' = [prepare_lock EXCEPT ![m] = @ + 1]
  /\ callback' = [callback EXCEPT ![m] = "release"]
  /\ UNCHANGED <<dbn_of, status, holders, ssd_index, data, io, reader,
                 prefetcher, resetting>>

(* The SSD block ssd_index[m] is released: ssd_index is read here, when the *)
(* entry may already be in use for another block.                          *)
CallbackRelease(m) ==
  /\ callback[m] = "release"
  /\ callback' = [callback EXCEPT ![m] = "none"]
  /\ UNCHANGED <<metaVars, data, io, reader, prefetcher, resetting>>

-----------------------------------------------------------------------------
(* pfd_cache_reset, one entry at a time; it gives up at the first that is  *)
(* busy.                                                                   *)

ResetStarts ==
  /\ resetting = {}
  /\ resetting' = Metas
  /\ UNCHANGED <<metaVars, ioVars, reader, prefetcher>>

(* Refuted variant: an entry that readers hold is emptied too.             *)
ResetHeldToo(m) ==
  /\ m \in resetting
  /\ IF status[m] = "prepare" THEN resetting' = {} /\ UNCHANGED status
     ELSE /\ status' = [status EXCEPT ![m] = "empty"]
          /\ resetting' = resetting \ {m}
  /\ UNCHANGED <<dbn_of, holders, prepare_lock, ssd_index, ioVars, reader, prefetcher>>

ResetMeta(m) ==
  /\ m \in resetting
  /\ IF Busy(m) THEN resetting' = {} /\ UNCHANGED status
     ELSE /\ status' = [status EXCEPT ![m] = "empty"]
          /\ resetting' = resetting \ {m}
  /\ UNCHANGED <<dbn_of, holders, prepare_lock, ssd_index, ioVars, reader, prefetcher>>

-----------------------------------------------------------------------------
(* What an I/O reads: on its own, this module tells blocks apart by their  *)
(* number.                                                                 *)
ReaderStep(r) == \/ CheckPrepare(r) \/ Down(r) \/ Up(r) \/ TestMiss(r) \/ TestHit(r)
                 \/ Copy(r) \/ Put(r)
PrefetchStep(p) == \/ \E s \in Slots : UseSsd(p, s)
                   \/ UseDisk(p) \/ Dispatch(p) \/ DispatchFails(p)
CallbackStep(m) == \/ CallbackStatus(m, io[m].dbn) \/ CallbackUp(m) \/ CallbackRelease(m)

PfdNext ==
  \/ \E r \in Readers, d \in Dbns : LookupHit(r, d) \/ LookupMiss(r, d)
  \/ \E r \in Readers : ReaderStep(r) \/ DownInterrupted(r)
  \/ \E p \in Prefetchers, d \in Dbns : Setup(p, d)
  \/ \E p \in Prefetchers : PrefetchStep(p)
  \/ \E m \in Metas : CallbackStep(m) \/ ResetMeta(m)
  \/ ResetStarts

PfdSpec == PfdInit /\ [][PfdNext]_pfdVars

(* The threads run, and the devices answer; nobody need interrupt a wait.  *)
PfdFairness ==
  /\ \A r \in Readers : WF_pfdVars(ReaderStep(r))
  /\ \A p \in Prefetchers : WF_pfdVars(PrefetchStep(p))
  /\ \A m \in Metas : WF_pfdVars(CallbackStep(m))
PfdFairSpec == PfdSpec /\ PfdFairness

-----------------------------------------------------------------------------
(* The variables keep their shapes.                                        *)
PfdTypeOK ==
  /\ dbn_of \in [Metas -> Dbns \cup {NoBlock}]
  /\ status \in [Metas -> {"empty", "prepare", "valid"}]
  /\ holders \in [Metas -> SUBSET Readers]
  /\ prepare_lock \in [Metas -> Nat]
  /\ ssd_index \in [Metas -> Slots \cup {NoBlock}]
  /\ data \in [Metas -> Data \cup {NoData}]
  /\ io \in [Metas -> [dbn : Dbns \cup {NoBlock}, slot : Slots \cup {NoBlock}]]
  /\ callback \in [Metas -> {"none", "up", "release"}]
  /\ reader \in [Readers -> [pc : {"idle", "held", "down", "up", "test", "copy", "put",
                                  "hit", "miss"},
                             dbn : Dbns \cup {NoBlock}, got : Data \cup {NoData}]]
  /\ prefetcher \in [Prefetchers -> [pc : {"idle", "setup", "dispatch"},
                                     dbn : Dbns \cup {NoBlock}]]
  /\ resetting \in SUBSET Metas

(* While a reader copies an entry's memory, it is the block the reader     *)
(* asked for and no I/O writes it: neither prefetching into the same entry *)
(* nor a reset nor a completion pulls it away (hold_count and status).     *)
CopiesItsBlock ==
  \A r \in Readers : reader[r].pc = "copy" =>
    /\ data[Want(r)] = reader[r].dbn
    /\ io[Want(r)] = NoIo

(* An entry is being filled by one thread or one I/O if it is in status    *)
(* prepare, and by none otherwise; so two prefetches never write the same  *)
(* memory, and none writes memory that is valid.                           *)
Fillers(m) == {p \in Prefetchers : prefetcher[p].pc # "idle" /\ Filling(p) = m}
OneFiller ==
  \A m \in Metas :
    IF status[m] = "prepare"
    THEN IF io[m] = NoIo THEN \E p \in Prefetchers : Fillers(m) = {p}
                         ELSE Fillers(m) = {} /\ io[m].dbn = dbn_of[m]
    ELSE io[m] = NoIo /\ Fillers(m) = {}

(* The inductive invariant: besides the above, the hold count counts the   *)
(* readers that have not put their entry yet; an entry keeps the block its *)
(* readers asked for; and what is valid is the block the entry is for.     *)
Holding == {"held", "down", "up", "test", "copy", "put"}
HoldersHold ==
  \A m \in Metas, r \in Readers :
    r \in holders[m] <=> reader[r].pc \in Holding /\ Want(r) = m
HeldBlock ==
  \A r \in Readers : reader[r].pc \in Holding =>
    /\ reader[r].dbn \in Dbns /\ dbn_of[Want(r)] = reader[r].dbn
    /\ reader[r].pc = "copy" => status[Want(r)] = "valid"
ValidData ==
  \A m \in Metas : /\ status[m] # "empty" => dbn_of[m] \in Dbns
                   /\ status[m] = "valid" => data[m] = dbn_of[m]
FillingBlock == \A p \in Prefetchers : prefetcher[p].pc # "idle" => prefetcher[p].dbn \in Dbns
PfdIInv == PfdTypeOK /\ HoldersHold /\ HeldBlock /\ ValidData /\ FillingBlock /\ OneFiller

(* An entry that is held keeps its block, and stays valid once it is.      *)
HeldStaysPut ==
  [][\A m \in Metas : holders[m] # {} =>
       /\ dbn_of'[m] = dbn_of[m]
       /\ status[m] = "valid" => status'[m] = "valid"]_pfdVars

(* A read that looked up an entry ends, whatever becomes of the prefetch:  *)
(* the semaphore lets every waiter through, also after errors, interrupted *)
(* waits and an up that comes late for a new prefetch.                     *)
ReadsReturn ==
  \A r \in Readers : reader[r].pc = "held" ~> reader[r].pc \in {"hit", "miss"}
=============================================================================
