# Flashcache: a TLA+ development

This directory models, model-checks and proves properties of the flashcache kernel module in `src/src` (a
device-mapper target that caches a disk on an SSD, to which this repository adds a prefetcher), and of the older
write-through target in `src/flashcache-wt`. It is meant to be read beside the code; paths below are relative to the
repository, `main.c` is `src/src/flashcache_main.c`, and `conf.c`, `ioctl.c`, `subr.c`, `reclaim.c` and `wt.c`
likewise.

1. [The system](#1-the-system)
2. [What is hard, and what makes each part correct](#2-what-is-hard-and-what-makes-each-part-correct)
3. [The modules](#3-the-modules)
4. [How the models correspond to the code](#4-how-the-models-correspond-to-the-code)
5. [The runs](#5-the-runs)
6. [The proofs](#6-the-proofs)
7. [Where the code departs from what it says](#7-where-the-code-departs-from-what-it-says)
8. [What is not modelled](#8-what-is-not-modelled)
9. [Plan](#9-plan)

## 1. The system

| component | file | state | operations |
|---|---|---|---|
| I/O path of a cache set | `flashcache_main.c` | `cache_state`, `dbn`, `nr_queued` of each block; the `kcached_job`s; the set's spinlock; `bypass_cache` | `flashcache_map`, read and write hit and miss, `flashcache_inval_blocks`, `flashcache_io_callback`, `flashcache_do_pending`, uncached I/O |
| metadata updates | `flashcache_main.c` | `nr_in_prog`, `queued_updates`, `md_io_inprog` of each metadata block; the metadata on flash | `flashcache_md_write`, `_kickoff`, `_callback`, `_done` |
| writeback and cleaning | `flashcache_main.c` | `DISKWRITEINPROG`, the fallow bits, `nr_dirty`, `dirty_fallow`, `clean_inprog` of each set and of the cache, `sync_index` | `flashcache_clean_set`, `flashcache_dirty_writeback`, `flashcache_kcopyd_callback`, `flashcache_sync_blocks` |
| lists and queues | `flashcache_subr.c` | per-set hash and invalid list, queues of `pending_job`s, work lists | insert, remove, lookup, `do_work` |
| reclaim | `flashcache_reclaim.c` | FIFO hand, hot and warm LRU lists, `use_cnt` | get an old block, promote, demote, rebalance |
| life cycle | `flashcache_conf.c` | superblock, metadata on flash, `remove_in_prog` | create, load, store, removal |
| ioctls | `flashcache_ioctl.c` | black and white lists of pids, sequential I/O tracker | add, delete, expire, `flashcache_uncacheable`, `skip_sequential_io` |
| prefetch detector | `pfd_stat.c` | records of runs and strides | `pfd_stat_update`, `pfd_stat_get_prefetch_dbns` |
| prefetch memory | `pfd_cache.c`, `prefetchd_reset.c` | an array of entries (`dbn`, `status`, `hold_count`, `prepare_lock`, `ssd_index`) over a block of memory | `pfd_cache_handle_bio`, `pfd_cache_prefetch`, `io_callback`, `pfd_cache_reset` |
| write-through target | `flashcache_wt.c` | `cache_state` and `dbn` of each slot, `set_lru_next`, `nr_jobs` | `flashcache_wt_map`, `cache_read`, `cache_write`, invalidation, the callbacks, `cache_ctr`, `cache_dtr` |

How they interact. `flashcache_map` decides whether a bio is cacheable (ioctl lists, sequentiality, mode). A cacheable
bio is looked up in its set under the set's lock. It either claims a block (an idle hit, or a victim chosen by
reclaim), marks it with an INPROG bit and drops the lock, or is queued on the block that is busy. Then a `kcached_job`
is allocated and sent down. Its completion, `flashcache_io_callback`, ends the bio, or takes a dirtying write on to
the metadata pipeline; it turns the INPROG bit off only if nothing is queued on the block, and otherwise hands the job
to `do_work`, where `flashcache_do_pending` replays the queue from disk. A bio that bypasses the cache drops the
cached copies of its block first, goes to the disk, and drops them again when it is back, since the block may have
been cached in the meantime. Writeback marks idle dirty blocks, copies them with kcopyd and updates their metadata.
Metadata updates of one metadata block are batched: one write is out at a time, the others wait.

Which blocks are cleaned, and when, is decided by counters. `flashcache_clean_set` runs after I/O to the set, and
again from the completion of each cleaning, so that one cleaning kicks the next; when it finds nothing it can clean it
leaves the set to the delayed work. A removal sets `remove_in_prog`, which stops `flashcache_clean_set`, and drives
`flashcache_sync_blocks` in its place until nothing is dirty (slow), or aborts what is going on (fast). Then the
metadata and the superblock are stored, and the state in the superblock decides what the next load trusts.

With `PREFETCHD_ON`, `flashcache_read` asks the prefetch memory before the cache. After each read the detector may
call for a window of blocks, which `pfd_cache_prefetch` reads into memory from the disk, or from the SSD, setting and
clearing `CACHEREADINPROG` on the SSD block itself, outside the job machinery.

The write-through target is a module of its own, with one lock for the whole cache, a state (rather than bits) for
each slot, no queues, and no metadata on flash. An invalidation that meets a slot in progress marks it
`INPROG_INVALID` and leaves it to its job, and a hit that is invalidated or fails is bounced to the disk.

## 2. What is hard, and what makes each part correct

Hard: every handler drops the set lock between claiming a block and allocating the job that works on it; bios queue on
a block while its I/O is completing; a metadata write carries the state of blocks that are halfway through transitions
of their own; every allocation and every I/O may fail in the middle; memory may be lost at any point; uncached I/O
races cached I/O to the same block; the prefetch memory synchronises with `status`, `hold_count` and a semaphore that
is reinitialised for every use; the cleaning is driven by counters that are raised and lowered in different functions,
and by completions that must kick the next step; and four kinds of links over the same blocks have to agree with their
states. `PROJECT.json` lists these hazards one by one, at the line where they bite.

| component | correct when | property |
|---|---|---|
| I/O path | a read returns the last write acknowledged before it, or one that overlaps it | `ReadsCurrent`, `ReadsCurrentIfReliable` |
| | no bio waits on a block on which nothing is in progress; every bio ends | `PendingInProgress`, `EveryBioEnds` |
| | hash, invalid list and limbo partition the set; a disk block is cached once | `SetPartition` |
| | no `VERIFY` fires (a `VERIFY` is a panic) | `VerifyHolds` |
| | an idle clean block is a copy of the disk | `CleanAgreesWithDisk` |
| writeback | a block being written back does not change, and is not clean before its copy is on disk | `StableDuringWriteback` |
| metadata | the metadata on flash is never behind memory | `FlashMdCurrent` |
| the whole | acknowledged writes survive a crash; the cache is a device of regular, durable registers | `Durable`, `ImplementsBlockDevice` |
| cleaning | the counts are those of the blocks; a fallow block is dirty and idle | `CountersExact`, `FallowIsDirtyAndIdle` |
| life cycle | no old data is served or lost, through removals, failed loads and power loss | `CacheIsCurrent`, `Durable` |
| | the superblock says clean only of what is; a removal ends | `HeaderIsTrue`, `RemovalEnds` |
| lists | every list is well linked, and is the one the state of its blocks says | `LruListsLinked`, `EveryBlockIsFound` |
| reclaim | the hot list keeps its size, warm blocks go first, the links are the queues they stand for | `HotListKeepsItsSize`, `WarmBlocksGoFirst`, `ImplementsBlockOrder` |
| pid lists | bounded, in order of expiry, and nothing stays for ever | `PidListsBounded`, `ExpiredUnlessPostponed` |
| sequential I/O | what is skipped is sequential, and what is sequential is skipped | `FlowIsBacked`, `SequentialIsSkipped` |
| detector | one record of a stream; it claims what was read; the window goes on from there | `OneRecordPerStream`, `ClaimsAreBacked`, `WindowFollowsPattern`, `WindowIsAhead` |
| prefetch memory | a reader copies the block it asked for, with no I/O on that memory | `CopiesItsBlock` |
| | a held entry stays what it is; a waiting reader is let in | `HeldStaysPut`, `ReadsReturn` |
| write-through | a slot in progress has one job; a destroyed target has no I/O, slot or count left of any job | `OneOwner`, `OnlyWakeUpsRemain` |
| | bios to a block that do not overlap see current data; every bio ends | `CurrentIfApart`, `EveryBioEnds` |

## 3. The modules

| module | contents |
|---|---|
| `BlockDevice` | abstract: the device flashcache promises to be, whose blocks are regular registers that survive crashes |
| `Flashcache` | the I/O path, metadata pipeline, writeback, uncached I/O and crash of one cache set; its properties |
| `FlashcacheInv` | invariants of `Flashcache` for its proofs: `IInv`, inductive on its own, `CleanDataInv`, inductive with it, and `MdCurrentInv`, inductive when no metadata write fails |
| `FlashcacheProofs` | `IInv` and what follows from it, and `CleanDataInv`: clean blocks agree with the disk, and a writeback copies data that holds still |
| `FlashcacheDataInv` | the inductive invariant `DataInv`, on where current data is |
| `FlashcacheDataProofs` | `MdCurrentInv`, `DataInv` and what follows: acknowledged writes survive, reads are current, and the cache set implements `BlockDevice` |
| `BlockOrder` | abstract: the lists of a set as sequences, and how they may change |
| `BlockLists` | the links of a set: hash chains, invalid list, hot and warm lists, and the FIFO hand; a refinement of `BlockOrder` |
| `BlockListsProofs` | the inductive invariant `ListsInv` of `BlockLists`, what follows from it, and that the links implement `BlockOrder` |
| `Lifecycle` | creation, load, cleaning with its counters and limits, sync, removal, store, power loss |
| `LifecycleProofs` | the inductive invariants `LInv` and `CountInv` of `Lifecycle` and what follows from them |
| `Admission` | the pid lists and the sequential I/O tracker, which decide what is cached |
| `AdmissionProofs` | the inductive invariant `AdmIInv` of `Admission`: the lists stay bounded, flows are backed, streams are skipped |
| `PfdStat` | the prefetch detector |
| `PfdStatProofs` | the inductive invariant `StatInv` of `PfdStat`: one record of a stream, it claims what was read, and the window goes on from there |
| `PfdCache` | the prefetch memory of one device, its properties and its inductive invariant `PfdIInv` |
| `PfdCacheProofs` | `PfdIInv` and what follows from it |
| `FlashcachePrefetch` | composition: `PfdCache` in front of `Flashcache`, sharing the blocks of the SSD |
| `FlashcacheWt` | the stand-alone write-through target |
| `FlashcacheWtProofs` | the inductive invariants `WtIInv` and `ApartInv` of `FlashcacheWt` and what follows from them |
| `MC...` | instances for TLC: symmetry, and the constants that are functions |

How they divide the work. `Flashcache` has the concurrency of one set in full, with any idle dirty block cleaned at
any time and any `VALID` block taken by reclaim. `Lifecycle` has the cleaning in full, and the I/O path reduced to
what it does to the dirty bits, the counters and the data: the queue of a block becomes a choice made when its I/O
ends. `BlockLists` has what the lookup and reclaim really do, with the I/O path reduced to the transitions of the
state of a block. `Admission` and `PfdStat` are what stands before the lookup and after it. Nothing is lost in
between: the interface of each pair is a choice in the one that a function computes in the other (`Victims` in
`Flashcache` and `FifoVictim`, `LruVictim` in `BlockLists`; `CleanSet` in `Flashcache` and in `Lifecycle`;
`MapUncached` and `Uncacheable`).

Definitions commented "Refuted variant" sit next to the definition they vary. They are plausible mistakes in the code
they model (a missing test of `nr_queued`, a missing `hash_remove`), and putting one in the place of its neighbour
makes a property fail; `PROJECT.json` ("mutants") pairs them. They are not part of the specification.

## 4. How the models correspond to the code

### Flashcache

**Grain.** One action is what the code does between two acquisitions of the set lock (in `PfdCache`, between two
points where another thread can see it). A device moves its data in the step that runs its completion callback.
Handlers run from the lookup to the end of their lock section in one step, including the invalidation they begin with.

**A block.** `cache_state[s]` is the set of bits of `cacheblk->cache_state`; `dbn[s]` is `cacheblk->dbn`; `pending[s]`
is the queue of `pending_job`s, whose length is `nr_queued`; `hashed` and `invalid_list` are the set's lists. The
lookup (`Cached`) is by the hash; `Victims` is `find_invalid_dbn`, or any block the reclaim policies accept: both take
only blocks whose state is exactly `VALID`.

**A job.** At most one `kcached_job` works on a block. `job[s].phase` says where it is:

| phase | in the code |
|---|---|
| `hit`, `miss` | the block is claimed and the lock dropped; the job is not allocated yet |
| `wb` | marked `DISKWRITEINPROG`; `flashcache_dirty_writeback` has not run yet |
| `io` | I/O is out; `flashcache_io_callback` or `flashcache_kcopyd_callback` will run |
| `md` | in the metadata pipeline (`md_io_inprog` or `queued_updates`) |
| `pend` | on `_pending_jobs`; `flashcache_do_pending` will run |
| `limbo` | in `flashcache_do_pending_noerror`: off the hash, bits still on, the queue being drained with the lock dropped |

**The metadata block** of the set (one per set here): `md_phase` is `idle`, `kickoff` (`nr_in_prog` = 1, kickoff to
run), `io` (the write is out) or `done` (`flashcache_md_write_done` is looping over `md_io`). `md_image` is the page
that `flashcache_md_write_kickoff` builds: the new state for the updates it carries, the state in memory with the
INPROG bits masked for all other blocks. A failed write may or may not have reached the flash.

**Requests.** A bio is one-shot: it arrives with any block and direction, and a write writes its own identity, so that
values tell writes apart. `bio[b].st` is where the bio is: in a job, queued (by a hit, or by an invalidation), on the
disk, awaiting `flashcache_uncached_io_complete`, or ended (`ok`, `eio`, or `lost` in a crash). Since bios run out,
the system may stop, and runs of `Flashcache` do not look for deadlock; that nothing gets stuck is `EveryBioEnds`.

**What a reader may be told.** The ghost variables `live` and `seen` state the register semantics: `live[d]` are the
values a read of `d` that starts now may return, `seen[b]` those that a read `b` that is out may. A write adds its
value when it starts, and removes what it supersedes when it is acknowledged; a crash leaves what is recoverable. No
guard reads them.

**Failures.** `Faults` names the faults the environment may inject: allocation of jobs, pending jobs and metadata
pages, and reads and writes of either device and of the metadata. `CacheMode` selects write-back, write-through or
write-around.

**Crash.** Memory is lost and `flashcache_writeback_load` keeps the slots whose record on flash is `DIRTY` (an unclean
shutdown); in the other modes the cache starts empty. Writes that were out may have landed.

### BlockLists

The state of a block is one of `INVALID`, `VALID` (exactly: idle and clean), `DIRTY` (idle), `INPROG` and `LIMBO`:
what the lists depend on. `lru` has the heads, tails, links, `lru_state` and counts of the two LRU lists, and `hash`
the `hash_next` and `hash_prev` links, the head of each hash chain and `invalid_head`; the operators on them
(`RemoveBlock`, `AddMru`, `AddLru`, `HashRemove`, `InvalidInsert`) assign the fields that the functions of the same
names assign. `MissFree`, `MissFifo` and `MissLru` are the lookup that does not find its block, under either policy,
with the two ways it may end: the caller claims the block (`Claim`), or its invalidation queued the bio elsewhere and
it puts an invalid block back (`GiveBack`). Blocks are numbered from 0 and `Null` is `FLASHCACHE_NULL`. The refinement
mapping walks the links from the head, and `BlockOrder` says what the sequences that come out may do: a block that is
touched goes to the end, a promotion exchanges a warm block with the oldest hot one, and so on.

### Lifecycle

`phase` is `down`, `up` or `removing`, and on the way down says whether the slots could be stored; `block[s]` has
`dbn`, `dirty`, the fallow bits as a number and what is being done to the block: user I/O (`read`, `fill`, `write`,
`update` while the metadata of a dirtying write is out), or a cleaning (`picked`, not started; `copy`; `clean`, the
metadata update is out), and by whom (`by`: `flashcache_clean_set` or the sync, whose callbacks differ). `kicks` are
the sets that a completion is about to clean again, `syncing` a completion that is about to call
`flashcache_sync_blocks`. `ssd[s]` is a ghost, the block whose *current* data slot s holds, and `disk` the blocks
whose current data is on the disk: a write makes every other copy old. This is all that can be told apart about data
when a block has one writer at a time, which is what `Flashcache` establishes.

`CleanSet` is the whole of `flashcache_clean_set`: the sweep that marks fallow blocks, if one is due; the fallow
blocks, as many as the limits allow; then, below no limit and above the threshold, further blocks, any the policy may
choose; then `flashcache_merge_writes`, which takes in the dirty idle neighbours. `SyncBlocks` is
`flashcache_sync_blocks`, `Turn`, `Quiet` and `RemoveAgain` the loop of `flashcache_sync_for_remove`, where `Quiet` is
the wait for `nr_jobs` to be zero. A removal turns fast where `sysctl_fast_remove` says so at its start. `StoreMd` and
`StoreHeader` write the slots and the superblock, each of which may fail; `Load` and `LoadFails` are what the next
start makes of them. `Crash` loses memory at any moment. A write that was out may be torn (`Torn`): a slot that was not
dirty then holds no block's current data. A dirty slot that was being overwritten keeps the old data or gets the new,
either of which is current for a write that was not acknowledged; section 8 says what this leaves out.

### Admission

`list[l]` is the black or the white list from its head, an entry with the ticks it has left; `Tick` is time, kept
relative (each entry's time left, and `pid_expire_check`), so that it needs no bound. `flows` is the array of
`sequential_io` from the head of the LRU list. `Judged` is one list's part of `flashcache_uncacheable`. `MapRead` and
`MapWrite` are the decision in `flashcache_map`, which expires entries first, and `ReadMiss` the second one that
`flashcache_read` makes on a miss; a read asks the tracker on the miss only. `run` and `touched` are ghosts: the
blocks that were asked for in a row, and all of them.

### PfdStat

`queue` is `main_queue` from its head. A record is `pfd_stat`: the current and the previous run (`curr_seq_stat`,
`prev_seq_stat`), the stride and how often it was seen. `Update` is `pfd_stat_update`: `Continues`, `Jumps` and
`JumpsAgain` are its three cases. `Window` is `pfd_stat_get_prefetch_dbns`, with its loops as recursive functions
(`Loop`, `Forward`, `Backward`), on the record that the update leaves; the code calls it with a copy of that record,
so it does not matter when. `read` is a ghost, as many of a process's last reads as its record claims.

### The prefetch memory

`status`, `holders` (the readers behind `hold_count`), `prepare_lock` (the semaphore's count), `ssd_index` and
`dbn_of` are the fields of `pfd_cache_meta`. `Setup` is the section under `meta->lock`; the check of the status,
`down_interruptible`, `up` and the second check run without it and are separate steps, as are the three parts of
`io_callback`. In `FlashcachePrefetch` the instance has no reset and no failing I/O (dm-io does not fail to start a
read of one region); both are in `PfdCache` on its own. A prefetch picks any block of the set: nothing there depends
on the detector being right. `PfdReaderStep` turns the copy of an entry into the end of the bio.

### FlashcacheWt

`cache[i]` is `dbn` and `cache_state` of slot i, and `fresh`, a ghost: the slot holds what the disk holds of its block.
`bio[b]` is a bio and the job that carries it (`rw`, `index`); `io` says how far it is: `new` (the I/O is to be done),
`served` (by the device; the callback is to run), `ended` (the bio has ended and the callback will take the lock again
to release the slot). The last one is a window in the code (wt.c:284-300, 306-319), in which the slot is released
without looking again. A callback that gives up the last count (`CountGivenUp`) is left in `rw` `WAKEUP`, with nothing
but the `wake_up` of the destructor to do (`WakeUp`, wt.c:346-347, 916-917). `Destroy` needs `nr_jobs` to be zero, and
happens only when every bio has ended, as device-mapper has it; it does not wait for a `WakeUp`, and with `nr_jobs`
zero the code does not either (wt.c:438). A bounced read gives up a count too (wt.c:385), but its bio has not ended, so
device-mapper still keeps the context. `apart` is chosen at the start, and says whether the submitters keep bios to one
block apart, as file systems and databases mostly do; only `CurrentIfApart` depends on it.

## 5. The runs

Runs that pass:

| run | constants | shows | distinct states |
|---|---|---|---|
| `WbCrash` | write-back, 2 slots, 2 disk blocks, 3 bios, 1 crash; devices and allocations, those of metadata pages included, fail | `Durable`, `FlashMdCurrent`, `ImplementsBlockDevice` | 1.0 M |
| `WtFaults` | write-through, the same bounds; devices and allocations fail | `SetPartition`, `PendingInProgress`, `ReadsCurrent`, `CleanAgreesWithDisk` | 0.42 M |
| `WbLive` | write-back, 2 bios, 1 crash, every fault, fairness | `EveryBioEnds`, `IInv`, `ReadsCurrentIfReliable`, `StableDuringWriteback` | 0.21 M |
| `SetLists` | a set of 3 blocks, 4 disk blocks in 2 hash chains, hot lists of 1, 2 and 3 blocks, both policies | `LruListsLinked`, `EveryBlockIsFound`, `HotListKeepsItsSize`, `WarmBlocksGoFirst`, `ImplementsBlockOrder` | 0.16 M |
| `Lifecycle` | 1 set of 2 slots, 2 neighbouring disk blocks, limits of 1, threshold 1, every fault, fairness | `CountersExact`, `FallowIsDirtyAndIdle`, `CacheIsCurrent`, `Durable`, `HeaderIsTrue`, `RemovalEnds` | 0.20 M |
| `Admission` | 3 pids, of which 2 are threads of one group; lists of 1, expiry after 1 s, 2 flows, threshold 1, 3 blocks, fairness | `PidListsBounded`, `FlowIsBacked`, `SequentialIsSkipped`, `ExpiredUnlessPostponed` | 0.14 M |
| `PfdStat` | 3 processes, 2 records, a disk of 19 sectors in blocks of 2 | `OneRecordPerStream`, `ClaimsAreBacked`, `WindowFollowsPattern`, `WindowIsAhead` | 0.14 M |
| `PfdSafe` | the prefetch memory: 1 entry, 2 colliding blocks, 2 readers, 2 prefetchers, resets, failing I/O, interrupted waits, fairness | `PfdIInv`, `CopiesItsBlock`, `HeldStaysPut`, `ReadsReturn` | 0.11 M |
| `PfdWb` | write-back behind the prefetch memory, 2 slots, 2 bios, 1 crash, an entry for each block | `Durable`, `VerifyHolds` | 1.8 M |
| `Wt` | 1 set of 2 slots, 3 disk blocks, 2 submitters of bios without end, every fault, fairness | `OneOwner`, `OnlyWakeUpsRemain`, `CurrentIfApart`, `EveryBioEnds` | 0.71 M |

Runs whose property the code violates (section 7): `PfdStaleRead`, `PfdReleasesForeign`.

**Why these bounds.**

*`Flashcache`.* Two slots and two disk blocks are the least with reuse of a slot for another block, two updates in one
metadata write, and a bio that is drained from one block onto another. Three bios give the triangles the properties
are about: one at work on a block, one queued on it, one arriving; or a write, a later write, and a read or writeback
of the result. One crash is enough because after a reload the state is again one from which everything before a crash
can happen. `WbLive` has two bios, and no symmetry (unsound for liveness):
what it checks besides needs a write, a writeback that fails or is under way, and one more bio.

*`BlockLists`.* Three blocks are the least in which a block has a neighbour on each side, so that every branch of
every list operation is taken; with hot lists of one, two and three blocks each list is empty, single or longer. Three
disk blocks of a hash chain, for three slots, with a fourth in the other chain, take and restore every position of a
chain.

*`Lifecycle`.* With two slots a metadata write carries the state of a slot other than its own, merging takes in a
neighbour, and a block can move from one slot to the other, the old one staying on flash. With limits of one a cleaning
leaves no room for a second: the sweep and the sync stop at it, and merging and invalidation go over it (section 7).
There is no bound on the number of lives, crashes, turns of the removal or of the cleaning. What an instance of one set
cannot show (a sync or a removal that goes over several sets) is proved, as far as it is safety (section 6).

*`Admission`.* `max_pids` of 1 lets a list have two entries (see section 7), of three pids, so that adding, dropping,
deleting and expiry all find one, two or no other entries. Two flows suffice for one to push out or take over the
other. Time has no bound.

*`PfdStat`.* Nine whole blocks and a partial one hold runs of one, two and three blocks at every distance, and windows
that meet both ends of the disk. A third process makes the two records change hands. Records grow only while their
pattern goes on, so the disk bounds them.

*The prefetch memory.* Collisions on one entry are the whole difficulty, so one entry is the worst case.

*`FlashcacheWt`.* Three blocks that compete for two slots reclaim under every state of both. A bio invalidates at most
the slots of its own block, so two submitters are all the parties to a race there: one whose job owns the slot, and
one that meets it. Each of them goes on without end.

What does not depend on instance size is proved for every size (section 6).

**Fairness.** In each module devices complete the I/O sent to them, `do_work` runs as a work item and takes everything
off its lists, and a thread that has dropped a lock goes on: weak fairness of the steps of each block, bio and reader.
Arrivals, cleaning, crashes and administrators are not fair. Beyond that:

- `Flashcache` needs strong fairness for `MdWriteDone` on each block: the model keeps `queued_updates` as a set, where
  the code's is a first-in first-out queue (appended at the tail, main.c:1008-1012; taken from the head,
  main.c:966-974), in which no update is overtaken for ever.
- `Lifecycle` needs strong fairness for the start, the copy and the metadata update of *some* writeback, and for
  `SyncBlocks`: a removal tries again as long as writebacks fail, and ends only if the devices and the allocator do
  not refuse every time. The code has no other end.
- `Admission` needs fairness of `Tick` and of `MapRead`: entries are expired by I/O, and by nothing else.
- `PfdFairSpec` does not assume that anyone interrupts a wait (`DownInterrupted`), or resets the memory.

`EveryBioEnds` of `Flashcache` allows for the machine being stopped by a `VERIFY`, because metadata write errors do
that (section 7). `ExpiredUnlessPostponed` allows for the expiry being put off, because the code does that (section
7).

## 6. The proofs

All of the following are checked by TLAPS for every value of the constants (number of slots, sets, blocks, bios,
crashes, limits), under the assumptions on them named `FlashcacheAssumption`, `PfdAssumption`, `LifecycleAssumption`,
`WtAssumption`, `AdmissionAssumption`, `PfdStatAssumption` and `BlockListsAssumption`: the special values are not
members of the sets they stand outside of, values of different kinds are different, faults, modes and policies are
known ones, every block has a set or a hash bucket, a percentage is at most 100 (`flashcache_reclaim_rebalance_lru`
refuses others), in `FlashcacheWt` the sets are full (`cache_ctr` rounds the size down), and limits and sizes are
numbers, those that the code divides by or counts down from being positive.

*`IInv`* (`FlashcacheInv`) is inductive whatever fails, in every mode. `PendingInProgress` says that a queue implies
an INPROG bit; alone it is not inductive, since which handler turns the bit off depends on the job behind it. So
`IInv` says that a block has INPROG bits exactly when it has a job, and then exactly the bit of the job's action
(`JobInv`); what each phase implies about the bits and the bio (`PhaseInv`); that the lists mirror the bits
(`ListInv`); that the slots in the metadata pipeline are those whose jobs are in phase `md`, each there once
(`PipelineInv`); that a bio is on at most one queue and in at most one job (`QueueInv`); and that dirty records, on
flash or in the image being written, are unique (`DirtyRecordsInv`). The last is what a reload needs to keep
`ListInv`. `Inductive` proves it action by action; `TypeCorrect`, `SetStaysPartitioned` and `NoBioStranded` follow.

*`MdCurrentInv`* is inductive relative to `IInv` if no metadata write fails (`NoMdWriteFault`, a hypothesis of the
theorems). It follows a dirtying write through the pipeline (image, flash, memory) and says that the record of every
other dirty block in the image is right although it was taken in the middle of that block's own transition. An update
for which there is no page (`MdKickoffFails`) is over as well, and has not landed (`MdLanded`): its block keeps the
state it had, in memory and on flash. `FlashMdStaysCurrent` follows, and `NoVerifyFires` if there always is a page
too (`NoMdFaults`). Without the hypotheses both are false (section 7).

`WritebackIsStable` is `StableDuringWriteback` from `IInv` alone, whatever fails: a slot
under `DISKWRITEINPROG` has the one job `WRITEDISK`, so no other action finds it idle, and its `DIRTY` bit goes only
in `MdJobDone`, whose update entered the pipeline after a copy that did not fail.

*`CleanDataInv`* (`FlashcacheInv`, proved in `FlashcacheProofs`) is inductive relative to `IInv`, whatever fails,
in every mode. `CleanAgreesWithDisk` is about blocks that are idle; a block becomes idle at the end of a fill, a write
or a cleaning, so what it holds then has to be followed from where it was read. `CleanInv` says that a block agrees
with the disk while it can be hit (also during the hit), that what a fill has read does so until it is written to the
SSD, and that a copied dirty block does until its metadata update is over. A block is excused by a write to its disk
block that is at the disk or has failed, and also, on the way, by one queued on it: that bio will drain to the disk or
fail. The proof uses that an uncached write is at the disk, and so excuses its block, from before the disk changes
until it has looked for the block again, dropped it, or queued on it.

*`DataInv`* (`FlashcacheDataInv`, proved in `FlashcacheDataProofs`) is inductive relative to `IInv` and
`MdCurrentInv` as long as `MdReliable` holds: no metadata write fails, or nothing has crashed yet. Whatever is on the
flash is not looked at before a crash, so until then the invariant has to hold for the cache and the disk alone, and
does whatever fails: a dirty block is given up by nobody, and the disk has what no dirty block has (`DiskLive`).
With `NoMdWriteFault` it holds for the flash as well, through any number of crashes.

`Durable` and `ReadsCurrent` compare what a crash or a read yields with two ghosts: `live`, the values of a block that
no acknowledged write has replaced, and `seen`, what each bio may still return. Both speak of the end of a long path,
and data is in several places before it gets there. So `DataInv` says
- of the ghosts, that a write that is out is live and that no write that is out, or yet to come, is superseded by
  another (`GhostInv`): two writes that overlap may end in either order;
- of a job, that its bio, and every bio queued on the slot, is for the slot's block, goes the way of the job's action,
  and that only clean blocks are filled (`JobBioInv`);
- of a slot, that what a hit would return is live, and what a fill has read, and, once a writeback has copied it, what
  is on the disk (`SlotDataInv`); what is in a slot that is being filled or overwritten is claimed by nobody;
- of the disk, that it has a live value of each block that is not dirty in memory (`DiskLive`);
- of the flash, if no metadata write fails, that a record that is dirty there, or in the image on its way, belongs to
  a block that is dirty in memory and stays so, or is about to be (`FlashBehindInv`): the reload then finds either
  that slot or the disk;
- of a bio that is at the disk, or drains to it without another lookup, that nothing dirty in the cache is superseded
  by it, and that what the disk holds is current for it (`DirectInv`): it is the case of an uncached write racing
  with a cached one, and the reason why the invalidation has to wait for the queue.

`NextData` goes through the actions; most change one slot (`OneSlotStep`) or one disk block and one bio, and the
lemmas on these carry the rest. `ReadsStayCurrent` and `ReadsAreCurrent` are read off it, and `AcknowledgedSurvives`
follows from it together with `MdCurrentInv`. `DataInv` was checked by TLC in all three modes before it was proved,
with and without crashes and failing metadata writes.

*The refinement* (`FlashcacheIsABlockDevice`, for the behaviours of which `[]MdReliable` is true). A request of
`BlockDevice` is out as long as its bio is anywhere in the cache, and `live` and `seen` are the same in both. So
nearly every step stutters (`Hidden`); `ArriveRefines`, `EndIoRefines`, `FailRefines` and `CrashRefines` are about the
others. What needs `DataInv` is that a read that ends returns what `seen` allows, and that what the reload finds is
live; that it finds exactly one value of each block (`OneIsRecovered`) is `IInv`.

*`ListsInv`* (`BlockListsProofs`). The properties of `BlockLists` are about what a walk along links finds, and what a
step does to a walk cannot be seen from the fields it assigns. So the invariant says that there *are* sequences of
blocks that the links represent (`Links`), with the blocks in them that ought to be there: the two LRU lists, with
their heads, tails, counts and the `lru_state` of their blocks (`Full`), and the hash chains and the invalid list,
which share their links and so are taken together as one family of disjoint sequences (`Family`, `Chained`). Every
operation on links is proved to be the operation on the sequence (`Removed`, `AddedAtMru`, `Promoted`, `HashRemoved`,
`InvalidInserted` and so on). Most handlers take a block out and put it in somewhere else; in between it is as a block
in limbo is, which is in no list (`OutOfLists`, `IntoLists`). A change of `lru_hot_pct` or a demotion of many blocks
is an iteration of single moves. That the walk finds the sequence is `WalkFindsList`, and the four invariants and
`WarmBlocksGoFirst` (with `FirstValidIsFirst`: the scan along a list stops at its first valid block) are read off it.

*The second refinement* (`LinksImplementOrder`). The lists in `BlockOrder` are what the walks find, so each lemma about
an operation gives both the invariant and the move of the sequences (`OrderMove`, `HashMove`); `EveryStep` puts the
two together for each action, and `OrderMoveIsStep` and `HashMoveIsStep` find the action of `BlockOrder`, for sets and
hot lists of any size, of which TLC has seen sets of three blocks.

*`LInv`* (`LifecycleProofs`) is inductive whatever fails. `CacheIsCurrent` and `Durable` are about the blocks in
memory and the slots on flash; alone neither is inductive, since what a metadata write does to the flash depends on
what memory said of the *other* slots, and what a load does to memory on a superblock stored in another life of the
cache. So `LInv` says what the phase implies about all blocks (`PhaseInv`: nothing in memory when down, nothing in
progress once the removal has stopped everything, and once the slots are stored they are what memory says); what an
activity implies about its block (`UseInv`: a fallow block is dirty and idle, a block in use is valid, one being
filled is clean, a disk block is in one slot); how the flash relates to memory while the cache is up (`FlashInv`: the
superblock says `DIRTY`, and each slot's record is dirty exactly when its block is, with the same `dbn`); where
current data is (`DataInv`: under a dirty block, in its slot; otherwise on the disk, and, unless it is being changed,
in the slot too); and what of it survives (`DurableInv`). The sets differ only in their counters, which `LInv` does
not need.

*`CountInv`* says that the counters are cardinalities: of the dirty blocks, the fallow ones and those being cleaned,
in each set and in all. It is inductive with `LInv`, which tells what each activity implies about the dirty and the
fallow bits, so that a handler that adjusts a counter is known to change the block as it assumes. Most handlers change
one block (`CountOneMore`, `CountOneLess`); `CleanSet` and `SyncBlocks` change many of one set, and the load and the
crash all of them. `CountersAreExact` follows for any number of sets, of which TLC has seen one.

*`WtIInv`* (`FlashcacheWtProofs`) is `OneOwner`, `OnlyWakeUpsRemain`, and a shape for jobs (`JobShape`: which slots,
directions and errors go with which use). That a slot has one owner depends on every window in which a callback has
let go of the lock, since another bio may then invalidate the slot but not take it: the induction has one step for
each of the two halves of each callback, and one for the wake-up after them. The count needs that a bounced job is given
up before it is taken again.

*`ApartInv`* (`FlashcacheWtProofs`) is inductive relative to `WtIInv`, and says nothing unless bios to a block are
kept apart. Then a disk block is in at most one slot and no slot is `INPROG_INVALID` (`BlocksApart`); a bio's slot is
the slot of its block, and a bio that goes around the cache has no slot (`UsesApart`); and a slot that can be hit is
current, as is what a bio carries from the moment the disk has served it (`DataApart`). `TheCacheIsCurrentIfApart` is
the reason why the window of section 7 needs two bios that overlap.

*`AdmIInv`* (`AdmissionProofs`). Of the lists: an entry's pid is there once and entries expire in order, so that the
expiry, which stops at the first entry that has time left, leaves none behind it that has none; what `Without` takes
off leaves the rest in order and shortens the list by the number it took, which is what the handlers subtract from
`num_pids` (`WithoutProperties`); and a dropped list has room (`DroppedProperties`), so that one more is at most
`max_pids` + 1. Of the flows: the flow of the last block is at the head and has counted the run of blocks up to it,
but perhaps for the first, which may have been repeated. Without that clause `SequentialIsSkipped` is not inductive,
since the run is a ghost and the verdict depends on the count.

*`StatInv`* (`PfdStatProofs`). A record with a stride claims as many earlier runs as its stride count, of which it
stores the last; the others are that one moved by multiples of the stride. `InUse` says which records there are (in
the middle of a run that is not longer than the ones before, or with a run and no predecessor), `Backed` that the last
reads are what the record claims, and the queue has the records in use before the unused, each of another stream. The
induction goes through the three cases of `Update`; the arithmetic of the claims (`Quotient`, `OneRunBack`) is
division by the length of a run.

The windows follow from one more conjunct of `InUse`, `Spaced`: the runs of a pattern do not overlap, since a stride
that is shorter than the run is not taken for one. Hence the pattern is injective (`PatternInjective`), and what comes
next in it has not been read. The two loops of `Window` are recursive functions from one state of the loop to the
next. Each has an invariant, `Ahead` forwards and `Behind` backwards, taken as a set that one turn of the loop maps
into itself (`AheadStep`, `BehindStep`). `ForwardStays` and `BackwardStays` then say that the loop stays in it however
often it turns: that there is a function of the number of turns at all is `IterationExists`, whose induction is over
the set of the numbers at which it holds (`AllNaturals`).

*`PfdIInv`* says that the hold count counts the readers between lookup and put, that a held entry keeps its block,
that a valid entry's memory holds its block, and that an entry in status `prepare` has exactly one filler, a thread or
an I/O. `ReadersCopyTheirBlock`, `EntriesHaveOneFiller` and `HeldEntriesStay` follow. That a late `up` of the previous
use of an entry may let a reader through early is part of the model; the reader then finds `prepare` and goes on as a
miss.

Only model-checked:

- The composition with the prefetch memory (`PfdWb`): there the proofs have no invariant yet.
- Liveness (`EveryBioEnds`, `RemovalEnds`, `ReadsReturn`, `ExpiredUnlessPostponed`), which needs ENABLED, beyond this
  prover.

## 7. Where the code departs from what it says

Two departures have a run that TLC finds violated, and an entry in `PROJECT.json` ("findings") with the line they
contradict.

- **A prefetch serves old data** (`PfdStaleRead`). Reads ask the prefetch memory first; no write invalidates it.
- **A prefetch releases someone else's block** (`PfdReleasesForeign`). `io_callback` reads `ssd_index` after it has
  published the status, by when the entry may be in use for another SSD block; that block's bits are cleared under a
  running write.

The models show more. Each of the following is part of a model, as the code has it; where it limits what a property
can say, the property or its run says so.

*I/O path.*

- A failed metadata write panics. `flashcache_md_write_done` ends the bio of a failed write and leaves `job->bio` set
  (main.c:898); `flashcache_do_pending_error` takes that for an error of another cache mode, and its `VERIFY` fails
  (main.c:456). Hence `VerifyHolds` is claimed for metadata writes that neither fail nor want for a page
  (`PfdWb` checks it, `NoVerifyFires` proves it whatever else fails), and `EveryBioEnds` up to the panic.
- A metadata write that failed only apparently loses a later write. A cleaning whose metadata write reports an error
  (main.c:920) but reached the flash leaves the block `DIRTY` in memory and clean on flash. The next write hit skips
  the metadata update (main.c:327-331), is acknowledged, and a crash discards it; "Node crashes or power failures will
  not result in data loss" (doc/flashcache-doc.txt:85). Hence `Durable` of `Flashcache` is claimed for metadata writes
  that do not fail, and `ReadsCurrent` with failing ones up to the first crash
  (`ReadsCurrentIfReliable`). A metadata write for which there is no
  page is not among them: it leaves the flash as it was, and nothing is lost (`WbCrash`, `AcknowledgedSurvives`).
- With failing allocations, `flashcache_uncached_io_complete` may be unable to invalidate after its write has reached
  the disk, or the bio queued to do so is failed with its block; a stale clean copy stays in the cache. The write is
  reported failed, so `ReadsCurrent` holds all the same, and `CleanAgreesWithDisk` excuses blocks with such a write.

*Prefetch.*

- A prefetch strands bios. `io_callback` clears the INPROG bits of the SSD block without looking at `nr_queued`
  (pfd_cache.c:323). The bios queued meanwhile stay there, and every later bio for the block joins them (main.c:376).
- `get_ssd_cache_index` calls `flashcache_lookup`, which takes a free block off the invalid list when the block is not
  cached; the prefetcher does not use it or put it back (pfd_cache.c:395). `SetPartition` does not hold behind the
  prefetcher.
- When `io_callback` is late and its entry was reused for a read from disk, `ssd_index` is -1 and the SSD block of the
  first prefetch is never released.
- On a disk whose size is not a multiple of the block, the window may take in the partial block at its end.

*Lists.*

- A promoted block goes to the LRU end of the hot list; the comment says "(MRU) end" (flashcache.h:177). It is next to
  be demoted until it is accessed once more. `BlockOrder` states what the code does.

*Life cycle.*

- The limits on cleanings in progress are exceeded: by merging, by cleanings that an invalidation starts, and because
  they are read before they are raised. So no property states them as bounds; `CountersExact` is what the code relies
  on.
- If a cleaning's job cannot be allocated, nothing kicks the next one, and the set waits for the next I/O or the
  delayed work. `do_sync` may stop at the limit for the same reason. A removal does not, since it asks again.
- A removal tests `nr_jobs` after a sleep (conf.c:1762). The sleep is all that stands between the test of
  `remove_in_prog` in `flashcache_dirty_writeback` and the increment of `nr_jobs` that follows it. The model takes the
  sleep for long enough.

*Ioctls.*

- The limit on pids is compared with `>` before adding, so a list has `max_pids` + 1 entries (`PidListsBounded` says
  so). With `max_pids` = 0 the `VERIFY` in `flashcache_drop_pids` fails. `flashcache_add_pid` does not check its
  `kmalloc`.
- Dropping takes the newest entry, not the oldest. Adding a pid again does not renew it. The walk of the expiry reads
  `node->next` after `kfree(node)`.
- One `pid_expire_check` serves both lists, and the first entry of either resets it (ioctl.c:142): entries of one list
  are not expired while the other one keeps being filled and emptied. `ExpiredUnlessPostponed` allows for this. Expiry
  is off by default (conf.c:1206).

*Write-through target.*

- A read hit's callback looks at its slot, lets go of the lock, ends the bio, and then sets `VALID` without looking
  again (wt.c:306-319). An invalidation in between is lost, and the slot serves old data; this takes a write that
  overlaps the read.
- A callback gives up its count and then wakes the destructor (wt.c:346-347, 916-917). Its bio has ended by then, so
  `cache_dtr` may be running; its wait, "for completion of all jobs submitted by this client" (wt.c:437), finds
  `nr_jobs` zero without sleeping, and `dmc` is freed (wt.c:1233), in which the callback then wakes `destroyq`. In
  `FlashcacheWt` this is a `WakeUp` when not `alive`. Hence `OnlyWakeUpsRemain` says what is left of the jobs at the
  end, and not that nothing is.
- Two overlapping bios to one block may leave it in two slots, one of them stale. Hence `CurrentIfApart`.
- The statistic `cached_blocks` drifts.
- `index << dmc->block_shift` is computed in an `int` (wt.c:604) and overflows for caches of 1 TB and more. The models
  have no sector addresses on the SSD.

## 8. What is not modelled

*Inside the modelled parts.* Statistics, the error injection hooks, checksums (compiled out), parsing of arguments,
the geometry of the metadata on flash and its migration between versions, caches without persistence. The metadata
block holds the slots of one set. A bio that spans two sets (`flashcache_setlocks_multiget`, only formats before
version 3). In `Flashcache` the order of queues (sets). An allocation that fails is part of the action that makes it.
In `Lifecycle`, the reboot notifier, which stores the metadata while I/O goes on, and a change of `fast_remove` in the
middle of a slow removal. In `BlockLists`, two concurrent writers of `lru_hot_pct` (the handler has no lock of its
own). In `Admission`, `kmalloc` failing. In `PfdCache`, the table of devices (`pfd_cache_add`, at most four).
`PFD_STAT_SEQ_FOR_ONLY` is commented out (pfd_stat.h:1), and `PfdStat` is the code without it.

*Torn writes of a dirty block.* A write to the SSD is atomic in `Flashcache`, and in `Lifecycle` the overwrite of a
dirty slot (`Torn`, `IoFails`). In the code a power failure or a failed write may leave a part of the block old and a
part new ("Torn Page Problem", doc/flashcache-doc.txt:61-65), and the dirty block is served and written back like that.
`Durable`, `CacheIsCurrent` and the refinement of `BlockDevice` are to be read of each sector: it has the old data or
that of the write that was out, as on a disk. So no acknowledged data is lost (doc:85), but the blocks of a write
are not atomic.

*Instances.* The runs have one set. What goes over several sets is in the specifications (`Lifecycle`,
`FlashcacheWt`), and the theorems about them are for any number.

*Not at all.* `flashcache_kcopy.c` (built, but `flashcache_clean_set` takes the other path, `#if 1` at main.c:1343),
`prefetchd_cache.c` and `prefetchd_stat.c` (not linked), the statistics and plain tunables of `flashcache_procfs.c` (a
tunable is a constant or a choice in the models), the utilities and the packaging. Their state is of no consequence to
the rest, or none.

## 9. Plan

What is left, in order:

1. `Lifecycle` with two sets under TLC, and composed with `Flashcache`, whose queues it replaces by a choice.
2. `SetLocks`: `flashcache_setlocks_multiget` for bios that span two sets (main.c:1588); no deadlock, and both sets
   held.
3. The table of devices of the prefetcher, and the reset against its readers on two devices.
