----------------------------- MODULE Lifecycle -----------------------------
(***************************************************************************)
(* The life of a write-back cache: creation and load (flashcache_conf.c),  *)
(* the background cleaning of its sets, with the counters, limits and      *)
(* kicks that drive it (flashcache_main.c), and a removal, slow or fast,   *)
(* that ends in the store of the metadata, which the next load trusts or   *)
(* not by the state of the superblock.                                     *)
(*                                                                         *)
(* The I/O path is abstracted from Flashcache: the queue of a busy block   *)
(* is a choice made when the I/O to it ends, and uncached I/O is one step. *)
(***************************************************************************)
EXTENDS Integers, FiniteSets

CONSTANTS
  Size,                \* the slots are 1..Size
  Assoc,               \* the slots of a set
  Dbns,                \* the blocks of the disk, as block numbers
  SetOfDbn(_),         \* hash_block: the set of a block
  None,                \* no block
  dirty_thresh_set,    \* the dirty blocks of a set that need no cleaning
  max_clean_ios_set,   \* the limits on the blocks being cleaned
  max_clean_ios_total,
  Faults               \* the faults the environment may inject

Slots == 1..Size
SetOf(s) == (s - 1) \div Assoc
Sets == {SetOf(s) : s \in Slots}
SlotsOf(t) == {s \in Slots : SetOf(s) = t}

ASSUME LifecycleAssumption ==
  /\ Size \in Nat \ {0} /\ Assoc \in Nat \ {0}
  /\ Dbns \subseteq Int /\ None \notin Dbns
  /\ \A d \in Dbns : SetOfDbn(d) \in Sets
  /\ dirty_thresh_set \in Nat
  /\ max_clean_ios_set \in Nat /\ max_clean_ios_total \in Nat
  /\ Faults \subseteq {"job_alloc", "diskclean_alloc", "io", "copy", "md_write", "store"}

VARIABLES
  phase,          \* where the device is: "down", "up", or being removed
  remove_in_prog, \* "no", "slow", "fast"
  block,          \* block[s]: the cacheblock of slot s
  nr_dirty,       \* nr_dirty[t]: the count kept for set t
  dirty_fallow,   \* dirty_fallow[t]: likewise
  clean_inprog,   \* clean_inprog[t]: likewise
  dirty_total,    \* dmc->nr_dirty
  clean_total,    \* dmc->clean_inprog
  sync_index,     \* the slots that the sync has gone over
  kicks,          \* the sets that a worker is about to clean again
  syncing,        \* a sync_blocks is about to run
  delayed_clean,  \* the delayed work that cleans all sets is scheduled
  flash_md,       \* flash_md[s]: the flash_cacheblock of slot s
  sb,             \* cache_sb_state of the superblock on flash
  ssd,            \* ghost: the block of whose current data slot s holds, or None
  disk            \* ghost: the blocks whose current data is on the disk

counters == <<nr_dirty, dirty_fallow, clean_inprog, dirty_total, clean_total>>
work == <<sync_index, kicks, syncing, delayed_clean>>
flash == <<flash_md, sb, ssd, disk>>
vars == <<phase, remove_in_prog, block, counters, work, flash>>

Busy == {"read", "fill", "write", "update", "picked", "copy", "clean"}
InvalidBlock == [dbn |-> None, dirty |-> FALSE, fallow |-> 0, busy |-> "no", by |-> "set"]
Blank == [dbn |-> None, dirty |-> FALSE]

Valid(s) == block[s].dbn # None
Idle(s) == block[s].busy = "no"
DirtyIdle(t) == {s \in SlotsOf(t) : block[s].dirty /\ Idle(s)}
Cached(d) == {s \in Slots : block[s].dbn = d}

MayFail(f) == f \in Faults

MinOf(m, n) == IF m < n THEN m ELSE n
MaxOf(m, n) == IF m < n THEN n ELSE m

NoBlocks == [s \in Slots |-> InvalidBlock]
Zero == [t \in Sets |-> 0]

Init ==
  /\ phase = "down" /\ remove_in_prog = "no"
  /\ block = NoBlocks
  /\ nr_dirty = Zero /\ dirty_fallow = Zero /\ clean_inprog = Zero
  /\ dirty_total = 0 /\ clean_total = 0
  /\ sync_index = 0 /\ kicks = {} /\ syncing = FALSE /\ delayed_clean = FALSE
  /\ flash_md = [s \in Slots |-> Blank] /\ sb = "none"
  /\ ssd = [s \in Slots |-> None] /\ disk = Dbns

-----------------------------------------------------------------------------
(* Creation, load and crash                                                *)

(* What flashcache_ctr derives from the blocks it has created or loaded.   *)
Constructed(B) ==
  /\ phase' = "up" /\ remove_in_prog' = "no"
  /\ block' = B
  /\ nr_dirty' = [t \in Sets |-> Cardinality({s \in SlotsOf(t) : B[s].dirty})]
  /\ dirty_total' = Cardinality({s \in Slots : B[s].dirty})
  /\ dirty_fallow' = Zero /\ clean_inprog' = Zero /\ clean_total' = 0
  /\ sync_index' = 0 /\ kicks' = {} /\ syncing' = FALSE /\ delayed_clean' = FALSE

(* flashcache_writeback_create, without force: there is no cache to load.  *)
(* Whatever a cache that could not be stored held is given up.             *)
Create ==
  /\ phase = "down"
  /\ sb \in {"none", "UNSTABLE"}
  /\ flash_md' = [s \in Slots |-> Blank]
  /\ \/ sb' = "DIRTY" /\ Constructed(NoBlocks)
     \/ /\ MayFail("store")
        /\ UNCHANGED <<phase, remove_in_prog, block, counters, work, sb>>
  /\ disk' = Dbns
  /\ ssd' = [s \in Slots |-> None]

(* Refuted variant: every slot is loaded whatever the superblock says.     *)
LoadedTrusting(s) ==
  IF flash_md[s].dbn # None
  THEN [InvalidBlock EXCEPT !.dbn = flash_md[s].dbn, !.dirty = flash_md[s].dirty]
  ELSE InvalidBlock

(* After an unclean shutdown, only the dirty slots are loaded.             *)
Loaded(s) ==
  IF flash_md[s].dbn # None /\ (sb \in {"CLEAN", "FASTCLEAN"} \/ flash_md[s].dirty)
  THEN [InvalidBlock EXCEPT !.dbn = flash_md[s].dbn, !.dirty = flash_md[s].dirty]
  ELSE InvalidBlock

(* flashcache_writeback_load: the superblock is made dirty before the      *)
(* cache is used.                                                          *)
Load ==
  /\ phase = "down"
  /\ sb \in {"DIRTY", "CLEAN", "FASTCLEAN"}
  /\ sb' = "DIRTY"
  /\ Constructed([s \in Slots |-> Loaded(s)])
  /\ UNCHANGED <<flash_md, ssd, disk>>

(* The load fails after the superblock was written, or lost its power.     *)
LoadFails ==
  /\ phase = "down"
  /\ sb \in {"DIRTY", "CLEAN", "FASTCLEAN"}
  /\ sb' = "DIRTY"
  /\ UNCHANGED <<phase, remove_in_prog, block, counters, work, flash_md, ssd, disk>>

(* Memory is gone; what was not acknowledged may be lost with it.          *)
Down ==
  /\ phase' = "down" /\ remove_in_prog' = "no"
  /\ block' = NoBlocks
  /\ nr_dirty' = Zero /\ dirty_fallow' = Zero /\ clean_inprog' = Zero
  /\ dirty_total' = 0 /\ clean_total' = 0
  /\ sync_index' = 0 /\ kicks' = {} /\ syncing' = FALSE /\ delayed_clean' = FALSE

(* A clean slot that was being written may hold anything.  A dirty one     *)
(* keeps its data or gets the new data: of each sector that is so, though  *)
(* the sectors of a block may then be of different ages.                   *)
Torn(S) == [s \in Slots |-> IF s \in S THEN None ELSE ssd[s]]

Crash ==
  /\ phase # "down"
  /\ Down
  /\ ssd' = Torn({s \in Slots : block[s].busy \in {"fill", "write"} /\ ~block[s].dirty})
  /\ UNCHANGED <<flash_md, sb, disk>>

-----------------------------------------------------------------------------
(* Blocks marked and cleared                                               *)

(* Refuted variant: the count of fallow blocks is not kept.                *)
ClearFallowForgets(S) ==
  /\ dirty_fallow' = dirty_fallow

(* flashcache_clear_fallow, for the blocks in S.                           *)
ClearFallow(S) ==
  /\ dirty_fallow' = [t \in Sets |->
       dirty_fallow[t] - Cardinality({s \in S \cap SlotsOf(t) : block[s].fallow = 2})]

(* Refuted variant: a block that is picked stays fallow.                   *)
PickedFallow(B, S, by) ==
  [s \in Slots |-> IF s \in S THEN [B[s] EXCEPT !.busy = "picked", !.by = by] ELSE B[s]]

(* The blocks in S are marked DISKWRITEINPROG, to be written back.         *)
Picked(B, S, by) ==
  [s \in Slots |-> IF s \in S
                   THEN [B[s] EXCEPT !.busy = "picked", !.by = by, !.fallow = 0]
                   ELSE B[s]]

(* A block that is given up goes back to the invalid list.                 *)
Dropped(S) == [s \in Slots |-> IF s \in S THEN InvalidBlock ELSE block[s]]

(* flashcache_do_pending and the ends of the callbacks, for slot s: with   *)
(* bios queued a dirty block is cleaned next and a clean one given up.     *)
Ended(s, b, queued) ==
  [block EXCEPT ![s] =
     IF ~queued THEN [b EXCEPT !.busy = "no"]
     ELSE IF b.dirty THEN [b EXCEPT !.busy = "picked", !.by = "set", !.fallow = 0]
     ELSE InvalidBlock]

-----------------------------------------------------------------------------
(* User I/O                                                                *)

User == phase = "up"

(* A lookup finds the block (flashcache_find_valid_dbn), whatever happens  *)
(* to the bio next.                                                        *)
Hit(s) ==
  /\ User /\ Valid(s)
  /\ \E busy \in {block[s].busy} \cup (IF Idle(s) THEN {"read", "write"} ELSE {}) :
       block' = [block EXCEPT ![s].fallow = 0, ![s].busy = busy]
  /\ ClearFallow({s})
  /\ UNCHANGED <<phase, remove_in_prog, nr_dirty, clean_inprog, dirty_total,
                 clean_total, work, flash>>

(* A miss takes an invalid block or one that is exactly VALID.             *)
Miss(s, d) ==
  /\ User
  /\ SetOfDbn(d) = SetOf(s) /\ Cached(d) = {}
  /\ Idle(s) /\ ~block[s].dirty
  /\ \E busy \in {"fill", "write"} :
       block' = [block EXCEPT ![s] = [InvalidBlock EXCEPT !.dbn = d, !.busy = busy]]
  /\ UNCHANGED <<phase, remove_in_prog, counters, work, flash>>

ReadDone(s) ==
  /\ block[s].busy = "read"
  /\ \E queued \in BOOLEAN : block' = Ended(s, block[s], queued)
  /\ UNCHANGED <<phase, remove_in_prog, counters, work, flash>>

(* The block read from the disk is written to flash; its metadata is not.  *)
FillDone(s) ==
  /\ block[s].busy = "fill"
  /\ \E queued \in BOOLEAN : block' = Ended(s, block[s], queued)
  /\ ssd' = [ssd EXCEPT ![s] = IF block[s].dbn \in disk THEN block[s].dbn ELSE None]
  /\ UNCHANGED <<phase, remove_in_prog, counters, work, flash_md, sb, disk>>

(* Ghost: a write to slot s is acknowledged, and every other copy is old.  *)
Acknowledged(s) ==
  /\ disk' = disk \ {block[s].dbn}
  /\ ssd' = [u \in Slots |-> IF u = s THEN block[s].dbn
                             ELSE IF ssd[u] = block[s].dbn THEN None ELSE ssd[u]]

(* The data is on flash.  A block that is dirty already is done; another   *)
(* needs its metadata updated.                                             *)
WriteLands(s) ==
  /\ block[s].busy = "write"
  /\ IF block[s].dirty
     THEN /\ \E queued \in BOOLEAN : block' = Ended(s, block[s], queued)
          /\ Acknowledged(s)
     ELSE /\ block' = [block EXCEPT ![s].busy = "update"]
          /\ ssd' = [ssd EXCEPT ![s] = block[s].dbn]
          /\ UNCHANGED disk
  /\ UNCHANGED <<phase, remove_in_prog, counters, work, flash_md, sb>>

(* An I/O error, or no memory for the job: a block that is not dirty is    *)
(* given up.                                                               *)
IoFails(s) ==
  /\ MayFail("io")
  /\ block[s].busy \in {"read", "fill", "write", "update"}
  /\ IF block[s].dirty
     THEN block' = [block EXCEPT ![s].busy = "no"] /\ UNCHANGED ssd
     ELSE block' = Dropped({s}) /\ ssd' = Torn({s})
  /\ UNCHANGED <<phase, remove_in_prog, counters, work, flash_md, sb, disk>>

(* flashcache_md_write_kickoff writes the whole md block: the slot it is   *)
(* about, and the other slots of the set as they are in memory.            *)
MdImage(s, dirty) ==
  [u \in Slots |->
     IF u = s THEN [dbn |-> block[s].dbn, dirty |-> dirty]
     ELSE IF SetOf(u) = SetOf(s) THEN [dbn |-> block[u].dbn, dirty |-> block[u].dirty]
     ELSE flash_md[u]]

(* flashcache_md_write_done for a write: the block is dirty.               *)
WriteDone(s) ==
  /\ block[s].busy = "update"
  /\ flash_md' = MdImage(s, TRUE)
  /\ \E queued \in BOOLEAN :
       block' = Ended(s, [block[s] EXCEPT !.dirty = TRUE], queued)
  /\ nr_dirty' = [nr_dirty EXCEPT ![SetOf(s)] = @ + 1]
  /\ dirty_total' = dirty_total + 1
  /\ Acknowledged(s)
  /\ UNCHANGED <<phase, remove_in_prog, dirty_fallow, clean_inprog, clean_total,
                 work, sb>>

(* Refuted variant: a dirty copy is dropped like any other.                *)
UncachedDropsDirty(d) ==
  /\ User
  /\ \A s \in Cached(d) : Idle(s)
  /\ block' = Dropped(Cached(d))
  /\ disk' = disk \cup {d}
  /\ ssd' = [s \in Slots |-> IF ssd[s] = d THEN None ELSE ssd[s]]
  /\ UNCHANGED <<phase, remove_in_prog, counters, work, flash_md, sb>>

(* flashcache_inval_blocks for an uncached bio: the idle copy of its block *)
(* is dropped if it is clean, and the bio done (a write makes every copy   *)
(* on flash old), or written back if it is dirty.                          *)
Uncached(d) ==
  /\ User
  /\ \A s \in Cached(d) : Idle(s) /\ ~block[s].dirty
  /\ block' = Dropped(Cached(d))
  /\ disk' = disk \cup {d}
  /\ ssd' = [s \in Slots |-> IF ssd[s] = d THEN None ELSE ssd[s]]
  /\ UNCHANGED <<phase, remove_in_prog, counters, work, flash_md, sb>>

UncachedConflict(d) ==
  /\ User
  /\ \E s \in Cached(d) :
       /\ Idle(s) /\ block[s].dirty
       /\ block' = Picked(block, {s}, "set")
       /\ ClearFallow({s})
  /\ UNCHANGED <<phase, remove_in_prog, nr_dirty, clean_inprog, dirty_total,
                 clean_total, work, flash>>

-----------------------------------------------------------------------------
(* flashcache_clean_set                                                    *)

(* flashcache_can_clean: how many more blocks of set t may be picked.      *)
Room(t) ==
  MaxOf(0, MinOf(max_clean_ios_set - clean_inprog[t], max_clean_ios_total - clean_total))

(* flashcache_detect_fallow, swept over set t.                             *)
Swept(t) ==
  [s \in Slots |-> IF s \in DirtyIdle(t) THEN [block[s] EXCEPT !.fallow = MinOf(2, @ + 1)]
                                         ELSE block[s]]

Fallow(B, t) == {s \in SlotsOf(t) : B[s].fallow = 2}

(* The first n members of S, in the order of the slots.                    *)
FirstOf(S, n) == {s \in S : Cardinality({u \in S : u < s}) < n}

(* flashcache_merge_writes: the dirty idle blocks that follow or precede   *)
(* those in P without a gap.                                               *)
Merged(P, t) ==
  LET C == P \cup DirtyIdle(t)
      At(d) == \E s \in C : block[s].dbn = d
      Joined(s, p) ==
        \A d \in Dbns : (block[s].dbn < d /\ d < block[p].dbn)
                          \/ (block[p].dbn < d /\ d < block[s].dbn) => At(d)
  IN {s \in C : \E p \in P : Joined(s, p)}

(* What the reclaim policy finds to clean besides the fallow blocks in P:  *)
(* to get below the threshold, or, on a miss, the blocks next in line.     *)
Further(t, P, force) ==
  LET more == MinOf(Room(t), nr_dirty[t] - dirty_thresh_set) - Cardinality(P)
      rest == DirtyIdle(t) \ P
  IN IF nr_dirty[t] > dirty_thresh_set
     THEN {Q \in SUBSET rest : Cardinality(Q) = MinOf(MaxOf(0, more), Cardinality(rest))}
     ELSE IF force > 0 /\ P = {}
     THEN {Q \in SUBSET rest : Cardinality(Q) <= MinOf(force, Room(t))}
     ELSE {{}}

(* The blocks that were picked will be written back by the caller.  When   *)
(* there are none the set is looked at again later, if it needs it.        *)
CleanBlocks(t, B, P, must) ==
  LET M == IF P = {} THEN {} ELSE Merged(P, t) IN
  /\ block' = Picked(B, M, "set")
  /\ dirty_fallow' = [dirty_fallow EXCEPT
       ![t] = @ + Cardinality(Fallow(B, t) \ Fallow(block, t)) - Cardinality(M \cap Fallow(B, t))]
  /\ delayed_clean' = (delayed_clean
                         \/ (P = {} /\ (must \/ nr_dirty[t] > dirty_thresh_set)))

(* The call: the timestamps say whether a sweep is due and whether fallow  *)
(* blocks may be cleaned.  Fallow blocks come first; when there is no room *)
(* for all of them nothing else is cleaned.                                *)
CleanSet(t, force) ==
  \E sweep, due \in BOOLEAN :
    LET B == IF sweep THEN Swept(t) ELSE block
        F == IF due THEN Fallow(B, t) ELSE {}
        P == FirstOf(F, Room(t))
    IN \/ P # F /\ CleanBlocks(t, B, P, TRUE)
       \/ P = F /\ \E Q \in Further(t, P, force) : CleanBlocks(t, B, P \cup Q, FALSE)

(* clean_set is called by the I/O path.                                    *)
CleanOnIo(t) ==
  /\ User /\ remove_in_prog = "no"
  /\ \E force \in {0, 1} : CleanSet(t, force)
  /\ UNCHANGED <<phase, remove_in_prog, nr_dirty, clean_inprog, dirty_total,
                 clean_total, sync_index, kicks, syncing, flash>>

(* clean_set is called again after a writeback.  It gives up when a        *)
(* removal has started, or when its buffers are all in use.                *)
CleanAgain(t) ==
  /\ t \in kicks
  /\ kicks' = kicks \ {t}
  /\ \/ remove_in_prog = "no" /\ CleanSet(t, 0)
     \/ /\ remove_in_prog # "no" \/ MayFail("diskclean_alloc")
        /\ UNCHANGED <<block, dirty_fallow, delayed_clean>>
  /\ UNCHANGED <<phase, remove_in_prog, nr_dirty, clean_inprog, dirty_total,
                 clean_total, sync_index, syncing, flash>>

(* flashcache_clean_all_sets, the delayed work.                            *)
CleanAllSets ==
  /\ delayed_clean
  /\ delayed_clean' = FALSE
  /\ kicks' = Sets
  /\ UNCHANGED <<phase, remove_in_prog, block, counters, sync_index, syncing, flash>>

-----------------------------------------------------------------------------
(* The writeback of one block                                              *)

(* The test that flashcache_dirty_writeback(_sync) makes.                  *)
Aborted(s) == IF block[s].by = "set" THEN remove_in_prog # "no" ELSE remove_in_prog = "fast"

(* flashcache_dirty_writeback and flashcache_dirty_writeback_sync: the     *)
(* copy is started.  That the block was marked before the removal was      *)
(* tested does no harm, as it is tested again here.                        *)
DirtyWriteback(s) ==
  /\ block[s].busy = "picked"
  /\ ~Aborted(s)
  /\ block' = [block EXCEPT ![s].busy = "copy"]
  /\ clean_inprog' = [clean_inprog EXCEPT ![SetOf(s)] = @ + 1]
  /\ clean_total' = clean_total + 1
  /\ UNCHANGED <<phase, remove_in_prog, nr_dirty, dirty_fallow, dirty_total, work, flash>>

(* ... or given up, and nothing will try again by itself.                  *)
DirtyWritebackFails(s) ==
  /\ block[s].busy = "picked"
  /\ Aborted(s) \/ MayFail("job_alloc")
  /\ block' = [block EXCEPT ![s].busy = "no"]
  /\ UNCHANGED <<phase, remove_in_prog, counters, work, flash>>

(* A writeback ends one way or the other: the counts go down, and a worker *)
(* will look for more to clean.                                            *)
Uncounted(s) ==
  /\ clean_inprog' = [clean_inprog EXCEPT ![SetOf(s)] = @ - 1]
  /\ clean_total' = clean_total - 1
  /\ IF block[s].by = "set"
     THEN kicks' = kicks \cup {SetOf(s)} /\ UNCHANGED syncing
     ELSE syncing' = TRUE /\ UNCHANGED kicks
  /\ UNCHANGED <<sync_index, delayed_clean>>

(* flashcache_kcopyd_callback(_sync): the metadata update follows.         *)
CopyDone(s) ==
  /\ block[s].busy = "copy"
  /\ disk' = disk \cup {block[s].dbn}
  /\ block' = [block EXCEPT ![s].busy = "clean"]
  /\ UNCHANGED <<phase, remove_in_prog, counters, work, flash_md, sb, ssd>>

CopyFails(s) ==
  /\ MayFail("copy")
  /\ block[s].busy = "copy"
  /\ block' = [block EXCEPT ![s].busy = "no"]
  /\ Uncounted(s)
  /\ UNCHANGED <<phase, remove_in_prog, nr_dirty, dirty_fallow, dirty_total, flash>>

(* flashcache_md_write_done for a writeback: the block is clean.           *)
CleanDone(s) ==
  /\ block[s].busy = "clean"
  /\ flash_md' = MdImage(s, FALSE)
  /\ \E queued \in BOOLEAN :
       block' = Ended(s, [block[s] EXCEPT !.dirty = FALSE], queued)
  /\ nr_dirty' = [nr_dirty EXCEPT ![SetOf(s)] = @ - 1]
  /\ dirty_total' = dirty_total - 1
  /\ Uncounted(s)
  /\ UNCHANGED <<phase, remove_in_prog, dirty_fallow, sb, ssd, disk>>

(* The metadata could not be written: the block stays dirty.  (Flashcache  *)
(* has the writes that fail and yet reach the flash.)                      *)
CleanFails(s) ==
  /\ MayFail("md_write")
  /\ block[s].busy = "clean"
  /\ block' = [block EXCEPT ![s].busy = "no"]
  /\ Uncounted(s)
  /\ UNCHANGED <<phase, remove_in_prog, nr_dirty, dirty_fallow, dirty_total, flash>>

-----------------------------------------------------------------------------
(* flashcache_sync_blocks                                                  *)

(* The call stops at a set's end, to start the writebacks it has found, or *)
(* where so many blocks are being cleaned that there is no room for more.  *)
SyncEnd(t) ==
  LET ends == {e \in sync_index..Size :
                 /\ e = sync_index \/ SetOf(e) = t
                 /\ \A i \in sync_index + 1..e :
                      Cardinality({s \in DirtyIdle(t) : sync_index < s /\ s < i})
                        + clean_total < max_clean_ios_total}
  IN CHOOSE e \in ends : \A x \in ends : x <= e

SyncBlocks ==
  /\ syncing
  /\ remove_in_prog # "fast" /\ dirty_total > 0 /\ sync_index < Size
  /\ LET t == SetOf(sync_index + 1)
         e == SyncEnd(t)
         P == {s \in DirtyIdle(t) : sync_index < s /\ s <= e}
         M == IF P = {} THEN {} ELSE Merged(P, t)
     IN /\ block' = Picked(block, M, "sync")
        /\ ClearFallow(M)
        /\ sync_index' = e
        /\ syncing' = (sync_index < e /\ e % Assoc = 0)
  /\ UNCHANGED <<phase, remove_in_prog, nr_dirty, clean_inprog, dirty_total,
                 clean_total, kicks, delayed_clean, flash>>

(* Nothing to do, or no buffers to do it with.                             *)
SyncNothing ==
  /\ syncing
  /\ \/ remove_in_prog = "fast" \/ dirty_total = 0 \/ sync_index = Size
     \/ MayFail("diskclean_alloc")
  /\ syncing' = FALSE
  /\ UNCHANGED <<phase, remove_in_prog, block, counters, sync_index, kicks,
                 delayed_clean, flash>>

(* The sysctl do_sync, once the workers are idle.                          *)
DoSync ==
  /\ User /\ kicks = {}
  /\ syncing' = TRUE /\ sync_index' = 0 /\ delayed_clean' = FALSE
  /\ UNCHANGED <<phase, remove_in_prog, block, counters, kicks, flash>>

-----------------------------------------------------------------------------
(* flashcache_sync_for_remove and flashcache_writeback_md_store            *)

(* Refuted variant: a further turn of the loop does not sync again.        *)
TurnWithoutSync(how) ==
  /\ phase' = "removing"
  /\ remove_in_prog' = how
  /\ UNCHANGED <<syncing, sync_index>>

(* A turn of the loop starts: a slow removal syncs all the blocks.         *)
Turn(how) ==
  /\ phase' = "removing"
  /\ remove_in_prog' = how
  /\ IF how = "slow"
     THEN syncing' = TRUE /\ sync_index' = 0
     ELSE UNCHANGED <<syncing, sync_index>>

(* flashcache_dtr: the device-mapper has ended all bios.                   *)
Remove ==
  /\ phase = "up"
  /\ \A s \in Slots : block[s].busy \notin {"read", "fill", "write", "update"}
  /\ \E how \in {"slow", "fast"} : Turn(how)
  /\ UNCHANGED <<block, counters, kicks, delayed_clean, flash>>

(* Every job is done and every worker idle.  That the picked blocks are    *)
(* past their test of remove_in_prog is what the sleep before the wait is  *)
(* trusted with.                                                           *)
Quiet == kicks = {} /\ ~syncing /\ \A s \in Slots : Idle(s)

(* The blocks that are still dirty are synced again, unless the removal is *)
(* a fast one.                                                             *)
RemoveAgain ==
  /\ phase = "removing" /\ Quiet
  /\ remove_in_prog = "slow" /\ dirty_total > 0
  /\ Turn("slow")
  /\ delayed_clean' = FALSE
  /\ UNCHANGED <<block, counters, kicks, flash>>

(* The md blocks in T are written, others fail; without memory for them    *)
(* nothing at all is written.                                              *)
StoreMd ==
  /\ phase = "removing" /\ Quiet
  /\ remove_in_prog = "slow" => dirty_total = 0
  /\ \E T \in {Sets} \cup (IF MayFail("store") THEN SUBSET Sets ELSE {}) :
       /\ flash_md' = [s \in Slots |->
            IF SetOf(s) \in T THEN [dbn |-> block[s].dbn, dirty |-> block[s].dirty]
            ELSE flash_md[s]]
       /\ phase' = IF T = Sets THEN "stored" ELSE "store_failed"
  /\ delayed_clean' = FALSE
  /\ UNCHANGED <<remove_in_prog, block, counters, sync_index, kicks, syncing,
                 sb, ssd, disk>>

(* Refuted variant: the errors of the md blocks are not looked at.         *)
HeaderStateIgnoresErrors == IF dirty_total = 0 THEN "CLEAN" ELSE "FASTCLEAN"

HeaderState ==
  IF phase = "store_failed" THEN "UNSTABLE"
  ELSE IF \A s \in Slots : ~block[s].dirty THEN "CLEAN" ELSE "FASTCLEAN"

(* The header is written last; then the device is gone.                    *)
StoreHeader ==
  /\ phase \in {"stored", "store_failed"}
  /\ \/ sb' = HeaderState
     \/ MayFail("store") /\ UNCHANGED sb
  /\ Down
  /\ UNCHANGED <<flash_md, ssd, disk>>

-----------------------------------------------------------------------------
SlotStep(s) ==
  \/ ReadDone(s) \/ FillDone(s) \/ WriteLands(s) \/ IoFails(s) \/ WriteDone(s)
  \/ DirtyWriteback(s) \/ DirtyWritebackFails(s)
  \/ CopyDone(s) \/ CopyFails(s) \/ CleanDone(s) \/ CleanFails(s)

Work == SyncBlocks \/ SyncNothing \/ CleanAllSets \/ \E t \in Sets : CleanAgain(t)

Removal == RemoveAgain \/ StoreMd \/ StoreHeader

Next ==
  \/ Create \/ Load \/ LoadFails \/ Crash
  \/ \E s \in Slots : Hit(s) \/ \E d \in Dbns : Miss(s, d)
  \/ \E d \in Dbns : Uncached(d) \/ UncachedConflict(d)
  \/ \E t \in Sets : CleanOnIo(t)
  \/ \E s \in Slots : SlotStep(s)
  \/ Work
  \/ DoSync \/ Remove \/ Removal

Spec == Init /\ [][Next]_vars

(* I/O ends, workers run and the removal goes on; and of the writebacks    *)
(* that are tried again and again, not every one is refused its memory,    *)
(* its copy or its metadata update.                                        *)
Fairness ==
  /\ \A s \in Slots : WF_vars(SlotStep(s))
  /\ SF_vars(\E s \in Slots : DirtyWriteback(s))
  /\ SF_vars(\E s \in Slots : CopyDone(s))
  /\ SF_vars(\E s \in Slots : CleanDone(s))
  /\ SF_vars(SyncBlocks) /\ WF_vars(SyncNothing)
  /\ \A t \in Sets : WF_vars(CleanAgain(t))
  /\ WF_vars(Removal)

FairSpec == Spec /\ Fairness

-----------------------------------------------------------------------------
(* Properties                                                              *)

TypeOK ==
  /\ phase \in {"down", "up", "removing", "stored", "store_failed"}
  /\ remove_in_prog \in {"no", "slow", "fast"}
  /\ block \in [Slots -> [dbn : Dbns \cup {None}, dirty : BOOLEAN, fallow : 0..2,
                         busy : Busy \cup {"no"}, by : {"set", "sync"}]]
  /\ sync_index \in 0..Size /\ kicks \subseteq Sets
  /\ syncing \in BOOLEAN /\ delayed_clean \in BOOLEAN
  /\ flash_md \in [Slots -> [dbn : Dbns \cup {None}, dirty : BOOLEAN]]
  /\ sb \in {"none", "DIRTY", "CLEAN", "FASTCLEAN", "UNSTABLE"}
  /\ ssd \in [Slots -> Dbns \cup {None}] /\ disk \subseteq Dbns

(* The counts that the cleaning goes by are never off, whatever failed or  *)
(* was aborted: a count too high would stop the cleaning of the set (or    *)
(* the removal) for good, and one too low trips a VERIFY.                  *)
CountersExact ==
  /\ TypeOK
  /\ \A t \in Sets :
       /\ nr_dirty[t] = Cardinality({s \in SlotsOf(t) : block[s].dirty})
       /\ dirty_fallow[t] = Cardinality({s \in SlotsOf(t) : block[s].fallow = 2})
       /\ clean_inprog[t] =
            Cardinality({s \in SlotsOf(t) : block[s].busy \in {"copy", "clean"}})
  /\ dirty_total = Cardinality({s \in Slots : block[s].dirty})
  /\ clean_total = Cardinality({s \in Slots : block[s].busy \in {"copy", "clean"}})

(* A block that is marked fallow is dirty and no I/O to it is in progress  *)
(* (the VERIFYs of clean_set, of sync and of the reclaim policies), and    *)
(* what is being written back is dirty.                                    *)
FallowIsDirtyAndIdle ==
  \A s \in Slots :
    /\ block[s].fallow > 0 => block[s].dirty /\ Idle(s)
    /\ block[s].busy \in {"picked", "copy", "clean"} => block[s].dirty

(* The cache never serves old data: a block that can be hit holds the      *)
(* current data, in no other slot, and if it is clean so does the disk.    *)
(* In particular a load trusts no slot that the metadata of an earlier     *)
(* life of the cache describes wrongly.                                    *)
CacheIsCurrent ==
  \A s \in Slots : Valid(s) =>
    /\ Cached(block[s].dbn) = {s}
    /\ Idle(s) => ssd[s] = block[s].dbn /\ (block[s].dirty \/ block[s].dbn \in disk)

(* Whenever power is lost, the current data of each block is in the slot   *)
(* that is dirty on flash, or else on the disk.                            *)
Durable ==
  \A d \in Dbns :
    LET D == {s \in Slots : flash_md[s] = [dbn |-> d, dirty |-> TRUE]} IN
    IF D = {} THEN d \in disk ELSE \A s \in D : ssd[s] = d

(* "Only CLEAN blocks exist in cache", "Both CLEAN and DIRTY blocks exist  *)
(* in cache": the superblock says so only when it is true of every slot.   *)
HeaderIsTrue ==
  sb \in {"CLEAN", "FASTCLEAN"} =>
    \A s \in Slots : flash_md[s].dbn # None =>
      /\ ssd[s] = flash_md[s].dbn
      /\ \A u \in Slots : flash_md[u].dbn = flash_md[s].dbn => u = s
      /\ ~flash_md[s].dirty => flash_md[s].dbn \in disk
      /\ sb = "CLEAN" => ~flash_md[s].dirty

(* A removal ends: a slow one cleans every block, however often writebacks *)
(* fail, and whatever the cleaning was doing when it started.              *)
RemovalEnds == phase = "removing" ~> phase = "down"
=============================================================================
