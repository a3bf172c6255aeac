--------------------------- MODULE LifecycleProofs ---------------------------
(***************************************************************************)
(* The data properties of Lifecycle, for every size of the cache, every    *)
(* disk and all limits: the cache is current, an acknowledged write        *)
(* survives a power loss, and the superblock says CLEAN only when it is    *)
(* true.  They need each other: a load is right only if the superblock is, *)
(* the superblock only if the store is, and the store only if the memory   *)
(* agreed with the flash before, so that they are proved together.  The    *)
(* counters come last: that they are exact follows from what a step may    *)
(* make of the blocks that they count.                                     *)
(***************************************************************************)
EXTENDS Lifecycle, FiniteSetTheorems, NaturalsInduction, WellFoundedInduction, TLAPS

BlockType == [dbn : Dbns \cup {None}, dirty : BOOLEAN, fallow : 0..2,
              busy : Busy \cup {"no"}, by : {"set", "sync"}]
MdType == [dbn : Dbns \cup {None}, dirty : BOOLEAN]

Types ==
  /\ block \in [Slots -> BlockType]
  /\ flash_md \in [Slots -> MdType]
  /\ ssd \in [Slots -> Dbns \cup {None}]
  /\ disk \subseteq Dbns

(* The memory is that of a cache that is there.                            *)
PhaseInv ==
  /\ phase \in {"down", "up", "removing", "stored", "store_failed"}
  /\ phase = "down" => block = NoBlocks
  /\ phase \in {"down", "stored", "store_failed"} =>
       (\A s \in Slots : Idle(s)) /\ kicks = {} /\ ~syncing /\ ~delayed_clean
  /\ phase = "stored" =>
       \A s \in Slots : flash_md[s] = [dbn |-> block[s].dbn, dirty |-> block[s].dirty]

(* A block that is in use has an identity, and no other block has it.      *)
UseInv ==
  /\ FallowIsDirtyAndIdle
  /\ \A s \in Slots :
       /\ block[s].busy # "no" \/ block[s].dirty => Valid(s)
       /\ block[s].busy \in {"fill", "update"} => ~block[s].dirty
  /\ \A s, u \in Slots : Valid(s) /\ block[s].dbn = block[u].dbn => s = u

(* The flash knows which slots are dirty, whenever the memory does.        *)
FlashInv ==
  /\ \A s \in Slots : flash_md[s].dirty => flash_md[s].dbn # None
  /\ \A s, u \in Slots :
       flash_md[s].dirty /\ flash_md[u].dirty /\ flash_md[s].dbn = flash_md[u].dbn => s = u
  /\ phase # "down" =>
       /\ sb = "DIRTY"
       /\ \A s \in Slots : /\ flash_md[s].dirty = block[s].dirty
                           /\ block[s].dirty => flash_md[s].dbn = block[s].dbn

(* What the slots hold.                                                    *)
DataInv ==
  \A s \in Slots : Valid(s) =>
    /\ block[s].dirty => ssd[s] = block[s].dbn
    /\ ~block[s].dirty => block[s].dbn \in disk
    /\ ~block[s].dirty /\ block[s].busy \in {"no", "read"} => ssd[s] = block[s].dbn
    /\ block[s].busy = "clean" => block[s].dbn \in disk

(* The data that is dirty on flash is current, and the rest is on disk.    *)
DurableInv ==
  /\ \A s \in Slots : flash_md[s].dirty => ssd[s] = flash_md[s].dbn
  /\ \A d \in Dbns :
       d \in disk \/ \E s \in Slots : flash_md[s].dirty /\ flash_md[s].dbn = d

LInv ==
  /\ Types /\ PhaseInv /\ UseInv /\ FlashInv /\ DataInv /\ DurableInv /\ HeaderIsTrue

-----------------------------------------------------------------------------
(* The properties follow                                                   *)

LEMMA Consequences == LInv => FallowIsDirtyAndIdle /\ CacheIsCurrent /\ Durable /\ HeaderIsTrue
<1> SUFFICES ASSUME LInv PROVE FallowIsDirtyAndIdle /\ CacheIsCurrent /\ Durable /\ HeaderIsTrue
  OBVIOUS
<1>1. FallowIsDirtyAndIdle /\ HeaderIsTrue
  BY DEF LInv, UseInv
<1>2. CacheIsCurrent
  <2> SUFFICES ASSUME NEW s \in Slots, Valid(s)
               PROVE  /\ Cached(block[s].dbn) = {s}
                      /\ Idle(s) => ssd[s] = block[s].dbn /\ (block[s].dirty \/ block[s].dbn \in disk)
    BY DEF CacheIsCurrent
  <2>1. Cached(block[s].dbn) = {s}
    BY DEF LInv, UseInv, Cached
  <2>2. Idle(s) => ssd[s] = block[s].dbn /\ (block[s].dirty \/ block[s].dbn \in disk)
    BY DEF LInv, DataInv, Idle, Types, BlockType
  <2> QED BY <2>1, <2>2
<1>3. Durable
  <2> SUFFICES ASSUME NEW d \in Dbns
               PROVE  LET D == {s \in Slots : flash_md[s] = [dbn |-> d, dirty |-> TRUE]} IN
                      IF D = {} THEN d \in disk ELSE \A s \in D : ssd[s] = d
    BY DEF Durable
  <2>1. \A s \in Slots : flash_md[s] = [dbn |-> d, dirty |-> TRUE]
                           <=> flash_md[s].dirty /\ flash_md[s].dbn = d
    BY DEF LInv, Types, MdType
  <2> QED BY <2>1 DEF LInv, DurableInv
<1> QED BY <1>1, <1>2, <1>3

LEMMA LInitInv == Init => LInv
<1> SUFFICES ASSUME Init PROVE LInv
  OBVIOUS
<1> USE DEF Init, NoBlocks, InvalidBlock, Blank
<1>1. Types
  BY DEF Types, BlockType, MdType
<1>2. PhaseInv /\ UseInv
  BY DEF PhaseInv, UseInv, FallowIsDirtyAndIdle, Valid, Idle
<1>3. FlashInv /\ DataInv /\ DurableInv /\ HeaderIsTrue
  BY LifecycleAssumption DEF FlashInv, DataInv, DurableInv, HeaderIsTrue, Valid
<1> QED BY <1>1, <1>2, <1>3 DEF LInv

-----------------------------------------------------------------------------
(* Steps that only take blocks into use and out of it                      *)

(* A block that is not dirty may be dropped.  Another keeps its identity   *)
(* and stays as dirty as it is, and is only used as the data it has and    *)
(* where it stands in its writeback allow.                                 *)
Harmless(s) ==
  \/ block'[s] = InvalidBlock /\ ~block[s].dirty
  \/ /\ block'[s].dbn = block[s].dbn /\ block'[s].dirty = block[s].dirty
     /\ block'[s].fallow > 0 => block[s].dirty /\ block'[s].busy = "no"
     /\ block'[s].busy \in {"picked", "copy", "clean"} => block[s].dirty
     /\ block'[s].busy = "clean" => block[s].busy = "clean"
     /\ block'[s].busy \in {"fill", "update"} => block[s].busy = block'[s].busy
     /\ block'[s].busy \in {"no", "read"} /\ ~block[s].dirty => block[s].busy \in {"no", "read"}
     /\ block'[s].busy # "no" => Valid(s)

LEMMA HarmlessInv ==
  ASSUME LInv, UNCHANGED flash, block' \in [Slots -> BlockType],
         \A s \in Slots : Harmless(s),
         phase \in {"up", "removing"}, phase' \in {"up", "removing"}
  PROVE  LInv'
<1> USE DEF LInv, flash
<1>1. Types'
  BY DEF Types
<1>2. PhaseInv'
  BY DEF PhaseInv
<1>3. UseInv'
  <2>1. FallowIsDirtyAndIdle'
    BY LifecycleAssumption DEF FallowIsDirtyAndIdle, Harmless, InvalidBlock, Idle
  <2>2. \A s \in Slots :
          /\ block'[s].busy # "no" \/ block'[s].dirty => block'[s].dbn # None
          /\ block'[s].busy \in {"fill", "update"} => ~block'[s].dirty
    BY DEF UseInv, Harmless, InvalidBlock, Valid
  <2>3. \A s \in Slots : block'[s].dbn # None => block'[s].dbn = block[s].dbn
    BY DEF Harmless, InvalidBlock
  <2>4. \A s, u \in Slots : block'[s].dbn # None /\ block'[s].dbn = block'[u].dbn => s = u
    BY <2>3 DEF UseInv, Valid
  <2> QED BY <2>1, <2>2, <2>4 DEF UseInv, Valid
<1>4. FlashInv'
  <2>1. \A s \in Slots : /\ block'[s].dirty = block[s].dirty
                         /\ block'[s].dirty => block'[s].dbn = block[s].dbn
    BY DEF Harmless, InvalidBlock, Types, BlockType
  <2> QED BY <2>1 DEF FlashInv, PhaseInv
<1>5. DataInv'
  BY DEF DataInv, Harmless, InvalidBlock, Valid
<1>6. DurableInv' /\ HeaderIsTrue'
  BY DEF DurableInv, HeaderIsTrue
<1> QED BY <1>1, <1>2, <1>3, <1>4, <1>5, <1>6

(* A block that is in use is that of a cache that is there.                *)
LEMMA BusyIsUp ==
  ASSUME LInv, NEW s \in Slots, block[s].busy # "no"
  PROVE  phase \in {"up", "removing"} /\ Valid(s)
  BY DEF LInv, PhaseInv, UseInv, NoBlocks, InvalidBlock, Idle

(* What becomes of one block.                                              *)
LEMMA BlockUpdates ==
  /\ InvalidBlock \in BlockType
  /\ \A x \in BlockType :
       /\ \A v \in Busy \cup {"no"} : [x EXCEPT !.busy = v] \in BlockType
       /\ \A v \in BOOLEAN : [x EXCEPT !.dirty = v] \in BlockType
       /\ [x EXCEPT !.fallow = 0] \in BlockType
       /\ \A v \in Busy \cup {"no"} : [x EXCEPT !.fallow = 0, !.busy = v] \in BlockType
       /\ \A by \in {"set", "sync"} :
            [x EXCEPT !.busy = "picked", !.by = by, !.fallow = 0] \in BlockType
  /\ \A d \in Dbns, v \in Busy : [InvalidBlock EXCEPT !.dbn = d, !.busy = v] \in BlockType
  /\ \A d \in Dbns, v \in BOOLEAN : [InvalidBlock EXCEPT !.dbn = d, !.dirty = v] \in BlockType
<1>1. InvalidBlock \in BlockType
  BY DEF InvalidBlock, BlockType
<1>2. \A x \in BlockType : \A v \in Busy \cup {"no"} : [x EXCEPT !.busy = v] \in BlockType
  BY DEF BlockType
<1>3. \A x \in BlockType : \A v \in BOOLEAN : [x EXCEPT !.dirty = v] \in BlockType
  BY DEF BlockType
<1>4. \A x \in BlockType : [x EXCEPT !.fallow = 0] \in BlockType
  BY DEF BlockType
<1>5. \A x \in BlockType : \A v \in Busy \cup {"no"} :
        [x EXCEPT !.fallow = 0, !.busy = v] \in BlockType
  <2> TAKE x \in BlockType
  <2> TAKE v \in Busy \cup {"no"}
  <2>1. [x EXCEPT !.fallow = 0, !.busy = v] = [[x EXCEPT !.fallow = 0] EXCEPT !.busy = v]
    OBVIOUS
  <2> QED BY <1>2, <1>4, <2>1
<1>6. \A x \in BlockType : \A by \in {"set", "sync"} :
        [x EXCEPT !.busy = "picked", !.by = by] \in BlockType
  BY DEF BlockType, Busy
<1>7. ASSUME NEW x \in BlockType, NEW by \in {"set", "sync"}
      PROVE  [x EXCEPT !.busy = "picked", !.by = by, !.fallow = 0] \in BlockType
  <2>1. [x EXCEPT !.busy = "picked", !.by = by, !.fallow = 0]
          = [[x EXCEPT !.busy = "picked", !.by = by] EXCEPT !.fallow = 0]
    OBVIOUS
  <2> QED BY <1>4, <1>6, <2>1
<1>8. \A d \in Dbns, v \in Busy : [InvalidBlock EXCEPT !.dbn = d, !.busy = v] \in BlockType
  <2> TAKE d \in Dbns, v \in Busy
  <2>1. [InvalidBlock EXCEPT !.dbn = d, !.busy = v] = [[InvalidBlock EXCEPT !.dbn = d] EXCEPT !.busy = v]
    OBVIOUS
  <2>2. [InvalidBlock EXCEPT !.dbn = d] \in BlockType
    BY <1>1 DEF BlockType
  <2> QED BY <1>2, <2>1, <2>2
<1>9. \A d \in Dbns, v \in BOOLEAN : [InvalidBlock EXCEPT !.dbn = d, !.dirty = v] \in BlockType
  <2> TAKE d \in Dbns, v \in BOOLEAN
  <2>1. [InvalidBlock EXCEPT !.dbn = d, !.dirty = v] = [[InvalidBlock EXCEPT !.dbn = d] EXCEPT !.dirty = v]
    OBVIOUS
  <2>2. [InvalidBlock EXCEPT !.dbn = d] \in BlockType
    BY <1>1 DEF BlockType
  <2> QED BY <1>3, <2>1, <2>2
<1> QED BY <1>1, <1>2, <1>3, <1>4, <1>5, <1>7, <1>8, <1>9

(* Dirty idle blocks are picked.                                           *)
LEMMA PickedInv ==
  ASSUME LInv, UNCHANGED flash, NEW B \in [Slots -> BlockType], NEW by \in {"set", "sync"},
         NEW M, M \subseteq {s \in Slots : block[s].dirty /\ Idle(s)},
         block' = Picked(B, M, by),
         \A s \in Slots : /\ [B[s] EXCEPT !.fallow = 0] = [block[s] EXCEPT !.fallow = 0]
                          /\ B[s].fallow > 0 => block[s].dirty /\ Idle(s),
         phase \in {"up", "removing"}, phase' \in {"up", "removing"}
  PROVE  LInv'
<1>1. \A s \in Slots : block[s] \in BlockType /\ B[s] \in BlockType
  BY DEF LInv, Types
<1>2. \A s \in Slots : /\ B[s].dbn = block[s].dbn /\ B[s].dirty = block[s].dirty
                       /\ B[s].busy = block[s].busy
  <2> SUFFICES ASSUME NEW s \in Slots
               PROVE  /\ B[s].dbn = block[s].dbn /\ B[s].dirty = block[s].dirty
                      /\ B[s].busy = block[s].busy
    OBVIOUS
  <2> DEFINE x == B[s]
             y == block[s]
  <2>1. x \in BlockType /\ y \in BlockType /\ [x EXCEPT !.fallow = 0] = [y EXCEPT !.fallow = 0]
    BY <1>1
  <2> HIDE DEF x, y
  <2>2. x.dbn = y.dbn /\ x.dirty = y.dirty /\ x.busy = y.busy
    BY <2>1 DEF BlockType
  <2> QED BY <2>2 DEF x, y
<1>3. \A x \in BlockType : [x EXCEPT !.busy = "picked", !.by = by, !.fallow = 0] \in BlockType
  BY BlockUpdates
<1>4. block' \in [Slots -> BlockType]
  <2> DEFINE P(s) == IF s \in M THEN [B[s] EXCEPT !.busy = "picked", !.by = by, !.fallow = 0]
                     ELSE B[s]
  <2>1. block' = [s \in Slots |-> P(s)]
    BY DEF Picked
  <2>2. \A s \in Slots : P(s) \in BlockType
    BY <1>1, <1>3
  <2> HIDE DEF P
  <2> QED BY <2>1, <2>2
<1>5. \A s \in Slots : Harmless(s)
  <2> TAKE s \in Slots
  <2>1. CASE s \in M
    <3>1. block'[s] = [B[s] EXCEPT !.busy = "picked", !.by = by, !.fallow = 0]
      BY <2>1 DEF Picked
    <3>2. /\ block'[s].dbn = block[s].dbn /\ block'[s].dirty = block[s].dirty
          /\ block'[s].fallow = 0 /\ block'[s].busy = "picked"
      BY <1>1, <1>2, <3>1 DEF BlockType
    <3>3. block[s].dirty /\ Valid(s)
      BY <2>1 DEF LInv, UseInv
    <3> QED BY <3>2, <3>3 DEF Harmless
  <2>2. CASE s \notin M
    <3>1. block'[s] = B[s]
      BY <2>2 DEF Picked
    <3>2. block[s].busy \in {"picked", "copy", "clean"} => block[s].dirty
      BY DEF LInv, UseInv, FallowIsDirtyAndIdle
    <3>3. block[s].busy # "no" => Valid(s)
      BY DEF LInv, UseInv
    <3>4. block'[s].fallow > 0 => block[s].dirty /\ block'[s].busy = "no"
      BY <1>2, <3>1 DEF Idle
    <3> QED BY <1>2, <3>1, <3>2, <3>3, <3>4 DEF Harmless
  <2> QED BY <2>1, <2>2
<1> QED BY <1>4, <1>5, HarmlessInv

-----------------------------------------------------------------------------
(* What the cleaning picks is dirty and idle                               *)

LEMMA MergedIdle ==
  ASSUME NEW t \in Sets, NEW P, P \subseteq DirtyIdle(t)
  PROVE  Merged(P, t) \subseteq {s \in Slots : block[s].dirty /\ Idle(s)}
  BY DEF Merged, DirtyIdle, SlotsOf

(* What flashcache_clean_set comes down to: B has the blocks of set t as   *)
(* they are or as a sweep marks them, and it picks from those in R.        *)
LEMMA CleanSetPicks ==
  ASSUME LInv, NEW t \in Sets, NEW force, CleanSet(t, force)
  PROVE  \E B \in [Slots -> BlockType], R \in SUBSET DirtyIdle(t), must \in BOOLEAN :
           /\ CleanBlocks(t, B, R, must)
           /\ \A s \in Slots :
                /\ [B[s] EXCEPT !.fallow = 0] = [block[s] EXCEPT !.fallow = 0]
                /\ B[s].fallow > 0 => block[s].dirty /\ Idle(s)
                /\ block[s].fallow = 2 => B[s].fallow = 2
                /\ s \notin SlotsOf(t) => B[s] = block[s]
<1>1. PICK sweep \in BOOLEAN, due \in BOOLEAN :
    LET B == IF sweep THEN Swept(t) ELSE block
        F == IF due THEN Fallow(B, t) ELSE {}
        P == FirstOf(F, Room(t))
    IN \/ P # F /\ CleanBlocks(t, B, P, TRUE)
       \/ P = F /\ \E Q \in Further(t, P, force) : CleanBlocks(t, B, P \cup Q, FALSE)
  BY DEF CleanSet
<1> DEFINE B == IF sweep THEN Swept(t) ELSE block
           F == IF due THEN Fallow(B, t) ELSE {}
           P == FirstOf(F, Room(t))
<1>2. /\ block \in [Slots -> BlockType]
      /\ \A s \in Slots : block[s].fallow > 0 => block[s].dirty /\ Idle(s)
  BY DEF LInv, Types, UseInv, FallowIsDirtyAndIdle
<1>3. DirtyIdle(t) \subseteq SlotsOf(t) /\ \A s \in DirtyIdle(t) : block[s].dirty /\ Idle(s)
  BY DEF DirtyIdle
<1>4. \A s \in Slots :
        /\ Swept(t)[s] \in BlockType
        /\ [Swept(t)[s] EXCEPT !.fallow = 0] = [block[s] EXCEPT !.fallow = 0]
        /\ Swept(t)[s].fallow > 0 => block[s].dirty /\ Idle(s)
        /\ block[s].fallow = 2 => Swept(t)[s].fallow = 2
        /\ s \notin SlotsOf(t) => Swept(t)[s] = block[s]
  <2> TAKE s \in Slots
  <2>1. CASE s \in DirtyIdle(t)
    <3>1. Swept(t)[s] = [block[s] EXCEPT !.fallow = MinOf(2, @ + 1)]
      BY <2>1 DEF Swept
    <3>2. /\ MinOf(2, block[s].fallow + 1) \in 0..2
          /\ block[s].fallow = 2 => MinOf(2, block[s].fallow + 1) = 2
      BY <1>2 DEF MinOf, BlockType
    <3> QED BY <1>2, <1>3, <2>1, <3>1, <3>2 DEF BlockType
  <2>2. CASE s \notin DirtyIdle(t)
    <3>1. Swept(t)[s] = block[s]
      BY <2>2 DEF Swept
    <3> QED BY <1>2, <3>1
  <2> QED BY <2>1, <2>2
<1>5. /\ B \in [Slots -> BlockType]
      /\ \A s \in Slots : /\ [B[s] EXCEPT !.fallow = 0] = [block[s] EXCEPT !.fallow = 0]
                          /\ B[s].fallow > 0 => block[s].dirty /\ Idle(s)
                          /\ block[s].fallow = 2 => B[s].fallow = 2
                          /\ s \notin SlotsOf(t) => B[s] = block[s]
  <2>1. CASE sweep
    <3>1. B = Swept(t) /\ Swept(t) = [s \in Slots |-> Swept(t)[s]]
      BY <2>1 DEF Swept
    <3> QED BY <1>4, <3>1
  <2>2. CASE ~sweep
    BY <1>2, <2>2
  <2> QED BY <2>1, <2>2
<1> HIDE DEF B
<1>6. F \subseteq DirtyIdle(t)
  <2>1. Fallow(B, t) \subseteq DirtyIdle(t)
    <3>1. ASSUME NEW s \in Slots, B[s].fallow = 2 PROVE block[s].dirty /\ Idle(s)
      <4>1. B[s].fallow > 0
        BY <3>1
      <4> QED BY <1>5, <4>1
    <3> QED BY <3>1 DEF Fallow, DirtyIdle, SlotsOf
  <2> QED BY <2>1
<1> HIDE DEF F
<1>7. P \subseteq DirtyIdle(t)
  BY <1>6 DEF FirstOf
<1> HIDE DEF P
<1>8. \A Q \in Further(t, P, force) : P \cup Q \subseteq DirtyIdle(t)
  BY <1>7 DEF Further
<1>9. \E R \in SUBSET DirtyIdle(t), must \in BOOLEAN : CleanBlocks(t, B, R, must)
  <2>1. CASE CleanBlocks(t, B, P, TRUE)
    BY <1>7, <2>1
  <2>2. CASE \E Q \in Further(t, P, force) : CleanBlocks(t, B, P \cup Q, FALSE)
    BY <1>8, <2>2
  <2> QED BY <1>1, <2>1, <2>2 DEF B, F, P
<1> QED BY <1>5, <1>9

(* flashcache_clean_set keeps the invariant.                               *)
LEMMA CleanSetInv ==
  ASSUME LInv, NEW t \in Sets, NEW force, CleanSet(t, force), UNCHANGED flash,
         phase \in {"up", "removing"}, phase' = phase
  PROVE  LInv'
<1>1. PICK B \in [Slots -> BlockType], R \in SUBSET DirtyIdle(t), must \in BOOLEAN :
        /\ CleanBlocks(t, B, R, must)
        /\ \A s \in Slots : /\ [B[s] EXCEPT !.fallow = 0] = [block[s] EXCEPT !.fallow = 0]
                            /\ B[s].fallow > 0 => block[s].dirty /\ Idle(s)
  BY CleanSetPicks
<1> DEFINE M == IF R = {} THEN {} ELSE Merged(R, t)
<1>2. block' = Picked(B, M, "set")
  BY <1>1 DEF CleanBlocks
<1>3. M \subseteq {s \in Slots : block[s].dirty /\ Idle(s)}
  BY <1>1, MergedIdle
<1> HIDE DEF M
<1> QED BY <1>1, <1>2, <1>3, PickedInv

-----------------------------------------------------------------------------
(* The other harmless steps                                                *)

(* Only slot s changes.                                                    *)
HarmlessChange(s, x) ==
  \/ x = InvalidBlock /\ ~block[s].dirty
  \/ /\ x.dbn = block[s].dbn /\ x.dirty = block[s].dirty
     /\ x.fallow > 0 => block[s].dirty /\ x.busy = "no"
     /\ x.busy \in {"picked", "copy", "clean"} => block[s].dirty
     /\ x.busy = "clean" => block[s].busy = "clean"
     /\ x.busy \in {"fill", "update"} => block[s].busy = x.busy
     /\ x.busy \in {"no", "read"} /\ ~block[s].dirty => block[s].busy \in {"no", "read"}
     /\ x.busy # "no" => Valid(s)

LEMMA HarmlessAt ==
  ASSUME LInv, UNCHANGED <<flash, phase>>, NEW s \in Slots, NEW x \in BlockType,
         block' = [block EXCEPT ![s] = x], phase \in {"up", "removing"},
         HarmlessChange(s, x)
  PROVE  LInv'
<1>1. block \in [Slots -> BlockType]
  BY DEF LInv, Types
<1>2. /\ block' \in [Slots -> BlockType] /\ block'[s] = x
      /\ \A u \in Slots \ {s} : block'[u] = block[u]
  BY <1>1
<1>3. Harmless(s)
  BY <1>2 DEF Harmless, HarmlessChange
<1>4. \A u \in Slots \ {s} : Harmless(u)
  BY <1>2 DEF Harmless, LInv, UseInv, FallowIsDirtyAndIdle, Idle
<1> QED BY <1>2, <1>3, <1>4, HarmlessInv

(* The end of an I/O: the block is idle, is written back next, or dropped. *)
EndedAs(b, queued) ==
  IF ~queued THEN [b EXCEPT !.busy = "no"]
  ELSE IF b.dirty THEN [b EXCEPT !.busy = "picked", !.by = "set", !.fallow = 0]
  ELSE InvalidBlock

LEMMA EndedBlock ==
  ASSUME NEW s \in Slots, NEW b \in BlockType, NEW queued \in BOOLEAN
  PROVE  /\ Ended(s, b, queued) = [block EXCEPT ![s] = EndedAs(b, queued)]
         /\ EndedAs(b, queued) \in BlockType
         /\ \/ EndedAs(b, queued) = InvalidBlock /\ ~b.dirty
            \/ /\ EndedAs(b, queued).dbn = b.dbn /\ EndedAs(b, queued).dirty = b.dirty
               /\ \/ EndedAs(b, queued).busy = "no" /\ EndedAs(b, queued).fallow = b.fallow
                  \/ EndedAs(b, queued).busy = "picked" /\ EndedAs(b, queued).fallow = 0 /\ b.dirty
<1>1. Ended(s, b, queued) = [block EXCEPT ![s] = EndedAs(b, queued)]
  BY DEF Ended, EndedAs
<1>2. CASE ~queued
  <2>1. EndedAs(b, queued) = [b EXCEPT !.busy = "no"]
    BY <1>2 DEF EndedAs
  <2>2. EndedAs(b, queued) \in BlockType
    BY <2>1 DEF BlockType
  <2> QED BY <1>1, <2>1, <2>2 DEF BlockType
<1>3. CASE queued /\ b.dirty
  <2>1. EndedAs(b, queued) = [b EXCEPT !.busy = "picked", !.by = "set", !.fallow = 0]
    BY <1>3 DEF EndedAs
  <2>2. EndedAs(b, queued) \in BlockType
    <3>1. \A by \in {"set", "sync"} :
            [b EXCEPT !.busy = "picked", !.by = by, !.fallow = 0] \in BlockType
      BY BlockUpdates
    <3>2. [b EXCEPT !.busy = "picked", !.by = "set", !.fallow = 0] \in BlockType
      BY <3>1
    <3> QED BY <2>1, <3>2
  <2>3. /\ EndedAs(b, queued).dbn = b.dbn /\ EndedAs(b, queued).dirty = b.dirty
        /\ EndedAs(b, queued).busy = "picked" /\ EndedAs(b, queued).fallow = 0
    BY <2>1 DEF BlockType
  <2> QED BY <1>1, <1>3, <2>2, <2>3
<1>4. CASE queued /\ ~b.dirty
  <2>1. EndedAs(b, queued) = InvalidBlock
    BY <1>4 DEF EndedAs
  <2> QED BY <1>1, <1>4, <2>1, BlockUpdates
<1> QED BY <1>2, <1>3, <1>4

(* The use of slot s changes.                                              *)
LEMMA BusyInv ==
  ASSUME LInv, UNCHANGED <<flash, phase>>, NEW s \in Slots, NEW v \in Busy \cup {"no"},
         block' = [block EXCEPT ![s].busy = v], block[s].busy # "no",
         \/ v \in {"picked", "copy"} /\ block[s].dirty
         \/ v = "no" /\ (block[s].dirty \/ block[s].busy = "read")
  PROVE  LInv'
<1>1. block[s] \in BlockType /\ block[s].fallow = 0
  BY DEF LInv, Types, UseInv, FallowIsDirtyAndIdle, Idle, BlockType
<1> DEFINE x == [block[s] EXCEPT !.busy = v]
<1>2. x \in BlockType /\ block' = [block EXCEPT ![s] = x]
  BY <1>1, BlockUpdates DEF LInv, Types
<1>3. x.dbn = block[s].dbn /\ x.dirty = block[s].dirty /\ x.fallow = 0 /\ x.busy = v
  BY <1>1 DEF BlockType
<1> HIDE DEF x
<1>4. Valid(s) /\ phase \in {"up", "removing"}
  BY BusyIsUp
<1>5. HarmlessChange(s, x)
  BY <1>3, <1>4 DEF HarmlessChange
<1> QED BY <1>2, <1>4, <1>5, HarmlessAt

LEMMA QuietStepsInv ==
  ASSUME LInv, NEW s \in Slots,
         DirtyWriteback(s) \/ DirtyWritebackFails(s) \/ CopyFails(s) \/ CleanFails(s)
  PROVE  LInv'
<1>1. block[s].busy \in {"picked", "copy", "clean"} /\ UNCHANGED <<flash, phase>>
  BY DEF DirtyWriteback, DirtyWritebackFails, CopyFails, CleanFails
<1>2. block[s].dirty
  BY <1>1 DEF LInv, UseInv, FallowIsDirtyAndIdle
<1>3. \E v \in {"copy", "no"} : block' = [block EXCEPT ![s].busy = v]
  BY DEF DirtyWriteback, DirtyWritebackFails, CopyFails, CleanFails
<1> QED BY <1>1, <1>2, <1>3, BusyInv DEF Busy

LEMMA ReadDoneInv ==
  ASSUME LInv, NEW s \in Slots, ReadDone(s)
  PROVE  LInv'
<1>1. block[s].busy = "read" /\ UNCHANGED <<flash, phase>>
  BY DEF ReadDone
<1>2. block[s] \in BlockType /\ block[s].fallow = 0
  BY <1>1 DEF LInv, Types, UseInv, FallowIsDirtyAndIdle, Idle, BlockType
<1>3. PICK queued \in BOOLEAN : block' = Ended(s, block[s], queued)
  BY DEF ReadDone
<1> DEFINE x == EndedAs(block[s], queued)
<1>4. /\ block' = [block EXCEPT ![s] = x] /\ x \in BlockType
      /\ \/ x = InvalidBlock /\ ~block[s].dirty
         \/ /\ x.dbn = block[s].dbn /\ x.dirty = block[s].dirty
            /\ \/ x.busy = "no" /\ x.fallow = block[s].fallow
               \/ x.busy = "picked" /\ x.fallow = 0 /\ block[s].dirty
  BY <1>2, <1>3, EndedBlock
<1> HIDE DEF x
<1>5. Valid(s) /\ phase \in {"up", "removing"}
  BY <1>1, BusyIsUp
<1>6. HarmlessChange(s, x)
  BY <1>1, <1>2, <1>4, <1>5 DEF HarmlessChange
<1> QED BY <1>1, <1>4, <1>5, <1>6, HarmlessAt

LEMMA HitInv ==
  ASSUME LInv, NEW s \in Slots, Hit(s)
  PROVE  LInv'
<1>1. phase = "up" /\ Valid(s) /\ UNCHANGED <<flash, phase>> /\ block[s] \in BlockType
  BY DEF Hit, User, LInv, Types
<1>2. PICK v \in {block[s].busy} \cup (IF Idle(s) THEN {"read", "write"} ELSE {}) :
        block' = [block EXCEPT ![s].fallow = 0, ![s].busy = v]
  BY DEF Hit
<1>3. v = block[s].busy \/ (block[s].busy = "no" /\ v \in {"read", "write"})
  BY <1>2 DEF Idle
<1>4. v \in Busy \cup {"no"}
  <2>1. block[s].busy \in Busy \cup {"no"}
    BY <1>1 DEF BlockType
  <2>2. {"read", "write"} \subseteq Busy
    BY DEF Busy
  <2> QED BY <1>3, <2>1, <2>2
<1> DEFINE x == [block[s] EXCEPT !.fallow = 0, !.busy = v]
<1>5. x \in BlockType /\ block' = [block EXCEPT ![s] = x]
  BY <1>1, <1>2, <1>4, BlockUpdates DEF LInv, Types
<1>6. x.dbn = block[s].dbn /\ x.dirty = block[s].dirty /\ x.fallow = 0 /\ x.busy = v
  BY <1>1 DEF BlockType
<1>7. block[s].busy \in {"picked", "copy", "clean"} => block[s].dirty
  BY DEF LInv, UseInv, FallowIsDirtyAndIdle
<1> HIDE DEF x
<1>8. HarmlessChange(s, x)
  BY <1>1, <1>3, <1>6, <1>7 DEF HarmlessChange
<1> QED BY <1>1, <1>5, <1>8, HarmlessAt

-----------------------------------------------------------------------------
(* The steps that change one block and what the slots hold                 *)

(* What a step may do that changes block s to x, and moves data or writes  *)
(* metadata for it.                                                        *)
BlockAllowed(s, x) ==
  /\ x.fallow > 0 => x.dirty /\ x.busy = "no"
  /\ x.busy \in {"picked", "copy", "clean"} => x.dirty
  /\ x.busy # "no" \/ x.dirty => x.dbn # None
  /\ x.busy \in {"fill", "update"} => ~x.dirty
  /\ x.dbn # None => \A u \in Slots \ {s} : block[u].dbn # x.dbn

FlashAllowed(s, x) ==
  /\ \A u \in Slots \ {s} : /\ flash_md'[u].dirty = flash_md[u].dirty
                            /\ flash_md[u].dirty => flash_md'[u].dbn = flash_md[u].dbn
  /\ flash_md'[s].dirty = x.dirty
  /\ x.dirty => flash_md'[s].dbn = x.dbn

DataAllowed(s, x) ==
  /\ \A u \in Slots \ {s} : Valid(u) =>
       /\ ssd[u] = block[u].dbn => ssd'[u] = block[u].dbn
       /\ block[u].dbn \in disk => block[u].dbn \in disk'
  /\ x.dbn # None =>
       /\ x.dirty => ssd'[s] = x.dbn
       /\ ~x.dirty => x.dbn \in disk'
       /\ ~x.dirty /\ x.busy \in {"no", "read"} => ssd'[s] = x.dbn
       /\ x.busy = "clean" => x.dbn \in disk'
  /\ \A d \in Dbns : \/ d \in disk'
                     \/ d \notin disk /\ ~(block[s].dirty /\ block[s].dbn = d)
                     \/ x.dirty /\ x.dbn = d

LEMMA SlotInv ==
  ASSUME LInv, UNCHANGED <<phase, sb>>, phase \in {"up", "removing"},
         NEW s \in Slots, NEW x \in BlockType, block' = [block EXCEPT ![s] = x],
         flash_md' \in [Slots -> MdType], ssd' \in [Slots -> Dbns \cup {None}],
         disk' \subseteq Dbns,
         BlockAllowed(s, x), FlashAllowed(s, x), DataAllowed(s, x)
  PROVE  LInv'
<1>1. /\ block' \in [Slots -> BlockType] /\ block'[s] = x
      /\ \A u \in Slots \ {s} : block'[u] = block[u]
  BY DEF LInv, Types
<1>2. Types'
  BY <1>1 DEF Types
<1>3. PhaseInv'
  BY DEF PhaseInv
<1>4. UseInv'
  <2>1. FallowIsDirtyAndIdle'
    BY <1>1 DEF LInv, UseInv, FallowIsDirtyAndIdle, BlockAllowed, Idle
  <2>2. \A u \in Slots :
          /\ block'[u].busy # "no" \/ block'[u].dirty => block'[u].dbn # None
          /\ block'[u].busy \in {"fill", "update"} => ~block'[u].dirty
    BY <1>1 DEF LInv, UseInv, BlockAllowed, Valid
  <2>3. \A u, w \in Slots : block'[u].dbn # None /\ block'[u].dbn = block'[w].dbn => u = w
    BY <1>1 DEF LInv, UseInv, BlockAllowed, Valid
  <2> QED BY <2>1, <2>2, <2>3 DEF UseInv, Valid
<1>5. \A u \in Slots : /\ flash_md'[u].dirty = block'[u].dirty
                       /\ block'[u].dirty => flash_md'[u].dbn = block'[u].dbn
  BY <1>1 DEF LInv, FlashInv, FlashAllowed
<1>6. FlashInv'
  BY <1>4, <1>5 DEF FlashInv, UseInv, LInv, Valid
<1>7. DataInv'
  <2> SUFFICES ASSUME NEW u \in Slots, block'[u].dbn # None
               PROVE  /\ block'[u].dirty => ssd'[u] = block'[u].dbn
                      /\ ~block'[u].dirty => block'[u].dbn \in disk'
                      /\ ~block'[u].dirty /\ block'[u].busy \in {"no", "read"}
                           => ssd'[u] = block'[u].dbn
                      /\ block'[u].busy = "clean" => block'[u].dbn \in disk'
    BY DEF DataInv, Valid
  <2>1. CASE u = s
    BY <1>1, <2>1 DEF DataAllowed
  <2>2. CASE u # s
    BY <1>1, <2>2 DEF DataAllowed, LInv, DataInv, Valid
  <2> QED BY <2>1, <2>2
<1>8. DurableInv'
  <2>1. \A u \in Slots : flash_md'[u].dirty => ssd'[u] = flash_md'[u].dbn
    BY <1>4, <1>5, <1>7 DEF DataInv, UseInv, Valid
  <2>2. ASSUME NEW d \in Dbns, d \notin disk'
        PROVE  \E u \in Slots : flash_md'[u].dirty /\ flash_md'[u].dbn = d
    <3>1. CASE x.dirty /\ x.dbn = d
      BY <3>1 DEF FlashAllowed
    <3>2. CASE d \notin disk /\ ~(block[s].dirty /\ block[s].dbn = d)
      <4>1. PICK u \in Slots : flash_md[u].dirty /\ flash_md[u].dbn = d
        BY <3>2 DEF LInv, DurableInv
      <4>2. u # s
        BY <3>2, <4>1 DEF LInv, FlashInv
      <4> QED BY <4>1, <4>2 DEF FlashAllowed
    <3> QED BY <2>2, <3>1, <3>2 DEF DataAllowed
  <2> QED BY <2>1, <2>2 DEF DurableInv
<1>9. HeaderIsTrue'
  BY DEF LInv, FlashInv, HeaderIsTrue
<1> QED BY <1>2, <1>3, <1>4, <1>6, <1>7, <1>8, <1>9 DEF LInv

(* What is known of a block in use.                                        *)
LEMMA InUse ==
  ASSUME LInv, NEW s \in Slots, block[s].busy # "no"
  PROVE  /\ phase \in {"up", "removing"} /\ Valid(s) /\ sb = "DIRTY"
         /\ block[s] \in BlockType /\ block[s].fallow = 0
         /\ block[s].dbn \in Dbns
         /\ \A u \in Slots \ {s} : block[u].dbn # block[s].dbn
         /\ flash_md[s].dirty = block[s].dirty
         /\ block[s].dirty => flash_md[s].dbn = block[s].dbn
<1>1. phase \in {"up", "removing"} /\ Valid(s)
  BY BusyIsUp
<1>2. block[s] \in BlockType /\ block[s].fallow = 0
  BY DEF LInv, Types, UseInv, FallowIsDirtyAndIdle, Idle, BlockType
<1>3. block[s].dbn \in Dbns
  BY <1>1, <1>2 DEF BlockType, Valid
<1> QED BY <1>1, <1>2, <1>3 DEF LInv, UseInv, FlashInv, Valid

LEMMA MissInv ==
  ASSUME LInv, NEW s \in Slots, NEW d \in Dbns, Miss(s, d)
  PROVE  LInv'
<1>1. /\ phase = "up" /\ UNCHANGED <<flash, phase, sb>>
      /\ Cached(d) = {} /\ Idle(s) /\ ~block[s].dirty
  BY DEF Miss, User, flash
<1>2. PICK v \in {"fill", "write"} :
        block' = [block EXCEPT ![s] = [InvalidBlock EXCEPT !.dbn = d, !.busy = v]]
  BY DEF Miss
<1> DEFINE x == [InvalidBlock EXCEPT !.dbn = d, !.busy = v]
<1>3. x \in BlockType
  BY BlockUpdates DEF Busy
<1>4. x.dbn = d /\ ~x.dirty /\ x.fallow = 0 /\ x.busy \in {"fill", "write"}
  BY DEF InvalidBlock
<1>5. block' = [block EXCEPT ![s] = x]
  BY <1>2
<1> HIDE DEF x
<1>6. d # None /\ \A u \in Slots : block[u].dbn # d
  BY <1>1, LifecycleAssumption DEF Cached
<1>7. d \in disk
  <2> SUFFICES ASSUME d \notin disk PROVE FALSE
    OBVIOUS
  <2>1. PICK u \in Slots : flash_md[u].dirty /\ flash_md[u].dbn = d
    BY DEF LInv, DurableInv
  <2>2. block[u].dbn = d
    BY <1>1, <2>1 DEF LInv, FlashInv
  <2> QED BY <1>6, <2>2
<1>8. flash_md[s].dirty = FALSE
  BY <1>1 DEF LInv, FlashInv, Types, MdType
<1>9. BlockAllowed(s, x)
  BY <1>4, <1>6 DEF BlockAllowed
<1>10. FlashAllowed(s, x)
  BY <1>1, <1>3, <1>4, <1>8 DEF FlashAllowed, flash, BlockType
<1>11. DataAllowed(s, x)
  BY <1>1, <1>4, <1>7 DEF DataAllowed, flash
<1>12. /\ flash_md' \in [Slots -> MdType] /\ ssd' \in [Slots -> Dbns \cup {None}]
       /\ disk' \subseteq Dbns
  BY <1>1 DEF LInv, Types, flash
<1> QED BY <1>1, <1>3, <1>5, <1>9, <1>10, <1>11, <1>12, SlotInv

(* What an I/O to block s leaves of it, when its end leaves the identity   *)
(* to b.                                                                   *)
LEMMA EndedAllowed ==
  ASSUME LInv, NEW s \in Slots, block[s].busy # "no", NEW b \in BlockType,
         b.dbn = block[s].dbn, b.fallow = 0, NEW queued \in BOOLEAN
  PROVE  /\ BlockAllowed(s, EndedAs(b, queued))
         /\ EndedAs(b, queued) \in BlockType
         /\ Ended(s, b, queued) = [block EXCEPT ![s] = EndedAs(b, queued)]
         /\ EndedAs(b, queued).dirty = b.dirty
         /\ EndedAs(b, queued).busy \in {"no", "picked"}
         /\ EndedAs(b, queued).dbn # None => EndedAs(b, queued).dbn = b.dbn
         /\ b.dirty => EndedAs(b, queued).dbn = b.dbn
<1> DEFINE x == EndedAs(b, queued)
<1>1. /\ Ended(s, b, queued) = [block EXCEPT ![s] = x] /\ x \in BlockType
      /\ \/ x = InvalidBlock /\ ~b.dirty
         \/ /\ x.dbn = b.dbn /\ x.dirty = b.dirty
            /\ \/ x.busy = "no" /\ x.fallow = b.fallow
               \/ x.busy = "picked" /\ x.fallow = 0 /\ b.dirty
  BY EndedBlock
<1> HIDE DEF x
<1>2. /\ Valid(s) /\ \A u \in Slots \ {s} : block[u].dbn # block[s].dbn
  BY InUse
<1>3. CASE x = InvalidBlock /\ ~b.dirty
  <2>1. x.dbn = None /\ x.dirty = FALSE /\ x.fallow = 0 /\ x.busy = "no"
    BY <1>3 DEF InvalidBlock
  <2>2. b.dirty = FALSE
    BY <1>3 DEF BlockType
  <2>3. BlockAllowed(s, x)
    BY <2>1 DEF BlockAllowed
  <2>4. x.dirty = b.dirty /\ x.busy \in {"no", "picked"} /\ x.dbn = None
    BY <2>1, <2>2
  <2>5. ~b.dirty
    BY <1>3
  <2> QED BY <1>1, <2>3, <2>4, <2>5 DEF x
<1>4. CASE x.dbn = b.dbn /\ x.dirty = b.dirty
           /\ \/ x.busy = "no" /\ x.fallow = b.fallow
              \/ x.busy = "picked" /\ x.fallow = 0 /\ b.dirty
  <2>1. BlockAllowed(s, x)
    BY <1>2, <1>4 DEF BlockAllowed, Valid
  <2>2. x.busy \in {"no", "picked"}
    BY <1>4
  <2>3. b.dirty => x.dbn = b.dbn
    BY <1>4
  <2> QED BY <1>1, <1>4, <2>1, <2>2, <2>3 DEF x
<1> QED BY <1>1, <1>3, <1>4

LEMMA FillDoneInv ==
  ASSUME LInv, NEW s \in Slots, FillDone(s)
  PROVE  LInv'
<1>1. /\ block[s].busy = "fill" /\ UNCHANGED <<phase, flash_md, sb, disk>>
      /\ ssd' = [ssd EXCEPT ![s] = IF block[s].dbn \in disk THEN block[s].dbn ELSE None]
  BY DEF FillDone
<1>2. ~block[s].dirty /\ Valid(s) /\ block[s] \in BlockType /\ block[s].fallow = 0
  BY <1>1, InUse DEF LInv, UseInv
<1>3. block[s].dbn \in disk /\ block[s].dbn \in Dbns /\ flash_md[s].dirty = block[s].dirty
  BY <1>1, <1>2, InUse DEF LInv, DataInv
<1>4. PICK queued \in BOOLEAN : block' = Ended(s, block[s], queued)
  BY DEF FillDone
<1> DEFINE x == EndedAs(block[s], queued)
<1>5. /\ block' = [block EXCEPT ![s] = x] /\ x \in BlockType /\ BlockAllowed(s, x)
      /\ ~x.dirty /\ x.busy \in {"no", "picked"} /\ x.dirty = block[s].dirty
      /\ x.dbn # None => x.dbn = block[s].dbn
  BY <1>1, <1>2, <1>4, EndedAllowed
<1> HIDE DEF x
<1>6. /\ ssd' \in [Slots -> Dbns \cup {None}] /\ ssd'[s] = block[s].dbn
      /\ \A u \in Slots \ {s} : ssd'[u] = ssd[u]
  BY <1>1, <1>3 DEF LInv, Types
<1>7. FlashAllowed(s, x)
  BY <1>1, <1>3, <1>5 DEF FlashAllowed
<1>8. DataAllowed(s, x)
  BY <1>1, <1>2, <1>3, <1>5, <1>6 DEF DataAllowed
<1>9. flash_md' \in [Slots -> MdType] /\ disk' \subseteq Dbns /\ phase \in {"up", "removing"}
  BY <1>1, InUse DEF LInv, Types
<1> QED BY <1>1, <1>5, <1>6, <1>7, <1>8, <1>9, SlotInv

(* A write lands on a block that is dirty already.                         *)
LEMMA DirtyWriteLandsInv ==
  ASSUME LInv, NEW s \in Slots, WriteLands(s), block[s].dirty
  PROVE  LInv'
<1>1. /\ block[s].busy = "write" /\ UNCHANGED <<phase, flash_md, sb>>
      /\ disk' = disk \ {block[s].dbn}
      /\ ssd' = [u \in Slots |-> IF u = s THEN block[s].dbn
                                 ELSE IF ssd[u] = block[s].dbn THEN None ELSE ssd[u]]
  BY DEF WriteLands, Acknowledged
<1>2. /\ Valid(s) /\ block[s] \in BlockType /\ block[s].fallow = 0 /\ block[s].dbn \in Dbns
      /\ \A u \in Slots \ {s} : block[u].dbn # block[s].dbn
      /\ flash_md[s].dirty = block[s].dirty /\ flash_md[s].dbn = block[s].dbn
      /\ phase \in {"up", "removing"}
  BY <1>1, InUse
<1>3. PICK queued \in BOOLEAN : block' = Ended(s, block[s], queued)
  BY DEF WriteLands
<1> DEFINE x == EndedAs(block[s], queued)
<1>4. /\ block' = [block EXCEPT ![s] = x] /\ x \in BlockType /\ BlockAllowed(s, x)
      /\ x.dirty = block[s].dirty /\ x.busy \in {"no", "picked"}
      /\ x.dbn = block[s].dbn
  <2>1. block[s].busy # "no" /\ block[s] \in BlockType /\ block[s].fallow = 0
    BY <1>1, <1>2
  <2>2. BlockAllowed(s, x)
    BY <2>1, EndedAllowed
  <2>3. x \in BlockType
    BY <2>1, EndedAllowed
  <2>4. Ended(s, block[s], queued) = [block EXCEPT ![s] = x]
    BY <2>1, EndedAllowed
  <2>5. x.dirty = block[s].dirty
    BY <2>1, EndedAllowed
  <2>6. x.busy \in {"no", "picked"}
    BY <2>1, EndedAllowed
  <2>7. block[s].dirty => x.dbn = block[s].dbn
    BY <2>1, EndedAllowed
  <2> QED BY <1>3, <2>2, <2>3, <2>4, <2>5, <2>6, <2>7
<1> HIDE DEF x
<1>5. ssd' \in [Slots -> Dbns \cup {None}]
  <2> DEFINE f(u) == IF u = s THEN block[s].dbn
                     ELSE IF ssd[u] = block[s].dbn THEN None ELSE ssd[u]
  <2>1. \A u \in Slots : f(u) \in Dbns \cup {None}
    BY <1>2 DEF LInv, Types
  <2>2. ssd' = [u \in Slots |-> f(u)]
    BY <1>1
  <2> HIDE DEF f
  <2> QED BY <2>1, <2>2
<1>6. ssd'[s] = block[s].dbn /\ \A u \in Slots \ {s} : ssd'[u] = ssd[u] \/ ssd[u] = block[s].dbn
  BY <1>1
<1>7. FlashAllowed(s, x)
  BY <1>1, <1>2, <1>4 DEF FlashAllowed
<1>8. DataAllowed(s, x)
  BY <1>1, <1>2, <1>4, <1>6 DEF DataAllowed
<1>9. flash_md' \in [Slots -> MdType] /\ disk' \subseteq Dbns
  BY <1>1 DEF LInv, Types
<1> QED BY <1>1, <1>2, <1>4, <1>5, <1>7, <1>8, <1>9, SlotInv

(* A write lands on another: the metadata update is next.                  *)
LEMMA CleanWriteLandsInv ==
  ASSUME LInv, NEW s \in Slots, WriteLands(s), ~block[s].dirty
  PROVE  LInv'
<1>1. /\ block[s].busy = "write" /\ UNCHANGED <<phase, flash_md, sb, disk>>
      /\ block' = [block EXCEPT ![s].busy = "update"]
      /\ ssd' = [ssd EXCEPT ![s] = block[s].dbn]
  BY DEF WriteLands
<1>2. /\ Valid(s) /\ block[s] \in BlockType /\ block[s].fallow = 0 /\ block[s].dbn \in Dbns
      /\ \A u \in Slots \ {s} : block[u].dbn # block[s].dbn
      /\ flash_md[s].dirty = block[s].dirty
      /\ phase \in {"up", "removing"}
  BY <1>1, InUse
<1>3. block[s].dbn \in disk
  BY <1>2 DEF LInv, DataInv
<1> DEFINE x == [block[s] EXCEPT !.busy = "update"]
<1>4. /\ x \in BlockType /\ x.dirty = block[s].dirty /\ x.busy = "update"
      /\ x.dbn = block[s].dbn /\ x.fallow = 0
  BY <1>2 DEF BlockType, Busy
<1>5. block' = [block EXCEPT ![s] = x]
  BY <1>1 DEF LInv, Types
<1> HIDE DEF x
<1>6. /\ ssd' \in [Slots -> Dbns \cup {None}]
      /\ \A u \in Slots \ {s} : ssd'[u] = ssd[u]
  BY <1>1, <1>2 DEF LInv, Types
<1>7. FlashAllowed(s, x) /\ BlockAllowed(s, x)
  BY <1>1, <1>2, <1>4 DEF FlashAllowed, BlockAllowed, Valid
<1>8. DataAllowed(s, x)
  BY <1>1, <1>3, <1>4, <1>6 DEF DataAllowed
<1>9. flash_md' \in [Slots -> MdType] /\ disk' \subseteq Dbns
  BY <1>1 DEF LInv, Types
<1> QED BY <1>1, <1>2, <1>4, <1>5, <1>6, <1>7, <1>8, <1>9, SlotInv

LEMMA IoFailsInv ==
  ASSUME LInv, NEW s \in Slots, IoFails(s)
  PROVE  LInv'
<1>1. block[s].busy \in {"read", "fill", "write", "update"}
      /\ UNCHANGED <<phase, flash_md, sb, disk>>
  BY DEF IoFails
<1>2. CASE block[s].dirty
  <2>1. block' = [block EXCEPT ![s].busy = "no"] /\ UNCHANGED <<flash, phase>>
    BY <1>1, <1>2 DEF IoFails, flash
  <2> QED BY <1>1, <1>2, <2>1, BusyInv
<1>3. CASE ~block[s].dirty
  <2>1. block' = Dropped({s}) /\ ssd' = Torn({s})
    BY <1>3 DEF IoFails
  <2>2. /\ InvalidBlock.dbn = None /\ InvalidBlock.dirty = FALSE
        /\ InvalidBlock.fallow = 0 /\ InvalidBlock.busy = "no"
    BY DEF InvalidBlock
  <2>3. block' = [block EXCEPT ![s] = InvalidBlock]
    BY <2>1 DEF Dropped, LInv, Types
  <2>4. InvalidBlock \in BlockType
    BY BlockUpdates
  <2>5. ssd' \in [Slots -> Dbns \cup {None}] /\ \A u \in Slots \ {s} : ssd'[u] = ssd[u]
    BY <2>1 DEF Torn, LInv, Types
  <2>6. flash_md[s].dirty = FALSE /\ phase \in {"up", "removing"}
    BY <1>1, <1>3, InUse DEF LInv, Types, MdType
  <2>7. BlockAllowed(s, InvalidBlock)
    BY <2>2 DEF BlockAllowed
  <2>8. FlashAllowed(s, InvalidBlock)
    BY <1>1, <2>2, <2>6 DEF FlashAllowed
  <2>9. DataAllowed(s, InvalidBlock)
    BY <1>1, <1>3, <2>2, <2>5 DEF DataAllowed
  <2>10. flash_md' \in [Slots -> MdType] /\ disk' \subseteq Dbns
    BY <1>1 DEF LInv, Types
  <2> QED BY <1>1, <2>3, <2>4, <2>5, <2>6, <2>8, <2>9, <2>10, <2>7, SlotInv
<1> QED BY <1>2, <1>3

(* The image of a set that is written for slot s.                          *)
LEMMA ImageAllowed ==
  ASSUME LInv, NEW s \in Slots, block[s].busy # "no", NEW dirty \in BOOLEAN, NEW x,
         flash_md' = MdImage(s, dirty), x.dirty = dirty, dirty => x.dbn = block[s].dbn
  PROVE  flash_md' \in [Slots -> MdType] /\ FlashAllowed(s, x)
<1>1. \A u \in Slots : block[u] \in BlockType /\ flash_md[u] \in MdType
  BY DEF LInv, Types
<1>2. \A u \in Slots : flash_md[u].dirty = block[u].dirty
                       /\ (block[u].dirty => flash_md[u].dbn = block[u].dbn)
  BY InUse DEF LInv, FlashInv
<1> DEFINE f(u) == IF u = s THEN [dbn |-> block[s].dbn, dirty |-> dirty]
                   ELSE IF SetOf(u) = SetOf(s) THEN [dbn |-> block[u].dbn, dirty |-> block[u].dirty]
                   ELSE flash_md[u]
<1>3. \A u \in Slots : f(u) \in MdType
  BY <1>1 DEF MdType, BlockType
<1>4. flash_md' = [u \in Slots |-> f(u)]
  BY DEF MdImage
<1>5. f(s).dirty = dirty /\ f(s).dbn = block[s].dbn
  OBVIOUS
<1>6. \A u \in Slots \ {s} : /\ f(u).dirty = flash_md[u].dirty
                             /\ flash_md[u].dirty => f(u).dbn = flash_md[u].dbn
  BY <1>2
<1> HIDE DEF f
<1>7. flash_md' \in [Slots -> MdType] /\ \A u \in Slots : flash_md'[u] = f(u)
  BY <1>3, <1>4
<1> QED BY <1>5, <1>6, <1>7 DEF FlashAllowed

LEMMA WriteDoneInv ==
  ASSUME LInv, NEW s \in Slots, WriteDone(s)
  PROVE  LInv'
<1>1. /\ block[s].busy = "update" /\ UNCHANGED <<phase, sb>>
      /\ flash_md' = MdImage(s, TRUE)
      /\ disk' = disk \ {block[s].dbn}
      /\ ssd' = [u \in Slots |-> IF u = s THEN block[s].dbn
                                 ELSE IF ssd[u] = block[s].dbn THEN None ELSE ssd[u]]
  BY DEF WriteDone, Acknowledged
<1>2. /\ Valid(s) /\ block[s] \in BlockType /\ block[s].fallow = 0 /\ block[s].dbn \in Dbns
      /\ \A u \in Slots \ {s} : block[u].dbn # block[s].dbn
      /\ phase \in {"up", "removing"}
  BY <1>1, InUse
<1>3. PICK queued \in BOOLEAN : block' = Ended(s, [block[s] EXCEPT !.dirty = TRUE], queued)
  BY DEF WriteDone
<1> DEFINE b == [block[s] EXCEPT !.dirty = TRUE]
           x == EndedAs(b, queued)
<1>4. b \in BlockType /\ b.dbn = block[s].dbn /\ b.fallow = 0 /\ b.dirty = TRUE
  BY <1>2 DEF BlockType
<1>5. block' = Ended(s, b, queued)
  BY <1>3
<1> HIDE DEF b
<1>6. BlockAllowed(s, x)
  BY <1>1, <1>4, EndedAllowed
<1>7. x \in BlockType
  BY <1>1, <1>4, EndedAllowed
<1>8. block' = [block EXCEPT ![s] = x]
  BY <1>1, <1>4, <1>5, EndedAllowed
<1>9. x.dirty = TRUE
  BY <1>1, <1>4, EndedAllowed
<1>10. x.dbn = block[s].dbn /\ x.busy \in {"no", "picked"}
  BY <1>1, <1>4, EndedAllowed
<1> HIDE DEF x
<1>11. ssd' \in [Slots -> Dbns \cup {None}]
  <2> DEFINE f(u) == IF u = s THEN block[s].dbn
                     ELSE IF ssd[u] = block[s].dbn THEN None ELSE ssd[u]
  <2>1. \A u \in Slots : f(u) \in Dbns \cup {None}
    BY <1>2 DEF LInv, Types
  <2>2. ssd' = [u \in Slots |-> f(u)]
    BY <1>1
  <2> HIDE DEF f
  <2> QED BY <2>1, <2>2
<1>12. ssd'[s] = block[s].dbn /\ \A u \in Slots \ {s} : ssd'[u] = ssd[u] \/ ssd[u] = block[s].dbn
  BY <1>1
<1>13. flash_md' \in [Slots -> MdType] /\ FlashAllowed(s, x)
  BY <1>1, <1>9, <1>10, ImageAllowed
<1>14. DataAllowed(s, x)
  BY <1>1, <1>2, <1>9, <1>10, <1>12 DEF DataAllowed
<1>15. disk' \subseteq Dbns
  BY <1>1 DEF LInv, Types
<1> QED BY <1>1, <1>2, <1>6, <1>7, <1>8, <1>11, <1>13, <1>14, <1>15, SlotInv

LEMMA CopyDoneInv ==
  ASSUME LInv, NEW s \in Slots, CopyDone(s)
  PROVE  LInv'
<1>1. /\ block[s].busy = "copy" /\ UNCHANGED <<phase, flash_md, sb, ssd>>
      /\ disk' = disk \cup {block[s].dbn}
      /\ block' = [block EXCEPT ![s].busy = "clean"]
  BY DEF CopyDone
<1>2. /\ Valid(s) /\ block[s] \in BlockType /\ block[s].fallow = 0 /\ block[s].dbn \in Dbns
      /\ \A u \in Slots \ {s} : block[u].dbn # block[s].dbn
      /\ flash_md[s].dirty = block[s].dirty /\ phase \in {"up", "removing"}
  BY <1>1, InUse
<1>3. block[s].dirty /\ flash_md[s].dbn = block[s].dbn /\ ssd[s] = block[s].dbn
  BY <1>1, <1>2, InUse DEF LInv, UseInv, FallowIsDirtyAndIdle, DataInv
<1> DEFINE x == [block[s] EXCEPT !.busy = "clean"]
<1>4. /\ x \in BlockType /\ x.dirty = block[s].dirty /\ x.busy = "clean"
      /\ x.dbn = block[s].dbn /\ x.fallow = 0
  BY <1>2 DEF BlockType, Busy
<1>5. block' = [block EXCEPT ![s] = x]
  BY <1>1 DEF LInv, Types
<1> HIDE DEF x
<1>6. BlockAllowed(s, x)
  BY <1>2, <1>3, <1>4 DEF BlockAllowed, Valid
<1>7. FlashAllowed(s, x)
  BY <1>1, <1>2, <1>3, <1>4 DEF FlashAllowed
<1>8. DataAllowed(s, x)
  BY <1>1, <1>3, <1>4 DEF DataAllowed
<1>9. /\ flash_md' \in [Slots -> MdType] /\ ssd' \in [Slots -> Dbns \cup {None}]
      /\ disk' \subseteq Dbns
  BY <1>1, <1>2 DEF LInv, Types
<1> QED BY <1>1, <1>2, <1>4, <1>5, <1>6, <1>7, <1>8, <1>9, SlotInv

LEMMA CleanDoneInv ==
  ASSUME LInv, NEW s \in Slots, CleanDone(s)
  PROVE  LInv'
<1>1. /\ block[s].busy = "clean" /\ UNCHANGED <<phase, sb, ssd, disk>>
      /\ flash_md' = MdImage(s, FALSE)
  BY DEF CleanDone
<1>2. /\ Valid(s) /\ block[s] \in BlockType /\ block[s].fallow = 0 /\ block[s].dbn \in Dbns
      /\ phase \in {"up", "removing"}
  BY <1>1, InUse
<1>3. block[s].dirty /\ ssd[s] = block[s].dbn /\ block[s].dbn \in disk
  BY <1>1, <1>2 DEF LInv, UseInv, FallowIsDirtyAndIdle, DataInv
<1>4. PICK queued \in BOOLEAN : block' = Ended(s, [block[s] EXCEPT !.dirty = FALSE], queued)
  BY DEF CleanDone
<1> DEFINE b == [block[s] EXCEPT !.dirty = FALSE]
           x == EndedAs(b, queued)
<1>5. b \in BlockType /\ b.dbn = block[s].dbn /\ b.fallow = 0 /\ b.dirty = FALSE
  BY <1>2 DEF BlockType
<1>6. block' = Ended(s, b, queued)
  BY <1>4
<1> HIDE DEF b
<1>7. BlockAllowed(s, x)
  BY <1>1, <1>5, EndedAllowed
<1>8. x \in BlockType
  BY <1>1, <1>5, EndedAllowed
<1>9. block' = [block EXCEPT ![s] = x]
  BY <1>1, <1>5, <1>6, EndedAllowed
<1>10. x.dirty = FALSE
  BY <1>1, <1>5, EndedAllowed
<1>11. x.busy \in {"no", "picked"} /\ (x.dbn # None => x.dbn = block[s].dbn)
  BY <1>1, <1>5, EndedAllowed
<1> HIDE DEF x
<1>12. flash_md' \in [Slots -> MdType] /\ FlashAllowed(s, x)
  BY <1>1, <1>10, ImageAllowed
<1>13. DataAllowed(s, x)
  BY <1>1, <1>3, <1>10, <1>11 DEF DataAllowed
<1>14. ssd' \in [Slots -> Dbns \cup {None}] /\ disk' \subseteq Dbns
  BY <1>1 DEF LInv, Types
<1> QED BY <1>1, <1>2, <1>7, <1>8, <1>9, <1>12, <1>13, <1>14, SlotInv

-----------------------------------------------------------------------------
(* Uncached I/O, the cleaning of sets and the sync                         *)

LEMMA UncachedInv ==
  ASSUME LInv, NEW d \in Dbns, Uncached(d)
  PROVE  LInv'
<1>1. /\ phase = "up" /\ UNCHANGED <<phase, flash_md, sb, kicks, syncing, delayed_clean>>
      /\ \A s \in Cached(d) : Idle(s) /\ ~block[s].dirty
      /\ disk' = disk \cup {d}
      /\ ssd' = [s \in Slots |-> IF ssd[s] = d THEN None ELSE ssd[s]]
  BY DEF Uncached, User, work
<1>2. \A s \in Slots : block'[s] = IF block[s].dbn = d THEN InvalidBlock ELSE block[s]
  BY DEF Uncached, Dropped, Cached
<1>3. block' \in [Slots -> BlockType]
  <2> DEFINE f(s) == IF s \in Cached(d) THEN InvalidBlock ELSE block[s]
  <2>1. \A s \in Slots : f(s) \in BlockType
    BY BlockUpdates DEF LInv, Types
  <2>2. block' = [s \in Slots |-> f(s)]
    BY DEF Uncached, Dropped
  <2> HIDE DEF f
  <2> QED BY <2>1, <2>2
<1>4. /\ InvalidBlock.dbn = None /\ InvalidBlock.dirty = FALSE
      /\ InvalidBlock.fallow = 0 /\ InvalidBlock.busy = "no"
  BY DEF InvalidBlock
<1>5. \A s \in Slots : /\ block'[s].dbn # None => block'[s] = block[s] /\ block[s].dbn # d
                       /\ block'[s].dirty = block[s].dirty
                       /\ block[s].dirty => block'[s] = block[s] /\ block[s].dbn # d
  <2> TAKE s \in Slots
  <2>1. CASE block[s].dbn = d
    <3>1. ~block[s].dirty /\ block[s] \in BlockType
      BY <1>1, <2>1 DEF Cached, LInv, Types
    <3>2. block[s].dirty = FALSE
      BY <3>1 DEF BlockType
    <3> QED BY <1>2, <1>4, <2>1, <3>2
  <2>2. CASE block[s].dbn # d
    BY <1>2, <2>2
  <2> QED BY <2>1, <2>2
<1>6. \A s \in Slots : ssd[s] # d => ssd'[s] = ssd[s]
  BY <1>1
<1>7. Types'
  BY <1>1, <1>3 DEF LInv, Types
<1>8. PhaseInv'
  BY <1>1 DEF LInv, PhaseInv
<1>9. UseInv'
  <2>1. \A s \in Slots : block'[s] = block[s] \/ block'[s] = InvalidBlock
    BY <1>2
  <2>2. FallowIsDirtyAndIdle'
    BY <1>4, <2>1 DEF LInv, UseInv, FallowIsDirtyAndIdle, Idle
  <2>3. \A s \in Slots :
          /\ block'[s].busy # "no" \/ block'[s].dirty => block'[s].dbn # None
          /\ block'[s].busy \in {"fill", "update"} => ~block'[s].dirty
    BY <1>4, <2>1 DEF LInv, UseInv, Valid
  <2>4. \A s, u \in Slots : block'[s].dbn # None /\ block'[s].dbn = block'[u].dbn => s = u
    BY <1>5 DEF LInv, UseInv, Valid
  <2> QED BY <2>2, <2>3, <2>4 DEF UseInv, Valid
<1>10. FlashInv'
  BY <1>1, <1>5 DEF LInv, FlashInv
<1>11. DataInv'
  BY <1>1, <1>5, <1>6 DEF LInv, DataInv, Valid
<1>12. DurableInv'
  <2>1. \A s \in Slots : flash_md[s].dirty => ssd'[s] = flash_md[s].dbn
    BY <1>1, <1>5, <1>6 DEF LInv, FlashInv, DurableInv
  <2> QED BY <1>1, <2>1 DEF LInv, DurableInv
<1>13. HeaderIsTrue'
  BY <1>1 DEF LInv, FlashInv, HeaderIsTrue
<1> QED BY <1>7, <1>8, <1>9, <1>10, <1>11, <1>12, <1>13 DEF LInv

(* Blocks are picked as they are.                                          *)
LEMMA JustPickedInv ==
  ASSUME LInv, UNCHANGED flash, NEW by \in {"set", "sync"},
         NEW M, M \subseteq {s \in Slots : block[s].dirty /\ Idle(s)},
         block' = Picked(block, M, by),
         phase \in {"up", "removing"}, phase' \in {"up", "removing"}
  PROVE  LInv'
<1>1. /\ block \in [Slots -> BlockType]
      /\ \A s \in Slots : block[s].fallow > 0 => block[s].dirty /\ Idle(s)
  BY DEF LInv, Types, UseInv, FallowIsDirtyAndIdle
<1>2. \A s \in Slots : [block[s] EXCEPT !.fallow = 0] = [block[s] EXCEPT !.fallow = 0]
  OBVIOUS
<1> QED BY <1>1, <1>2, PickedInv

LEMMA UncachedConflictInv ==
  ASSUME LInv, NEW d \in Dbns, UncachedConflict(d)
  PROVE  LInv'
<1>1. phase = "up" /\ UNCHANGED <<flash, phase>>
  BY DEF UncachedConflict, User
<1>2. PICK s \in Cached(d) : Idle(s) /\ block[s].dirty /\ block' = Picked(block, {s}, "set")
  BY DEF UncachedConflict
<1>3. {s} \subseteq {u \in Slots : block[u].dirty /\ Idle(u)}
  BY <1>2 DEF Cached
<1> QED BY <1>1, <1>2, <1>3, JustPickedInv

LEMMA UnchangedBlocksInv ==
  ASSUME LInv, UNCHANGED <<block, flash>>,
         phase \in {"up", "removing"}, phase' \in {"up", "removing"}
  PROVE  LInv'
<1>1. {} \subseteq {s \in Slots : block[s].dirty /\ Idle(s)}
  OBVIOUS
<1>2. block' = Picked(block, {}, "set")
  BY DEF Picked, LInv, Types
<1> QED BY <1>1, <1>2, JustPickedInv

LEMMA CleaningInv ==
  ASSUME LInv, NEW t \in Sets, CleanOnIo(t) \/ CleanAgain(t)
  PROVE  LInv'
<1>1. CASE CleanOnIo(t)
  <2>1. PICK force \in {0, 1} : CleanSet(t, force)
    BY <1>1 DEF CleanOnIo
  <2>2. phase = "up" /\ UNCHANGED <<flash, phase>>
    BY <1>1 DEF CleanOnIo, User
  <2> QED BY <2>1, <2>2, CleanSetInv
<1>2. CASE CleanAgain(t)
  <2>1. t \in kicks /\ UNCHANGED <<flash, phase>>
    BY <1>2 DEF CleanAgain
  <2>2. CASE phase \in {"up", "removing"}
    <3>1. CASE CleanSet(t, 0)
      BY <2>1, <2>2, <3>1, CleanSetInv
    <3>2. CASE UNCHANGED block
      BY <2>1, <2>2, <3>2, UnchangedBlocksInv
    <3> QED BY <1>2, <3>1, <3>2 DEF CleanAgain
  <2> QED BY <2>1, <2>2 DEF LInv, PhaseInv
<1> QED BY <1>1, <1>2

(* sync_blocks picks dirty idle blocks of one set.                         *)
LEMMA SyncBlocksInv ==
  ASSUME LInv, SyncBlocks
  PROVE  LInv'
<1>1. syncing /\ sync_index < Size /\ UNCHANGED <<flash, phase>>
  BY DEF SyncBlocks
<1>2. phase \in {"up", "removing"}
  BY <1>1 DEF LInv, PhaseInv
<1>3. PICK t, P : /\ P \subseteq DirtyIdle(t)
                  /\ block' = Picked(block, IF P = {} THEN {} ELSE Merged(P, t), "sync")
  BY DEF SyncBlocks
<1> DEFINE M == IF P = {} THEN {} ELSE Merged(P, t)
<1>4. M \subseteq {s \in Slots : block[s].dirty /\ Idle(s)}
  BY <1>3 DEF Merged, DirtyIdle, SlotsOf
<1>5. block' = Picked(block, M, "sync")
  BY <1>3
<1> HIDE DEF M
<1> QED BY <1>1, <1>2, <1>4, <1>5, JustPickedInv

LEMMA QuietWorkInv ==
  ASSUME LInv, SyncNothing \/ CleanAllSets \/ DoSync \/ Remove \/ RemoveAgain
  PROVE  LInv'
<1>1. UNCHANGED <<block, flash>>
  BY DEF SyncNothing, CleanAllSets, DoSync, Remove, RemoveAgain
<1>2. CASE SyncNothing \/ CleanAllSets \/ DoSync
  <2>1. phase' = phase /\ (syncing \/ delayed_clean \/ phase = "up")
    BY <1>2 DEF SyncNothing, CleanAllSets, DoSync, User
  <2>2. phase \in {"up", "removing"}
    BY <2>1 DEF LInv, PhaseInv
  <2> QED BY <1>1, <2>1, <2>2, UnchangedBlocksInv
<1>3. CASE Remove \/ RemoveAgain
  <2>1. phase \in {"up", "removing"} /\ phase' = "removing"
    BY <1>3 DEF Remove, RemoveAgain, Turn
  <2> QED BY <1>1, <2>1, UnchangedBlocksInv
<1> QED BY <1>2, <1>3

-----------------------------------------------------------------------------
(* Creation, load, crash and store                                         *)

LEMMA CreateInv == ASSUME LInv, Create PROVE LInv'
<1>1. /\ phase = "down" /\ sb \in {"none", "UNSTABLE"}
      /\ flash_md' = [s \in Slots |-> Blank] /\ disk' = Dbns /\ ssd' = [s \in Slots |-> None]
  BY DEF Create
<1>2. /\ block' = NoBlocks
      /\ \/ phase' = "up" /\ sb' = "DIRTY"
         \/ phase' = "down" /\ UNCHANGED work
  BY <1>1 DEF Create, Constructed, LInv, PhaseInv
<1>3. \A s \in Slots : /\ flash_md'[s].dbn = None /\ flash_md'[s].dirty = FALSE
                       /\ block'[s].dbn = None /\ block'[s].dirty = FALSE
                       /\ block'[s].fallow = 0 /\ block'[s].busy = "no"
  BY <1>1, <1>2 DEF Blank, NoBlocks, InvalidBlock
<1>4. Types'
  <2>1. InvalidBlock \in BlockType /\ Blank \in MdType
    BY BlockUpdates DEF Blank, MdType
  <2> QED BY <1>1, <1>2, <2>1 DEF Types, NoBlocks
<1>5. PhaseInv'
  BY <1>1, <1>2, <1>3 DEF LInv, PhaseInv, Idle, work
<1>6. UseInv' /\ DataInv'
  BY <1>3 DEF UseInv, FallowIsDirtyAndIdle, DataInv, Valid, Idle
<1>7. FlashInv' /\ DurableInv' /\ HeaderIsTrue'
  BY <1>1, <1>2, <1>3 DEF FlashInv, DurableInv, HeaderIsTrue
<1> QED BY <1>4, <1>5, <1>6, <1>7 DEF LInv

LEMMA LoadInv == ASSUME LInv, Load PROVE LInv'
<1>1. /\ sb \in {"DIRTY", "CLEAN", "FASTCLEAN"} /\ sb' = "DIRTY" /\ phase' = "up"
      /\ UNCHANGED <<flash_md, ssd, disk>>
      /\ block' = [s \in Slots |-> Loaded(s)]
  BY DEF Load, Constructed
<1>2. \A s \in Slots :
        /\ Loaded(s) \in BlockType
        /\ Loaded(s).fallow = 0 /\ Loaded(s).busy = "no"
        /\ Loaded(s).dirty = flash_md[s].dirty
        /\ Loaded(s).dirty => Loaded(s).dbn # None
        /\ Loaded(s).dbn # None =>
             /\ Loaded(s).dbn = flash_md[s].dbn
             /\ sb = "DIRTY" => flash_md[s].dirty
  <2> TAKE s \in Slots
  <2>1. flash_md[s] \in MdType /\ (flash_md[s].dirty => flash_md[s].dbn # None)
    BY DEF LInv, Types, FlashInv
  <2>2. CASE flash_md[s].dbn # None /\ (sb \in {"CLEAN", "FASTCLEAN"} \/ flash_md[s].dirty)
    <3> DEFINE d == flash_md[s].dbn
               v == flash_md[s].dirty
    <3>1. Loaded(s) = [InvalidBlock EXCEPT !.dbn = d, !.dirty = v]
      BY <2>2 DEF Loaded
    <3>2. d \in Dbns /\ v \in BOOLEAN
      BY <2>1, <2>2 DEF MdType
    <3>3. Loaded(s) \in BlockType
      BY <3>1, <3>2, BlockUpdates
    <3>4. /\ Loaded(s).dbn = d /\ Loaded(s).dirty = v
          /\ Loaded(s).fallow = 0 /\ Loaded(s).busy = "no"
      BY <3>1 DEF InvalidBlock
    <3>5. sb = "DIRTY" => v
      BY <2>2
    <3> QED BY <2>2, <3>3, <3>4, <3>5
  <2>3. CASE ~(flash_md[s].dbn # None /\ (sb \in {"CLEAN", "FASTCLEAN"} \/ flash_md[s].dirty))
    <3>1. Loaded(s) = InvalidBlock
      BY <2>3 DEF Loaded
    <3>2. flash_md[s].dirty = FALSE
      BY <2>1, <2>3 DEF MdType
    <3>3. /\ InvalidBlock \in BlockType /\ InvalidBlock.dbn = None /\ InvalidBlock.dirty = FALSE
          /\ InvalidBlock.fallow = 0 /\ InvalidBlock.busy = "no"
      BY BlockUpdates DEF InvalidBlock
    <3> QED BY <3>1, <3>2, <3>3
  <2> QED BY <2>2, <2>3
<1>3. \A s \in Slots : block'[s] = Loaded(s)
  BY <1>1
<1>4. \A s, u \in Slots :
        Loaded(s).dbn # None /\ Loaded(s).dbn = Loaded(u).dbn => s = u
  <2> SUFFICES ASSUME NEW s \in Slots, NEW u \in Slots,
                      Loaded(s).dbn # None, Loaded(s).dbn = Loaded(u).dbn
               PROVE  s = u
    OBVIOUS
  <2>1. /\ Loaded(s).dbn = flash_md[s].dbn /\ (sb = "DIRTY" => flash_md[s].dirty)
        /\ Loaded(u).dbn = flash_md[u].dbn /\ (sb = "DIRTY" => flash_md[u].dirty)
    BY <1>2
  <2>2. CASE sb = "DIRTY"
    BY <2>1, <2>2 DEF LInv, FlashInv
  <2>3. CASE sb \in {"CLEAN", "FASTCLEAN"}
    BY <2>1, <2>3 DEF LInv, HeaderIsTrue
  <2> QED BY <1>1, <2>2, <2>3
<1>5. \A s \in Slots : Loaded(s).dbn # None =>
        /\ ssd[s] = Loaded(s).dbn
        /\ ~Loaded(s).dirty => Loaded(s).dbn \in disk
  <2> SUFFICES ASSUME NEW s \in Slots, Loaded(s).dbn # None
               PROVE  /\ ssd[s] = Loaded(s).dbn
                      /\ ~Loaded(s).dirty => Loaded(s).dbn \in disk
    OBVIOUS
  <2>1. /\ Loaded(s).dbn = flash_md[s].dbn /\ (sb = "DIRTY" => flash_md[s].dirty)
        /\ Loaded(s).dirty = flash_md[s].dirty
    BY <1>2
  <2>2. CASE flash_md[s].dirty
    BY <2>1, <2>2 DEF LInv, DurableInv
  <2>3. CASE ~flash_md[s].dirty
    <3>1. sb \in {"CLEAN", "FASTCLEAN"}
      BY <1>1, <2>1, <2>3
    <3> QED BY <2>1, <2>3, <3>1 DEF LInv, HeaderIsTrue
  <2> QED BY <2>2, <2>3
<1>6. Types'
  BY <1>1, <1>2 DEF LInv, Types
<1>7. PhaseInv'
  BY <1>1 DEF PhaseInv
<1>8. UseInv'
  <2>1. FallowIsDirtyAndIdle'
    BY <1>2, <1>3 DEF FallowIsDirtyAndIdle, Idle
  <2> QED BY <1>2, <1>3, <1>4, <2>1 DEF UseInv, Valid
<1>9. FlashInv'
  BY <1>1, <1>2, <1>3 DEF LInv, FlashInv
<1>10. DataInv'
  BY <1>1, <1>2, <1>3, <1>5 DEF DataInv, Valid
<1>11. DurableInv' /\ HeaderIsTrue'
  BY <1>1 DEF LInv, DurableInv, HeaderIsTrue
<1> QED BY <1>6, <1>7, <1>8, <1>9, <1>10, <1>11 DEF LInv

LEMMA LoadFailsInv == ASSUME LInv, LoadFails PROVE LInv'
<1>1. /\ phase = "down" /\ sb' = "DIRTY"
      /\ UNCHANGED <<phase, block, kicks, syncing, delayed_clean, flash_md, ssd, disk>>
  BY DEF LoadFails, work
<1>2. Types' /\ PhaseInv' /\ UseInv' /\ DataInv' /\ DurableInv'
  BY <1>1 DEF LInv, Types, PhaseInv, UseInv, FallowIsDirtyAndIdle, DataInv, DurableInv, Valid, Idle
<1>3. FlashInv' /\ HeaderIsTrue'
  BY <1>1 DEF LInv, FlashInv, HeaderIsTrue
<1> QED BY <1>2, <1>3 DEF LInv

(* When the memory is gone, so is what the invariant says of it.           *)
LEMMA DownInv ==
  ASSUME LInv, Down
  PROVE  block' \in [Slots -> BlockType] /\ PhaseInv' /\ UseInv' /\ DataInv'
<1>1. /\ phase' = "down" /\ block' = NoBlocks
      /\ kicks' = {} /\ syncing' = FALSE /\ delayed_clean' = FALSE
  BY DEF Down
<1>2. \A s \in Slots : /\ block'[s].dbn = None /\ block'[s].dirty = FALSE
                       /\ block'[s].fallow = 0 /\ block'[s].busy = "no"
  BY <1>1 DEF NoBlocks, InvalidBlock
<1>3. block' \in [Slots -> BlockType]
  BY <1>1, BlockUpdates DEF NoBlocks
<1>4. PhaseInv'
  BY <1>1, <1>2 DEF PhaseInv, Idle
<1>5. UseInv' /\ DataInv'
  BY <1>2 DEF UseInv, FallowIsDirtyAndIdle, DataInv, Valid, Idle
<1> QED BY <1>3, <1>4, <1>5

LEMMA CrashInv == ASSUME LInv, Crash PROVE LInv'
<1> DEFINE T == {s \in Slots : block[s].busy \in {"fill", "write"} /\ ~block[s].dirty}
<1>1. /\ phase # "down" /\ Down /\ UNCHANGED <<flash_md, sb, disk>> /\ ssd' = Torn(T)
  BY DEF Crash
<1>2. ssd' \in [Slots -> Dbns \cup {None}] /\ \A s \in Slots : block[s].dirty => ssd'[s] = ssd[s]
  BY <1>1 DEF Torn, LInv, Types
<1>3. phase' = "down" /\ sb = "DIRTY" /\ \A s \in Slots : flash_md[s].dirty = block[s].dirty
  BY <1>1 DEF Down, LInv, FlashInv
<1>4. Types' /\ PhaseInv' /\ UseInv' /\ DataInv'
  BY <1>1, <1>2, DownInv DEF LInv, Types
<1>5. FlashInv' /\ HeaderIsTrue'
  BY <1>1, <1>3 DEF LInv, FlashInv, HeaderIsTrue
<1>6. DurableInv'
  BY <1>1, <1>2, <1>3 DEF LInv, DurableInv
<1> QED BY <1>4, <1>5, <1>6 DEF LInv

LEMMA StoreMdInv == ASSUME LInv, StoreMd PROVE LInv'
<1>1. /\ phase = "removing" /\ phase' \in {"stored", "store_failed"}
      /\ kicks = {} /\ ~syncing /\ \A s \in Slots : Idle(s)
      /\ delayed_clean' = FALSE /\ UNCHANGED <<block, kicks, syncing, sb, ssd, disk>>
  BY DEF StoreMd, Quiet
<1>2. PICK T \in {Sets} \cup (IF MayFail("store") THEN SUBSET Sets ELSE {}) :
        /\ flash_md' = [s \in Slots |->
             IF SetOf(s) \in T THEN [dbn |-> block[s].dbn, dirty |-> block[s].dirty]
             ELSE flash_md[s]]
        /\ phase' = IF T = Sets THEN "stored" ELSE "store_failed"
  BY DEF StoreMd
<1> DEFINE f(s) == IF SetOf(s) \in T THEN [dbn |-> block[s].dbn, dirty |-> block[s].dirty]
                   ELSE flash_md[s]
<1>3. \A s \in Slots : f(s) \in MdType
  BY DEF LInv, Types, MdType, BlockType
<1>4. \A s \in Slots : /\ f(s).dirty = block[s].dirty
                       /\ block[s].dirty => f(s).dbn = block[s].dbn
  BY <1>1 DEF LInv, FlashInv
<1>5. phase' = "stored" =>
        \A s \in Slots : f(s) = [dbn |-> block[s].dbn, dirty |-> block[s].dirty]
  <2>1. \A s \in Slots : SetOf(s) \in Sets
    BY DEF Sets
  <2> QED BY <1>2, <2>1
<1>6. flash_md' = [s \in Slots |-> f(s)]
  BY <1>2
<1> HIDE DEF f
<1>7. flash_md' \in [Slots -> MdType] /\ \A s \in Slots : flash_md'[s] = f(s)
  BY <1>3, <1>6
<1>8. Types' /\ UseInv' /\ DataInv'
  BY <1>1, <1>7 DEF LInv, Types, UseInv, FallowIsDirtyAndIdle, DataInv, Valid, Idle
<1>9. PhaseInv'
  BY <1>1, <1>5, <1>7 DEF PhaseInv, Idle
<1>10. FlashInv'
  BY <1>1, <1>4, <1>7 DEF LInv, FlashInv, UseInv, Valid
<1>11. DurableInv'
  <2>1. \A s \in Slots : block[s].dirty => ssd[s] = block[s].dbn
    BY DEF LInv, UseInv, DataInv
  <2>2. \A d \in Dbns : d \in disk \/ \E s \in Slots : block[s].dirty /\ block[s].dbn = d
    BY <1>1 DEF LInv, DurableInv, FlashInv
  <2> QED BY <1>1, <1>4, <1>7, <2>1, <2>2 DEF DurableInv
<1>12. HeaderIsTrue'
  BY <1>1 DEF LInv, FlashInv, HeaderIsTrue
<1> QED BY <1>8, <1>9, <1>10, <1>11, <1>12 DEF LInv

LEMMA StoreHeaderInv == ASSUME LInv, StoreHeader PROVE LInv'
<1>1. /\ phase \in {"stored", "store_failed"} /\ Down /\ UNCHANGED <<flash_md, ssd, disk>>
      /\ sb' = HeaderState \/ UNCHANGED sb
  BY DEF StoreHeader
<1>2. sb = "DIRTY" /\ phase' = "down"
  BY <1>1 DEF Down, LInv, FlashInv
<1>3. Types' /\ PhaseInv' /\ UseInv' /\ DataInv'
  BY <1>1, DownInv DEF LInv, Types
<1>4. FlashInv' /\ DurableInv'
  BY <1>1, <1>2 DEF LInv, FlashInv, DurableInv
<1>5. HeaderIsTrue'
  <2> SUFFICES ASSUME sb' \in {"CLEAN", "FASTCLEAN"}, NEW s \in Slots, flash_md[s].dbn # None
               PROVE  /\ ssd[s] = flash_md[s].dbn
                      /\ \A u \in Slots : flash_md[u].dbn = flash_md[s].dbn => u = s
                      /\ ~flash_md[s].dirty => flash_md[s].dbn \in disk
                      /\ sb' = "CLEAN" => ~flash_md[s].dirty
    BY <1>1 DEF HeaderIsTrue
  <2>1. phase = "stored" /\ (sb' = "CLEAN" => \A u \in Slots : ~block[u].dirty)
    BY <1>1, <1>2 DEF HeaderState
  <2>2. \A u \in Slots : /\ flash_md[u].dbn = block[u].dbn /\ flash_md[u].dirty = block[u].dirty
                         /\ Idle(u)
    <3>1. \A u \in Slots : flash_md[u] = [dbn |-> block[u].dbn, dirty |-> block[u].dirty]
      BY <2>1 DEF LInv, PhaseInv
    <3>2. \A u \in Slots : Idle(u)
      BY <2>1 DEF LInv, PhaseInv
    <3>3. \A u \in Slots : flash_md[u].dbn = block[u].dbn /\ flash_md[u].dirty = block[u].dirty
      <4>1. \A x \in BlockType : [dbn |-> x.dbn, dirty |-> x.dirty].dbn = x.dbn
                               /\ [dbn |-> x.dbn, dirty |-> x.dirty].dirty = x.dirty
        BY DEF BlockType
      <4> QED BY <3>1, <4>1 DEF LInv, Types
    <3> QED BY <3>2, <3>3
  <2> QED BY <2>1, <2>2 DEF LInv, UseInv, DataInv, Valid, Idle
<1> QED BY <1>3, <1>4, <1>5 DEF LInv

-----------------------------------------------------------------------------
(* The theorems                                                            *)

LEMMA SlotStepInv == ASSUME LInv, NEW s \in Slots, SlotStep(s) PROVE LInv'
<1>1. CASE WriteLands(s)
  BY <1>1, DirtyWriteLandsInv, CleanWriteLandsInv
<1>2. CASE ReadDone(s) \/ FillDone(s) \/ IoFails(s) \/ WriteDone(s)
  BY <1>2, ReadDoneInv, FillDoneInv, IoFailsInv, WriteDoneInv
<1>3. CASE CopyDone(s) \/ CleanDone(s)
  BY <1>3, CopyDoneInv, CleanDoneInv
<1>4. CASE DirtyWriteback(s) \/ DirtyWritebackFails(s) \/ CopyFails(s) \/ CleanFails(s)
  BY <1>4, QuietStepsInv
<1> QED BY <1>1, <1>2, <1>3, <1>4 DEF SlotStep

LEMMA NextInv == LInv /\ [Next]_vars => LInv'
<1> SUFFICES ASSUME LInv, [Next]_vars PROVE LInv'
  OBVIOUS
<1>1. CASE Create \/ Load \/ LoadFails \/ Crash
  BY <1>1, CreateInv, LoadInv, LoadFailsInv, CrashInv
<1>2. CASE \E s \in Slots : Hit(s) \/ \E d \in Dbns : Miss(s, d)
  BY <1>2, HitInv, MissInv
<1>3. CASE \E d \in Dbns : Uncached(d) \/ UncachedConflict(d)
  BY <1>3, UncachedInv, UncachedConflictInv
<1>4. CASE \E t \in Sets : CleanOnIo(t)
  BY <1>4, CleaningInv
<1>5. CASE \E s \in Slots : SlotStep(s)
  BY <1>5, SlotStepInv
<1>6. CASE Work
  BY <1>6, SyncBlocksInv, QuietWorkInv, CleaningInv DEF Work
<1>7. CASE DoSync \/ Remove
  BY <1>7, QuietWorkInv
<1>8. CASE Removal
  BY <1>8, QuietWorkInv, StoreMdInv, StoreHeaderInv DEF Removal
<1>9. CASE UNCHANGED vars
  <2> USE <1>9 DEF vars, work, flash
  <2>1. Types' /\ PhaseInv' /\ UseInv'
    BY DEF LInv, Types, PhaseInv, UseInv, FallowIsDirtyAndIdle, Valid, Idle
  <2>2. FlashInv' /\ DataInv' /\ DurableInv' /\ HeaderIsTrue'
    BY DEF LInv, FlashInv, DataInv, DurableInv, HeaderIsTrue, Valid
  <2> QED BY <2>1, <2>2 DEF LInv
<1> QED BY <1>1, <1>2, <1>3, <1>4, <1>5, <1>6, <1>7, <1>8, <1>9 DEF Next

LEMMA AlwaysLInv == Spec => []LInv
<1>1. Init => LInv
  BY LInitInv
<1>2. LInv /\ [Next]_vars => LInv'
  BY NextInv
<1> QED BY <1>1, <1>2, PTL DEF Spec

(* What is fallow is dirty and idle and what is written back is dirty: the *)
(* VERIFYs of clean_set, sync and the reclaim policies never trip.         *)
THEOREM FallowBlocksAreDirtyAndIdle == Spec => []FallowIsDirtyAndIdle
<1>1. LInv => FallowIsDirtyAndIdle
  BY Consequences
<1> QED BY <1>1, AlwaysLInv, PTL

(* Whatever cleans a set, removes, stores, loads or loses the cache, a     *)
(* block that can be hit is never old.                                     *)
THEOREM TheCacheIsCurrent == Spec => []CacheIsCurrent
<1>1. LInv => CacheIsCurrent
  BY Consequences
<1> QED BY <1>1, AlwaysLInv, PTL

(* A power loss at any moment finds the current data of every block where  *)
(* the next load will look for it.                                         *)
THEOREM DataIsDurable == Spec => []Durable
<1>1. LInv => Durable
  BY Consequences
<1> QED BY <1>1, AlwaysLInv, PTL

(* A superblock that says CLEAN or FASTCLEAN tells the truth.              *)
THEOREM TheHeaderIsTrue == Spec => []HeaderIsTrue
<1>1. LInv => HeaderIsTrue
  BY Consequences
<1> QED BY <1>1, AlwaysLInv, PTL

-----------------------------------------------------------------------------
(* The counters                                                            *)

CountOf(X) == [t \in Sets |-> Cardinality(X \cap SlotsOf(t))]

DirtySlots == {s \in Slots : block[s].dirty}
FallowSlots == {s \in Slots : block[s].fallow = 2}
CleaningSlots == {s \in Slots : block[s].busy \in {"copy", "clean"}}

(* Every counter counts what the blocks say.                               *)
CountInv ==
  /\ nr_dirty = CountOf(DirtySlots) /\ dirty_total = Cardinality(DirtySlots)
  /\ dirty_fallow = CountOf(FallowSlots)
  /\ clean_inprog = CountOf(CleaningSlots) /\ clean_total = Cardinality(CleaningSlots)

WorkTypes ==
  /\ remove_in_prog \in {"no", "slow", "fast"}
  /\ sync_index \in 0..Size /\ kicks \subseteq Sets
  /\ syncing \in BOOLEAN /\ delayed_clean \in BOOLEAN
  /\ sb \in {"none", "DIRTY", "CLEAN", "FASTCLEAN", "UNSTABLE"}

LEMMA SlotSets ==
  ASSUME NEW X, X \subseteq Slots
  PROVE  IsFiniteSet(X) /\ Cardinality(X) \in Nat
<1>1. IsFiniteSet(Slots)
  BY FS_Interval, LifecycleAssumption DEF Slots
<1> QED BY <1>1, FS_Subset, FS_CardinalityType

LEMMA SetOfSlot == \A s \in Slots : SetOf(s) \in Sets /\ s \in SlotsOf(SetOf(s))
  BY DEF Sets, SlotsOf

(* One more slot, or one less, is counted in its own set and in all.       *)
LEMMA CountOneMore ==
  ASSUME NEW X, X \subseteq Slots, NEW s \in Slots \ X
  PROVE  /\ CountOf(X \cup {s}) = [CountOf(X) EXCEPT ![SetOf(s)] = @ + 1]
         /\ Cardinality(X \cup {s}) = Cardinality(X) + 1
<1>1. ASSUME NEW t \in Sets
      PROVE  Cardinality((X \cup {s}) \cap SlotsOf(t))
               = IF t = SetOf(s) THEN Cardinality(X \cap SlotsOf(t)) + 1
                 ELSE Cardinality(X \cap SlotsOf(t))
  <2>1. CASE t = SetOf(s)
    <3>1. (X \cup {s}) \cap SlotsOf(t) = (X \cap SlotsOf(t)) \cup {s}
      BY <2>1 DEF SlotsOf
    <3>2. IsFiniteSet(X \cap SlotsOf(t)) /\ s \notin X \cap SlotsOf(t)
      BY SlotSets
    <3> QED BY <2>1, <3>1, <3>2, FS_AddElement
  <2>2. CASE t # SetOf(s)
    <3>1. (X \cup {s}) \cap SlotsOf(t) = X \cap SlotsOf(t)
      BY <2>2 DEF SlotsOf
    <3> QED BY <2>2, <3>1
  <2> QED BY <2>1, <2>2
<1>2. CountOf(X \cup {s}) = [CountOf(X) EXCEPT ![SetOf(s)] = @ + 1]
  BY <1>1, SetOfSlot DEF CountOf
<1>3. Cardinality(X \cup {s}) = Cardinality(X) + 1
  BY SlotSets, FS_AddElement
<1> QED BY <1>2, <1>3

LEMMA CountOneLess ==
  ASSUME NEW X, X \subseteq Slots, NEW s \in X
  PROVE  /\ CountOf(X \ {s}) = [CountOf(X) EXCEPT ![SetOf(s)] = @ - 1]
         /\ Cardinality(X \ {s}) = Cardinality(X) - 1
<1>1. ASSUME NEW t \in Sets
      PROVE  Cardinality((X \ {s}) \cap SlotsOf(t))
               = IF t = SetOf(s) THEN Cardinality(X \cap SlotsOf(t)) - 1
                 ELSE Cardinality(X \cap SlotsOf(t))
  <2>1. CASE t = SetOf(s)
    <3>1. (X \ {s}) \cap SlotsOf(t) = (X \cap SlotsOf(t)) \ {s} /\ s \in X \cap SlotsOf(t)
      BY <2>1 DEF SlotsOf
    <3>2. IsFiniteSet(X \cap SlotsOf(t))
      BY SlotSets
    <3> QED BY <2>1, <3>1, <3>2, FS_RemoveElement
  <2>2. CASE t # SetOf(s)
    <3>1. (X \ {s}) \cap SlotsOf(t) = X \cap SlotsOf(t)
      BY <2>2 DEF SlotsOf
    <3> QED BY <2>2, <3>1
  <2> QED BY <2>1, <2>2
<1>2. SetOf(s) \in Sets
  BY SetOfSlot
<1>3. CountOf(X \ {s}) = [CountOf(X) EXCEPT ![SetOf(s)] = @ - 1]
  BY <1>1, <1>2 DEF CountOf
<1>4. Cardinality(X \ {s}) = Cardinality(X) - 1
  BY SlotSets, FS_RemoveElement
<1> QED BY <1>3, <1>4

(* Nothing is counted where there is nothing.                              *)
LEMMA CountNone == CountOf({}) = Zero /\ Cardinality({}) = 0
<1>1. Cardinality({}) = 0
  BY FS_EmptySet
<1>2. \A t \in Sets : {} \cap SlotsOf(t) = {}
  OBVIOUS
<1> QED BY <1>1, <1>2 DEF CountOf, Zero

(* The greatest member of a set of slots, or of the places between them.   *)
LEMMA GreatestExists ==
  ASSUME NEW E, E \subseteq 0..Size, E # {}
  PROVE  \E e \in E : \A x \in E : x <= e
<1> DEFINE R == OpToRel(<, Nat)
           T == {n \in Nat : Size - n \in E}
<1>1. IsWellFoundedOn(R, Nat)
  BY NatLessThanWellFounded
<1>2. T # {}
  <2>1. PICK e \in E : TRUE
    OBVIOUS
  <2>2. Size - e \in Nat /\ Size - (Size - e) = e
    BY LifecycleAssumption
  <2> QED BY <2>1, <2>2
<1>3. PICK n \in T : \A m \in T : ~(<<m, n>> \in R)
  <2> HIDE DEF R, T
  <2>1. T \subseteq Nat
    BY DEF T
  <2> QED BY <1>1, <1>2, <2>1, WFMin
<1>4. \A m \in T : n <= m
  <2> SUFFICES ASSUME NEW m \in T PROVE n <= m
    OBVIOUS
  <2>1. m \in Nat /\ n \in Nat
    OBVIOUS
  <2>2. ~(m < n)
    BY <1>3, <2>1 DEF OpToRel
  <2> QED BY <2>1, <2>2
<1>5. ASSUME NEW x \in E PROVE x <= Size - n
  <2>1. Size - x \in T
    BY LifecycleAssumption
  <2>2. n <= Size - x
    BY <1>4, <2>1
  <2> QED BY <2>2, LifecycleAssumption
<1>6. Size - n \in E
  OBVIOUS
<1> QED BY <1>5, <1>6

-----------------------------------------------------------------------------
(* What a step leaves alone                                                *)

(* Outside a crash the memory and the flash agree on what is dirty.        *)
LEMMA DirtyOnFlash ==
  ASSUME LInv, phase # "down"
  PROVE  DirtySlots = {s \in Slots : flash_md[s].dirty}
  BY DEF LInv, FlashInv, DirtySlots

LEMMA DirtyUnchanged ==
  ASSUME LInv, LInv', phase # "down", phase' # "down", UNCHANGED flash_md
  PROVE  DirtySlots' = DirtySlots
<1>1. DirtySlots = {s \in Slots : flash_md[s].dirty}
  BY DirtyOnFlash
<1>2. DirtySlots' = {s \in Slots : flash_md'[s].dirty}
  BY DEF LInv, FlashInv, DirtySlots
<1> QED BY <1>1, <1>2

(* What is not idle is not fallow.                                         *)
LEMMA BusyIsNotFallow ==
  ASSUME LInv, NEW s \in Slots, block[s].busy # "no" \/ ~block[s].dirty
  PROVE  s \notin FallowSlots
  BY DEF LInv, UseInv, FallowIsDirtyAndIdle, FallowSlots, Idle

(* Only slot s changes, and it is neither fallow before nor after.         *)
LEMMA OneSlot ==
  ASSUME LInv, NEW s \in Slots, NEW x, block' = [block EXCEPT ![s] = x],
         s \notin FallowSlots, x.fallow # 2
  PROVE  /\ FallowSlots' = FallowSlots
         /\ CleaningSlots' = IF x.busy \in {"copy", "clean"} THEN CleaningSlots \cup {s}
                             ELSE CleaningSlots \ {s}
<1>1. block'[s] = x /\ \A u \in Slots \ {s} : block'[u] = block[u]
  BY DEF LInv, Types
<1>2. FallowSlots' = FallowSlots
  BY <1>1 DEF FallowSlots
<1>3. CASE x.busy \in {"copy", "clean"}
  BY <1>1, <1>2, <1>3 DEF CleaningSlots
<1>4. CASE x.busy \notin {"copy", "clean"}
  BY <1>1, <1>2, <1>4 DEF CleaningSlots
<1> QED BY <1>3, <1>4

LEMMA SameSets ==
  ASSUME CountInv, UNCHANGED counters, DirtySlots' = DirtySlots,
         FallowSlots' = FallowSlots, CleaningSlots' = CleaningSlots
  PROVE  CountInv'
  BY DEF CountInv, counters, CountOf

(* The steps of a block that no counter counts.                            *)
LEMMA UncountedSteps ==
  ASSUME LInv, LInv', CountInv, NEW s \in Slots,
         \/ \E d \in Dbns : Miss(s, d)
         \/ ReadDone(s) \/ FillDone(s) \/ WriteLands(s) \/ IoFails(s)
         \/ DirtyWritebackFails(s) \/ CopyDone(s)
  PROVE  CountInv'
<1> USE DEF flash
<1>1. UNCHANGED <<counters, flash_md, phase>>
  BY DEF Miss, ReadDone, FillDone, WriteLands, IoFails, DirtyWritebackFails, CopyDone
<1>2. \/ block[s].busy = "no" /\ ~block[s].dirty /\ phase = "up"
      \/ block[s].busy # "no"
  BY DEF Miss, ReadDone, FillDone, WriteLands, IoFails, DirtyWritebackFails, CopyDone, User, Idle
<1>3. phase # "down" /\ s \notin FallowSlots
  BY <1>2, BusyIsUp, BusyIsNotFallow
<1>4. DirtySlots' = DirtySlots
  BY <1>1, <1>3, DirtyUnchanged
<1>5. block[s] \in BlockType /\ block \in [Slots -> BlockType] /\ block[s].fallow # 2
  BY <1>3 DEF LInv, Types, FallowSlots
<1>6. ASSUME NEW x, block' = [block EXCEPT ![s] = x], x.fallow # 2,
             x.busy \in {"copy", "clean"} <=> block[s].busy \in {"copy", "clean"}
      PROVE  CountInv'
  <2>1. FallowSlots' = FallowSlots
    BY <1>3, <1>6, OneSlot
  <2>2. CleaningSlots' = CleaningSlots
    BY <1>3, <1>6, OneSlot DEF CleaningSlots
  <2> QED BY <1>1, <1>4, <2>1, <2>2, SameSets
<1>7. ASSUME NEW queued \in BOOLEAN, block' = Ended(s, block[s], queued),
             block[s].busy \notin {"copy", "clean"}
      PROVE  CountInv'
  <2> DEFINE x == EndedAs(block[s], queued)
  <2>1. /\ block' = [block EXCEPT ![s] = x]
        /\ \/ x = InvalidBlock
           \/ x.busy \in {"no", "picked"} /\ x.fallow \in {0, block[s].fallow}
    BY <1>5, <1>7, EndedBlock
  <2> HIDE DEF x
  <2>2. x.busy \in {"no", "picked"} /\ x.fallow # 2
    BY <1>5, <2>1 DEF InvalidBlock
  <2> QED BY <1>6, <1>7, <2>1, <2>2
<1>8. ASSUME NEW v, block' = [block EXCEPT ![s].busy = v],
             v \in {"copy", "clean"} <=> block[s].busy \in {"copy", "clean"}
      PROVE  CountInv'
  <2> DEFINE x == [block[s] EXCEPT !.busy = v]
  <2>1. block' = [block EXCEPT ![s] = x] /\ x.busy = v /\ x.fallow = block[s].fallow
    BY <1>5, <1>8 DEF BlockType
  <2> HIDE DEF x
  <2> QED BY <1>5, <1>6, <1>8, <2>1
<1>9. CASE \E d \in Dbns : Miss(s, d)
  <2>1. PICK d \in Dbns : Miss(s, d)
    BY <1>9
  <2>2. PICK v \in {"fill", "write"} :
          block' = [block EXCEPT ![s] = [InvalidBlock EXCEPT !.dbn = d, !.busy = v]]
    BY <2>1 DEF Miss
  <2> DEFINE x == [InvalidBlock EXCEPT !.dbn = d, !.busy = v]
  <2>3. x.busy = v /\ x.fallow = 0 /\ block[s].busy = "no"
    BY <2>1 DEF InvalidBlock, Miss, Idle
  <2>4. block' = [block EXCEPT ![s] = x]
    BY <2>2
  <2> HIDE DEF x
  <2>5. x.fallow # 2 /\ (x.busy \in {"copy", "clean"} <=> block[s].busy \in {"copy", "clean"})
    BY <2>2, <2>3
  <2> QED BY <1>6, <2>4, <2>5
<1>10. CASE ReadDone(s) \/ FillDone(s)
  BY <1>7, <1>10 DEF ReadDone, FillDone
<1>11. CASE WriteLands(s)
  <2>1. CASE block[s].dirty
    BY <1>7, <1>11, <2>1 DEF WriteLands
  <2>2. CASE ~block[s].dirty
    BY <1>8, <1>11, <2>2 DEF WriteLands
  <2> QED BY <2>1, <2>2
<1>12. CASE IoFails(s)
  <2>1. CASE block[s].dirty
    BY <1>8, <1>12, <2>1 DEF IoFails
  <2>2. CASE ~block[s].dirty
    <3>1. block' = [block EXCEPT ![s] = InvalidBlock]
      BY <1>5, <1>12, <2>2 DEF IoFails, Dropped
    <3>2. /\ InvalidBlock.fallow # 2
          /\ InvalidBlock.busy \in {"copy", "clean"} <=> block[s].busy \in {"copy", "clean"}
      BY <1>12 DEF InvalidBlock, IoFails
    <3> QED BY <1>6, <3>1, <3>2
  <2> QED BY <2>1, <2>2
<1>13. CASE DirtyWritebackFails(s) \/ CopyDone(s)
  BY <1>8, <1>13 DEF DirtyWritebackFails, CopyDone
<1> QED BY <1>9, <1>10, <1>11, <1>12, <1>13

-----------------------------------------------------------------------------
(* The steps that count                                                    *)

(* flashcache_clear_fallow counts what it clears.                          *)
LEMMA ClearFallowCounts ==
  ASSUME CountInv, NEW S, ClearFallow(S), FallowSlots' = FallowSlots \ S
  PROVE  dirty_fallow' = CountOf(FallowSlots')
<1>1. ASSUME NEW t \in Sets
      PROVE  dirty_fallow[t] - Cardinality({s \in S \cap SlotsOf(t) : block[s].fallow = 2})
               = Cardinality((FallowSlots \ S) \cap SlotsOf(t))
  <2> DEFINE X == FallowSlots \cap SlotsOf(t)
  <2>1. dirty_fallow[t] = Cardinality(X)
    BY DEF CountInv, CountOf
  <2>2. {s \in S \cap SlotsOf(t) : block[s].fallow = 2} = X \cap S
    BY DEF FallowSlots, SlotsOf
  <2>3. (FallowSlots \ S) \cap SlotsOf(t) = X \ S
    OBVIOUS
  <2>4. IsFiniteSet(X)
    BY SlotSets DEF FallowSlots
  <2> HIDE DEF X
  <2>5. Cardinality(X \ S) = Cardinality(X) - Cardinality(X \cap S)
    BY <2>4, FS_Difference
  <2> QED BY <2>1, <2>2, <2>3, <2>5
<1> QED BY <1>1 DEF ClearFallow, CountOf

(* A step that only clears fallow marks.                                   *)
LEMMA ClearingCounts ==
  ASSUME CountInv, NEW S, ClearFallow(S), FallowSlots' = FallowSlots \ S,
         DirtySlots' = DirtySlots, CleaningSlots' = CleaningSlots,
         UNCHANGED <<nr_dirty, clean_inprog, dirty_total, clean_total>>
  PROVE  CountInv'
<1>1. dirty_fallow' = CountOf(FallowSlots')
  BY ClearFallowCounts
<1> QED BY <1>1 DEF CountInv, CountOf

LEMMA HitCounts ==
  ASSUME LInv, LInv', CountInv, NEW s \in Slots, Hit(s)
  PROVE  CountInv'
<1>1. /\ phase = "up" /\ UNCHANGED <<phase, flash_md>> /\ ClearFallow({s})
      /\ UNCHANGED <<nr_dirty, clean_inprog, dirty_total, clean_total>>
      /\ block \in [Slots -> BlockType]
  BY DEF Hit, User, flash, LInv, Types
<1>2. PICK v \in {block[s].busy} \cup (IF Idle(s) THEN {"read", "write"} ELSE {}) :
        block' = [block EXCEPT ![s].fallow = 0, ![s].busy = v]
  BY DEF Hit
<1>3. v \in {"copy", "clean"} <=> block[s].busy \in {"copy", "clean"}
  BY <1>2 DEF Idle
<1> DEFINE x == [block[s] EXCEPT !.fallow = 0, !.busy = v]
<1>4. block' = [block EXCEPT ![s] = x] /\ x.fallow = 0 /\ x.busy = v
  BY <1>1, <1>2 DEF BlockType
<1> HIDE DEF x
<1>5. block'[s] = x /\ \A u \in Slots \ {s} : block'[u] = block[u]
  BY <1>1, <1>4
<1>6. FallowSlots' = FallowSlots \ {s} /\ CleaningSlots' = CleaningSlots
  BY <1>3, <1>4, <1>5 DEF FallowSlots, CleaningSlots
<1>7. DirtySlots' = DirtySlots
  BY <1>1, DirtyUnchanged
<1> QED BY <1>1, <1>6, <1>7, ClearingCounts

(* A writeback is counted when it starts, ...                              *)
LEMMA DirtyWritebackCounts ==
  ASSUME LInv, LInv', CountInv, NEW s \in Slots, DirtyWriteback(s)
  PROVE  CountInv'
<1>1. /\ block[s].busy = "picked" /\ UNCHANGED <<phase, flash_md>>
      /\ block' = [block EXCEPT ![s].busy = "copy"]
      /\ UNCHANGED <<nr_dirty, dirty_fallow, dirty_total>>
      /\ clean_inprog' = [clean_inprog EXCEPT ![SetOf(s)] = @ + 1]
      /\ clean_total' = clean_total + 1
  BY DEF DirtyWriteback, flash
<1>2. phase # "down" /\ s \notin FallowSlots /\ s \in Slots \ CleaningSlots
  BY <1>1, BusyIsUp, BusyIsNotFallow DEF CleaningSlots
<1>3. DirtySlots' = DirtySlots
  BY <1>1, <1>2, DirtyUnchanged
<1> DEFINE x == [block[s] EXCEPT !.busy = "copy"]
<1>4. /\ block[s] \in BlockType /\ block' = [block EXCEPT ![s] = x]
      /\ x.busy = "copy" /\ x.fallow = block[s].fallow
  BY <1>1 DEF BlockType, LInv, Types
<1> HIDE DEF x
<1>5. FallowSlots' = FallowSlots /\ CleaningSlots' = CleaningSlots \cup {s}
  BY <1>2, <1>4, OneSlot DEF FallowSlots
<1>6. /\ CountOf(CleaningSlots \cup {s}) = [CountOf(CleaningSlots) EXCEPT ![SetOf(s)] = @ + 1]
      /\ Cardinality(CleaningSlots \cup {s}) = Cardinality(CleaningSlots) + 1
  BY <1>2, CountOneMore DEF CleaningSlots
<1> QED BY <1>1, <1>3, <1>5, <1>6 DEF CountInv, CountOf

(* ... and no longer when it has ended.                                    *)
LEMMA UncountedCounts ==
  ASSUME CountInv, NEW s \in CleaningSlots, Uncounted(s), CleaningSlots' = CleaningSlots \ {s}
  PROVE  clean_inprog' = CountOf(CleaningSlots') /\ clean_total' = Cardinality(CleaningSlots')
<1>1. /\ CountOf(CleaningSlots \ {s}) = [CountOf(CleaningSlots) EXCEPT ![SetOf(s)] = @ - 1]
      /\ Cardinality(CleaningSlots \ {s}) = Cardinality(CleaningSlots) - 1
  BY CountOneLess DEF CleaningSlots
<1> QED BY <1>1 DEF CountInv, Uncounted

LEMMA WritebackFailsCounts ==
  ASSUME LInv, LInv', CountInv, NEW s \in Slots, CopyFails(s) \/ CleanFails(s)
  PROVE  CountInv'
<1>1. /\ block[s].busy \in {"copy", "clean"} /\ UNCHANGED <<phase, flash_md>>
      /\ block' = [block EXCEPT ![s].busy = "no"] /\ Uncounted(s)
      /\ UNCHANGED <<nr_dirty, dirty_fallow, dirty_total>>
  BY DEF CopyFails, CleanFails, flash
<1>2. phase # "down" /\ s \notin FallowSlots /\ s \in CleaningSlots
  BY <1>1, BusyIsUp, BusyIsNotFallow DEF CleaningSlots
<1>3. DirtySlots' = DirtySlots
  BY <1>1, <1>2, DirtyUnchanged
<1> DEFINE x == [block[s] EXCEPT !.busy = "no"]
<1>4. /\ block[s] \in BlockType /\ block' = [block EXCEPT ![s] = x]
      /\ x.busy = "no" /\ x.fallow = block[s].fallow
  BY <1>1 DEF BlockType, LInv, Types
<1> HIDE DEF x
<1>5. FallowSlots' = FallowSlots /\ CleaningSlots' = CleaningSlots \ {s}
  BY <1>2, <1>4, OneSlot DEF FallowSlots
<1>6. clean_inprog' = CountOf(CleaningSlots') /\ clean_total' = Cardinality(CleaningSlots')
  BY <1>1, <1>2, <1>5, UncountedCounts
<1> QED BY <1>1, <1>3, <1>5, <1>6 DEF CountInv, CountOf

(* What the metadata write makes of the slots that are dirty on flash.     *)
LEMMA ImageDirty ==
  ASSUME LInv, LInv', NEW s \in Slots, block[s].busy # "no", UNCHANGED phase,
         NEW v \in BOOLEAN, flash_md' = MdImage(s, v)
  PROVE  DirtySlots' = IF v THEN DirtySlots \cup {s} ELSE DirtySlots \ {s}
<1>1. phase # "down" /\ \A u \in Slots : flash_md[u].dirty = block[u].dirty
  BY BusyIsUp DEF LInv, FlashInv
<1>2. \A u \in Slots : flash_md'[u].dirty = IF u = s THEN v ELSE block[u].dirty
  <2> TAKE u \in Slots
  <2>1. flash_md'[u] = IF u = s THEN [dbn |-> block[s].dbn, dirty |-> v]
                       ELSE IF SetOf(u) = SetOf(s)
                            THEN [dbn |-> block[u].dbn, dirty |-> block[u].dirty]
                       ELSE flash_md[u]
    BY DEF MdImage
  <2> QED BY <1>1, <2>1
<1>3. DirtySlots' = {u \in Slots : flash_md'[u].dirty}
  BY <1>1 DEF LInv, FlashInv, DirtySlots
<1> QED BY <1>2, <1>3 DEF DirtySlots

LEMMA WriteDoneCounts ==
  ASSUME LInv, LInv', CountInv, NEW s \in Slots, WriteDone(s)
  PROVE  CountInv'
<1>1. /\ block[s].busy = "update" /\ UNCHANGED phase /\ flash_md' = MdImage(s, TRUE)
      /\ nr_dirty' = [nr_dirty EXCEPT ![SetOf(s)] = @ + 1] /\ dirty_total' = dirty_total + 1
      /\ UNCHANGED <<dirty_fallow, clean_inprog, clean_total>>
  BY DEF WriteDone
<1>2. /\ s \notin FallowSlots /\ s \notin CleaningSlots /\ s \in Slots \ DirtySlots
      /\ block[s] \in BlockType /\ block[s].fallow = 0
  BY <1>1, BusyIsNotFallow, InUse DEF CleaningSlots, DirtySlots, LInv, UseInv
<1>3. DirtySlots' = DirtySlots \cup {s}
  BY <1>1, ImageDirty
<1> DEFINE b == [block[s] EXCEPT !.dirty = TRUE]
<1>4. PICK queued \in BOOLEAN : block' = Ended(s, b, queued)
  BY DEF WriteDone
<1>5. b \in BlockType /\ b.fallow = 0
  BY <1>2 DEF BlockType
<1> HIDE DEF b
<1> DEFINE x == EndedAs(b, queued)
<1>6. /\ block' = [block EXCEPT ![s] = x]
      /\ \/ x = InvalidBlock
         \/ x.busy \in {"no", "picked"} /\ x.fallow \in {0, b.fallow}
  BY <1>4, <1>5, EndedBlock
<1> HIDE DEF x
<1>7. x.busy \in {"no", "picked"} /\ x.fallow # 2
  BY <1>5, <1>6 DEF InvalidBlock
<1>8. FallowSlots' = FallowSlots /\ CleaningSlots' = CleaningSlots
  <2>1. FallowSlots' = FallowSlots /\ CleaningSlots' = CleaningSlots \ {s}
    BY <1>2, <1>6, <1>7, OneSlot
  <2> QED BY <1>2, <2>1
<1>9. /\ CountOf(DirtySlots \cup {s}) = [CountOf(DirtySlots) EXCEPT ![SetOf(s)] = @ + 1]
      /\ Cardinality(DirtySlots \cup {s}) = Cardinality(DirtySlots) + 1
  BY <1>2, CountOneMore DEF DirtySlots
<1> QED BY <1>1, <1>3, <1>8, <1>9 DEF CountInv, CountOf

LEMMA CleanDoneCounts ==
  ASSUME LInv, LInv', CountInv, NEW s \in Slots, CleanDone(s)
  PROVE  CountInv'
<1>1. /\ block[s].busy = "clean" /\ UNCHANGED phase /\ flash_md' = MdImage(s, FALSE)
      /\ nr_dirty' = [nr_dirty EXCEPT ![SetOf(s)] = @ - 1] /\ dirty_total' = dirty_total - 1
      /\ Uncounted(s) /\ UNCHANGED dirty_fallow
  BY DEF CleanDone
<1>2. /\ s \notin FallowSlots /\ s \in CleaningSlots /\ s \in DirtySlots
      /\ block[s] \in BlockType /\ block[s].fallow = 0
  BY <1>1, BusyIsNotFallow, InUse DEF CleaningSlots, DirtySlots, LInv, UseInv, FallowIsDirtyAndIdle
<1>3. DirtySlots' = DirtySlots \ {s}
  BY <1>1, ImageDirty
<1> DEFINE b == [block[s] EXCEPT !.dirty = FALSE]
<1>4. PICK queued \in BOOLEAN : block' = Ended(s, b, queued)
  BY DEF CleanDone
<1>5. b \in BlockType /\ b.fallow = 0
  BY <1>2 DEF BlockType
<1> HIDE DEF b
<1> DEFINE x == EndedAs(b, queued)
<1>6. /\ block' = [block EXCEPT ![s] = x]
      /\ \/ x = InvalidBlock
         \/ x.busy \in {"no", "picked"} /\ x.fallow \in {0, b.fallow}
  BY <1>4, <1>5, EndedBlock
<1> HIDE DEF x
<1>7. x.busy \in {"no", "picked"} /\ x.fallow # 2
  BY <1>5, <1>6 DEF InvalidBlock
<1>8. FallowSlots' = FallowSlots /\ CleaningSlots' = CleaningSlots \ {s}
  BY <1>2, <1>6, <1>7, OneSlot
<1>9. /\ CountOf(DirtySlots \ {s}) = [CountOf(DirtySlots) EXCEPT ![SetOf(s)] = @ - 1]
      /\ Cardinality(DirtySlots \ {s}) = Cardinality(DirtySlots) - 1
  BY <1>2, CountOneLess DEF DirtySlots
<1>10. clean_inprog' = CountOf(CleaningSlots') /\ clean_total' = Cardinality(CleaningSlots')
  BY <1>1, <1>2, <1>8, UncountedCounts
<1> QED BY <1>1, <1>3, <1>8, <1>9, <1>10 DEF CountInv, CountOf

(* The blocks that an uncached bio drops are counted nowhere.              *)
LEMMA UncachedCounts ==
  ASSUME LInv, LInv', CountInv, NEW d \in Dbns, Uncached(d)
  PROVE  CountInv'
<1>1. /\ phase = "up" /\ UNCHANGED <<phase, flash_md, counters>>
      /\ \A s \in Cached(d) : block[s].busy = "no" /\ ~block[s].dirty
      /\ block' = [s \in Slots |-> IF s \in Cached(d) THEN InvalidBlock ELSE block[s]]
  BY DEF Uncached, User, Dropped, Idle
<1>2. DirtySlots' = DirtySlots
  BY <1>1, DirtyUnchanged
<1>3. \A s \in Slots : /\ s \in FallowSlots' <=> s \in FallowSlots
                       /\ s \in CleaningSlots' <=> s \in CleaningSlots
  <2> TAKE s \in Slots
  <2>1. CASE s \in Cached(d)
    <3>1. s \notin FallowSlots /\ s \notin CleaningSlots
      BY <1>1, <2>1, BusyIsNotFallow DEF CleaningSlots
    <3>2. block'[s] = InvalidBlock
      BY <1>1, <2>1
    <3> QED BY <3>1, <3>2 DEF FallowSlots, CleaningSlots, InvalidBlock
  <2>2. CASE s \notin Cached(d)
    <3>1. block'[s] = block[s]
      BY <1>1, <2>2
    <3> QED BY <3>1 DEF FallowSlots, CleaningSlots
  <2> QED BY <2>1, <2>2
<1>4. FallowSlots' = FallowSlots /\ CleaningSlots' = CleaningSlots
  BY <1>3 DEF FallowSlots, CleaningSlots
<1> QED BY <1>1, <1>2, <1>4, SameSets

(* Idle blocks that are picked are fallow no longer.                       *)
LEMMA PickedCounts ==
  ASSUME NEW B \in [Slots -> BlockType], NEW by, NEW M, M \subseteq Slots,
         \A s \in Slots : B[s].busy = block[s].busy,
         \A s \in M : block[s].busy = "no",
         block' = Picked(B, M, by)
  PROVE  /\ FallowSlots' = {s \in Slots : B[s].fallow = 2} \ M
         /\ CleaningSlots' = CleaningSlots
<1>1. \A s \in M : block'[s].busy = "picked" /\ block'[s].fallow = 0
  <2> TAKE s \in M
  <2>1. block'[s] = [B[s] EXCEPT !.busy = "picked", !.by = by, !.fallow = 0]
    BY DEF Picked
  <2> QED BY <2>1 DEF BlockType
<1>2. \A s \in Slots \ M : block'[s] = B[s]
  BY DEF Picked
<1>3. FallowSlots' = {s \in Slots : B[s].fallow = 2} \ M
  BY <1>1, <1>2 DEF FallowSlots
<1>4. CleaningSlots' = CleaningSlots
  BY <1>1, <1>2 DEF CleaningSlots
<1> QED BY <1>3, <1>4

LEMMA PickedAndCleared ==
  ASSUME LInv, LInv', CountInv, UNCHANGED flash_md, phase # "down", phase' # "down",
         NEW by, NEW M, M \subseteq {s \in Slots : block[s].dirty /\ Idle(s)},
         block' = Picked(block, M, by), ClearFallow(M),
         UNCHANGED <<nr_dirty, clean_inprog, dirty_total, clean_total>>
  PROVE  CountInv'
<1>1. block \in [Slots -> BlockType]
  BY DEF LInv, Types
<1>2. FallowSlots' = FallowSlots \ M /\ CleaningSlots' = CleaningSlots
  <2>1. M \subseteq Slots /\ \A s \in M : block[s].busy = "no"
    BY DEF Idle
  <2>2. /\ FallowSlots' = {s \in Slots : block[s].fallow = 2} \ M
        /\ CleaningSlots' = CleaningSlots
    BY <1>1, <2>1, PickedCounts
  <2> QED BY <2>2 DEF FallowSlots
<1>3. DirtySlots' = DirtySlots
  BY DirtyUnchanged
<1> QED BY <1>2, <1>3, ClearingCounts

LEMMA UncachedConflictCounts ==
  ASSUME LInv, LInv', CountInv, NEW d \in Dbns, UncachedConflict(d)
  PROVE  CountInv'
<1>1. /\ phase = "up" /\ UNCHANGED <<phase, flash_md>>
      /\ UNCHANGED <<nr_dirty, clean_inprog, dirty_total, clean_total>>
  BY DEF UncachedConflict, User, flash
<1>2. PICK s \in Cached(d) : /\ Idle(s) /\ block[s].dirty
                             /\ block' = Picked(block, {s}, "set") /\ ClearFallow({s})
  BY DEF UncachedConflict
<1>3. {s} \subseteq {u \in Slots : block[u].dirty /\ Idle(u)}
  BY <1>2 DEF Cached
<1> QED BY <1>1, <1>2, <1>3, PickedAndCleared

(* flashcache_sync_blocks.                                                 *)
LEMMA SyncBlocksCounts ==
  ASSUME LInv, LInv', CountInv, SyncBlocks
  PROVE  CountInv'
<1> DEFINE t == SetOf(sync_index + 1)
           P == {s \in DirtyIdle(t) : sync_index < s /\ s <= SyncEnd(t)}
           M == IF P = {} THEN {} ELSE Merged(P, t)
<1>1. /\ UNCHANGED <<phase, flash_md>>
      /\ UNCHANGED <<nr_dirty, clean_inprog, dirty_total, clean_total>>
      /\ syncing /\ block' = Picked(block, M, "sync") /\ ClearFallow(M)
  BY DEF SyncBlocks, flash
<1>2. phase # "down"
  BY <1>1 DEF LInv, PhaseInv
<1>3. M \subseteq {s \in Slots : block[s].dirty /\ Idle(s)}
  BY DEF Merged, DirtyIdle, SlotsOf
<1> HIDE DEF M
<1> QED BY <1>1, <1>2, <1>3, PickedAndCleared

(* flashcache_clean_set counts the blocks that become fallow and those     *)
(* that it picks, which are all of its own set.                            *)
LEMMA CleanSetCounts ==
  ASSUME LInv, LInv', CountInv, UNCHANGED flash_md, phase # "down", phase' # "down",
         NEW t \in Sets, NEW force, CleanSet(t, force),
         UNCHANGED <<nr_dirty, clean_inprog, dirty_total, clean_total>>
  PROVE  CountInv'
<1>1. PICK B \in [Slots -> BlockType], R \in SUBSET DirtyIdle(t), must \in BOOLEAN :
        /\ CleanBlocks(t, B, R, must)
        /\ \A s \in Slots :
             /\ [B[s] EXCEPT !.fallow = 0] = [block[s] EXCEPT !.fallow = 0]
             /\ B[s].fallow > 0 => block[s].dirty /\ Idle(s)
             /\ block[s].fallow = 2 => B[s].fallow = 2
             /\ s \notin SlotsOf(t) => B[s] = block[s]
  BY CleanSetPicks
<1> DEFINE M == IF R = {} THEN {} ELSE Merged(R, t)
           G == {s \in Slots : B[s].fallow = 2}
<1>2. /\ block' = Picked(B, M, "set")
      /\ dirty_fallow' = [dirty_fallow EXCEPT
           ![t] = @ + Cardinality(Fallow(B, t) \ Fallow(block, t)) - Cardinality(M \cap Fallow(B, t))]
  BY <1>1 DEF CleanBlocks
<1>3. M \subseteq SlotsOf(t) /\ \A s \in M : block[s].busy = "no"
  BY <1>1 DEF Merged, DirtyIdle, Idle
<1> HIDE DEF M
<1>4. \A s \in Slots : B[s].busy = block[s].busy
  <2> TAKE s \in Slots
  <2>1. B[s] \in BlockType /\ block[s] \in BlockType
    BY DEF LInv, Types
  <2>2. [B[s] EXCEPT !.fallow = 0].busy = [block[s] EXCEPT !.fallow = 0].busy
    BY <1>1
  <2> QED BY <2>1, <2>2 DEF BlockType
<1>5. FallowSlots' = G \ M /\ CleaningSlots' = CleaningSlots
  <2>1. M \subseteq Slots
    BY <1>3 DEF SlotsOf
  <2> QED BY <1>2, <1>3, <1>4, <2>1, PickedCounts
<1>6. DirtySlots' = DirtySlots
  BY DirtyUnchanged
<1>7. Fallow(B, t) = G \cap SlotsOf(t) /\ Fallow(block, t) = FallowSlots \cap SlotsOf(t)
  BY DEF Fallow, FallowSlots, SlotsOf
<1>8. FallowSlots \subseteq G /\ \A s \in Slots \ SlotsOf(t) : s \in G <=> s \in FallowSlots
  BY <1>1 DEF FallowSlots
<1>9. G \subseteq Slots /\ FallowSlots \subseteq Slots
  BY DEF FallowSlots
<1> HIDE DEF G
<1>10. Cardinality((G \ M) \cap SlotsOf(t))
         = Cardinality(FallowSlots \cap SlotsOf(t))
             + Cardinality(Fallow(B, t) \ Fallow(block, t)) - Cardinality(M \cap Fallow(B, t))
  <2> DEFINE X == G \cap SlotsOf(t)
             Y == FallowSlots \cap SlotsOf(t)
  <2>1. IsFiniteSet(X) /\ Y \subseteq X
    BY <1>8, <1>9, SlotSets
  <2>2. (G \ M) \cap SlotsOf(t) = X \ M /\ M \cap X = X \cap M /\ X \cap Y = Y
    BY <2>1
  <2>3. /\ Cardinality(X \ M) = Cardinality(X) - Cardinality(X \cap M)
        /\ Cardinality(X \ Y) = Cardinality(X) - Cardinality(X \cap Y)
    <3> HIDE DEF X, Y
    <3> QED BY <2>1, FS_Difference
  <2>4. /\ Cardinality(X) \in Nat /\ Cardinality(X \cap M) \in Nat /\ Cardinality(Y) \in Nat
    BY <1>9, SlotSets
  <2> HIDE DEF X, Y
  <2>5. Cardinality(X \ Y) = Cardinality(X) - Cardinality(Y)
    BY <2>2, <2>3
  <2>6. Cardinality(M \cap X) = Cardinality(X \cap M)
    BY <2>2
  <2>7. Cardinality(X \ M) = Cardinality(Y) + Cardinality(X \ Y) - Cardinality(M \cap X)
    BY <2>3, <2>4, <2>5, <2>6
  <2> QED BY <1>7, <2>2, <2>7 DEF X, Y
<1>11. \A u \in Sets \ {t} : (G \ M) \cap SlotsOf(u) = FallowSlots \cap SlotsOf(u)
  <2> SUFFICES ASSUME NEW u \in Sets \ {t}, NEW s \in SlotsOf(u)
               PROVE  s \in G \ M <=> s \in FallowSlots
    OBVIOUS
  <2>1. s \in Slots \ SlotsOf(t)
    BY DEF SlotsOf
  <2> QED BY <1>3, <1>8, <2>1
<1>12. dirty_fallow' = CountOf(FallowSlots')
  <2>1. dirty_fallow = [u \in Sets |-> Cardinality(FallowSlots \cap SlotsOf(u))]
    BY DEF CountInv, CountOf
  <2>2. \A u \in Sets : dirty_fallow'[u] = Cardinality((G \ M) \cap SlotsOf(u))
    BY <1>2, <1>10, <1>11, <2>1
  <2>3. dirty_fallow' = [u \in Sets |-> Cardinality((G \ M) \cap SlotsOf(u))]
    BY <1>2, <2>1, <2>2
  <2> QED BY <1>5, <2>3 DEF CountOf
<1> QED BY <1>5, <1>6, <1>12 DEF CountInv, CountOf

LEMMA CleaningCounts ==
  ASSUME LInv, LInv', CountInv, NEW t \in Sets, CleanOnIo(t) \/ CleanAgain(t)
  PROVE  CountInv'
<1>1. /\ UNCHANGED <<phase, flash_md>>
      /\ UNCHANGED <<nr_dirty, clean_inprog, dirty_total, clean_total>>
  BY DEF CleanOnIo, CleanAgain, flash
<1>2. phase # "down"
  BY DEF CleanOnIo, CleanAgain, User, LInv, PhaseInv
<1>3. CASE \E force \in {0, 1} : CleanSet(t, force)
  BY <1>1, <1>2, <1>3, CleanSetCounts
<1>4. CASE UNCHANGED <<block, dirty_fallow, delayed_clean>>
  BY <1>1, <1>4 DEF CountInv, CountOf, DirtySlots, FallowSlots, CleaningSlots
<1>5. CleanAgain(t) => CleanSet(t, 0) \/ UNCHANGED <<block, dirty_fallow, delayed_clean>>
  BY DEF CleanAgain
<1>6. CleanOnIo(t) => \E force \in {0, 1} : CleanSet(t, force)
  BY DEF CleanOnIo
<1> QED BY <1>3, <1>4, <1>5, <1>6

(* flashcache_ctr counts what it loads, and nothing is being cleaned yet.  *)
LEMMA ConstructedCounts ==
  ASSUME NEW B, Constructed(B),
         \A s \in Slots : B[s].fallow = 0 /\ B[s].busy = "no"
  PROVE  CountInv'
<1>1. /\ block' = B
      /\ nr_dirty' = [t \in Sets |-> Cardinality({s \in SlotsOf(t) : B[s].dirty})]
      /\ dirty_total' = Cardinality({s \in Slots : B[s].dirty})
      /\ dirty_fallow' = Zero /\ clean_inprog' = Zero /\ clean_total' = 0
  BY DEF Constructed
<1>2. FallowSlots' = {} /\ CleaningSlots' = {}
  BY <1>1 DEF FallowSlots, CleaningSlots
<1>3. DirtySlots' = {s \in Slots : B[s].dirty}
  BY <1>1 DEF DirtySlots
<1>4. \A t \in Sets : {s \in SlotsOf(t) : B[s].dirty} = {s \in Slots : B[s].dirty} \cap SlotsOf(t)
  BY DEF SlotsOf
<1>5. nr_dirty' = CountOf({s \in Slots : B[s].dirty})
  BY <1>1, <1>4 DEF CountOf
<1> QED BY <1>1, <1>2, <1>3, <1>5, CountNone DEF CountInv, CountOf

LEMMA DownCounts == ASSUME Down PROVE CountInv'
<1>1. /\ block' = NoBlocks
      /\ nr_dirty' = Zero /\ dirty_fallow' = Zero /\ clean_inprog' = Zero
      /\ dirty_total' = 0 /\ clean_total' = 0
  BY DEF Down
<1>2. DirtySlots' = {} /\ FallowSlots' = {} /\ CleaningSlots' = {}
  BY <1>1 DEF NoBlocks, InvalidBlock, DirtySlots, FallowSlots, CleaningSlots
<1> QED BY <1>1, <1>2, CountNone DEF CountInv, CountOf

LEMMA InitCounts == Init => CountInv /\ WorkTypes
<1> SUFFICES ASSUME Init PROVE CountInv /\ WorkTypes
  OBVIOUS
<1>1. DirtySlots = {} /\ FallowSlots = {} /\ CleaningSlots = {}
  BY DEF Init, NoBlocks, InvalidBlock, DirtySlots, FallowSlots, CleaningSlots
<1>2. CountInv
  BY <1>1, CountNone DEF Init, CountInv
<1>3. 0 \in 0..Size
  BY LifecycleAssumption
<1>4. WorkTypes
  BY <1>3 DEF Init, WorkTypes
<1> QED BY <1>2, <1>4

LEMMA SameBlocksCounts ==
  ASSUME CountInv, UNCHANGED <<block, counters>>
  PROVE  CountInv'
  BY DEF CountInv, CountOf, counters, DirtySlots, FallowSlots, CleaningSlots

LEMMA LifeCounts ==
  ASSUME LInv, CountInv, Create \/ Load \/ LoadFails \/ Crash \/ StoreMd \/ StoreHeader
  PROVE  CountInv'
<1>1. CASE Create
  <2>1. \A s \in Slots : NoBlocks[s].fallow = 0 /\ NoBlocks[s].busy = "no"
    BY DEF NoBlocks, InvalidBlock
  <2>2. Constructed(NoBlocks) \/ UNCHANGED <<block, counters>>
    BY <1>1 DEF Create
  <2> QED BY <2>1, <2>2, ConstructedCounts, SameBlocksCounts
<1>2. CASE Load
  <2> DEFINE B == [s \in Slots |-> Loaded(s)]
  <2>1. Constructed(B)
    BY <1>2 DEF Load
  <2>2. \A s \in Slots : B[s].fallow = 0 /\ B[s].busy = "no"
    BY DEF Loaded, InvalidBlock
  <2> HIDE DEF B
  <2> QED BY <2>1, <2>2, ConstructedCounts
<1>3. CASE Crash \/ StoreHeader
  BY <1>3, DownCounts DEF Crash, StoreHeader
<1>4. CASE LoadFails \/ StoreMd
  BY <1>4, SameBlocksCounts DEF LoadFails, StoreMd
<1> QED BY <1>1, <1>2, <1>3, <1>4

LEMMA SlotStepCounts ==
  ASSUME LInv, LInv', CountInv, NEW s \in Slots, SlotStep(s)
  PROVE  CountInv'
<1>1. CASE \/ ReadDone(s) \/ FillDone(s) \/ WriteLands(s) \/ IoFails(s)
           \/ DirtyWritebackFails(s) \/ CopyDone(s)
  BY <1>1, UncountedSteps
<1>2. CASE WriteDone(s) \/ CleanDone(s)
  BY <1>2, WriteDoneCounts, CleanDoneCounts
<1>3. CASE DirtyWriteback(s) \/ CopyFails(s) \/ CleanFails(s)
  BY <1>3, DirtyWritebackCounts, WritebackFailsCounts
<1> QED BY <1>1, <1>2, <1>3 DEF SlotStep

LEMMA NextCounts == LInv /\ CountInv /\ [Next]_vars => CountInv'
<1> SUFFICES ASSUME LInv, CountInv, [Next]_vars PROVE CountInv'
  OBVIOUS
<1> LInv'
  BY NextInv
<1>1. CASE Create \/ Load \/ LoadFails \/ Crash
  BY <1>1, LifeCounts
<1>2. CASE \E s \in Slots : Hit(s) \/ \E d \in Dbns : Miss(s, d)
  BY <1>2, HitCounts, UncountedSteps
<1>3. CASE \E d \in Dbns : Uncached(d) \/ UncachedConflict(d)
  BY <1>3, UncachedCounts, UncachedConflictCounts
<1>4. CASE \E t \in Sets : CleanOnIo(t)
  BY <1>4, CleaningCounts
<1>5. CASE \E s \in Slots : SlotStep(s)
  BY <1>5, SlotStepCounts
<1>6. CASE SyncBlocks \/ \E t \in Sets : CleanAgain(t)
  BY <1>6, SyncBlocksCounts, CleaningCounts
<1>7. CASE \/ SyncNothing \/ CleanAllSets \/ DoSync \/ Remove \/ RemoveAgain
           \/ UNCHANGED vars
  BY <1>7, SameBlocksCounts DEF SyncNothing, CleanAllSets, DoSync, Remove, RemoveAgain, vars
<1>8. CASE StoreMd \/ StoreHeader
  BY <1>8, LifeCounts
<1> QED BY <1>1, <1>2, <1>3, <1>4, <1>5, <1>6, <1>7, <1>8 DEF Next, Work, Removal

-----------------------------------------------------------------------------
(* The state of the background work and of the removal                     *)

(* flashcache_sync_blocks stops somewhere.                                 *)
LEMMA SyncEndType ==
  ASSUME WorkTypes, NEW t
  PROVE  SyncEnd(t) \in 0..Size
<1> DEFINE Ends == {e \in sync_index..Size :
                      /\ e = sync_index \/ SetOf(e) = t
                      /\ \A i \in sync_index + 1..e :
                           Cardinality({s \in DirtyIdle(t) : sync_index < s /\ s < i})
                             + clean_total < max_clean_ios_total}
<1>1. sync_index \in 0..Size /\ Size \in Nat
  BY LifecycleAssumption DEF WorkTypes
<1>2. Ends \subseteq 0..Size
  BY <1>1
<1>3. sync_index \in Ends
  <2>1. sync_index \in sync_index..Size /\ sync_index + 1..sync_index = {}
    BY <1>1
  <2> QED BY <2>1
<1>4. SyncEnd(t) = CHOOSE e \in Ends : \A x \in Ends : x <= e
  BY DEF SyncEnd
<1> HIDE DEF Ends
<1>5. \E e \in Ends : \A x \in Ends : x <= e
  BY <1>2, <1>3, GreatestExists
<1>6. (CHOOSE e \in Ends : \A x \in Ends : x <= e) \in Ends
  BY <1>5
<1> QED BY <1>2, <1>4, <1>6

LEMMA NextWork == LInv /\ WorkTypes /\ [Next]_vars => WorkTypes'
<1> SUFFICES ASSUME LInv, WorkTypes, [Next]_vars PROVE WorkTypes'
  OBVIOUS
<1> 0 \in 0..Size
  BY LifecycleAssumption
<1> USE DEF WorkTypes, work, flash
<1>1. CASE Create \/ Load \/ LoadFails \/ Crash
  BY <1>1 DEF Create, Load, LoadFails, Crash, Constructed, Down
<1>2. CASE \E s \in Slots : Hit(s) \/ \E d \in Dbns : Miss(s, d)
  BY <1>2 DEF Hit, Miss
<1>3. CASE \E d \in Dbns : Uncached(d) \/ UncachedConflict(d)
  BY <1>3 DEF Uncached, UncachedConflict
<1>4. ASSUME NEW t \in Sets, NEW force, CleanSet(t, force)
      PROVE  delayed_clean' \in BOOLEAN
  BY <1>4, CleanSetPicks DEF CleanBlocks
<1>5. CASE \E t \in Sets : CleanOnIo(t) \/ CleanAgain(t)
  BY <1>4, <1>5 DEF CleanOnIo, CleanAgain
<1>6. CASE \E s \in Slots : SlotStep(s)
  <2> PICK s \in Slots : SlotStep(s)
    BY <1>6
  <2>1. Uncounted(s) => kicks' \subseteq Sets /\ syncing' \in BOOLEAN
    BY SetOfSlot DEF Uncounted
  <2>2. CASE CopyFails(s) \/ CleanDone(s) \/ CleanFails(s)
    BY <2>1, <2>2 DEF CopyFails, CleanDone, CleanFails, Uncounted
  <2>3. CASE ~(CopyFails(s) \/ CleanDone(s) \/ CleanFails(s))
    BY <2>3 DEF SlotStep, ReadDone, FillDone, WriteLands, IoFails, WriteDone,
                DirtyWriteback, DirtyWritebackFails, CopyDone
  <2> QED BY <2>2, <2>3
<1>7. CASE SyncBlocks
  BY <1>7, SyncEndType DEF SyncBlocks
<1>8. CASE SyncNothing \/ CleanAllSets \/ DoSync
  BY <1>8 DEF SyncNothing, CleanAllSets, DoSync
<1>9. CASE Remove \/ RemoveAgain
  BY <1>9 DEF Remove, RemoveAgain, Turn
<1>10. CASE StoreMd \/ StoreHeader
  BY <1>10 DEF StoreMd, StoreHeader, Down, HeaderState
<1>11. CASE UNCHANGED vars
  BY <1>11 DEF vars
<1> QED BY <1>1, <1>2, <1>3, <1>5, <1>6, <1>7, <1>8, <1>9, <1>10, <1>11 DEF Next, Work, Removal

(* No count is ever off, whatever failed or was aborted, and whatever the  *)
(* cleaning was doing when a removal started: flashcache_clean_set, sync   *)
(* and the removal may rely on them.                                       *)
THEOREM CountersAreExact == Spec => []CountersExact
<1>1. Init => CountInv /\ WorkTypes
  BY InitCounts
<1>2. LInv /\ CountInv /\ WorkTypes /\ [Next]_vars => CountInv' /\ WorkTypes'
  BY NextCounts, NextWork
<1>3. LInv /\ CountInv /\ WorkTypes => CountersExact
  <2> SUFFICES ASSUME LInv, CountInv, WorkTypes PROVE CountersExact
    OBVIOUS
  <2>1. TypeOK
    BY DEF LInv, Types, PhaseInv, WorkTypes, TypeOK, BlockType, MdType
  <2>2. \A t \in Sets :
          /\ {s \in SlotsOf(t) : block[s].dirty} = DirtySlots \cap SlotsOf(t)
          /\ {s \in SlotsOf(t) : block[s].fallow = 2} = FallowSlots \cap SlotsOf(t)
          /\ {s \in SlotsOf(t) : block[s].busy \in {"copy", "clean"}} = CleaningSlots \cap SlotsOf(t)
    BY DEF SlotsOf, DirtySlots, FallowSlots, CleaningSlots
  <2>3. \A t \in Sets :
          /\ nr_dirty[t] = Cardinality(DirtySlots \cap SlotsOf(t))
          /\ dirty_fallow[t] = Cardinality(FallowSlots \cap SlotsOf(t))
          /\ clean_inprog[t] = Cardinality(CleaningSlots \cap SlotsOf(t))
    BY DEF CountInv, CountOf
  <2>4. dirty_total = Cardinality(DirtySlots) /\ clean_total = Cardinality(CleaningSlots)
    BY DEF CountInv
  <2> HIDE DEF TypeOK
  <2> QED BY <2>1, <2>2, <2>3, <2>4 DEF CountersExact, DirtySlots, CleaningSlots
<1> QED BY <1>1, <1>2, <1>3, AlwaysLInv, PTL DEF Spec
=============================================================================
