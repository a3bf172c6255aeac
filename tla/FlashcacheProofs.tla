-------------------------- MODULE FlashcacheProofs --------------------------
(***************************************************************************)
(* The invariant of Flashcache is inductive, and the safety properties     *)
(* that follow from it, for any number of slots, disk blocks and bios.     *)
(***************************************************************************)
EXTENDS FlashcacheInv, TLAPS

USE DEF slotVars, mdVars, devVars, ghostVars

-----------------------------------------------------------------------------
(* What the steps do to the requests                                       *)

(* A bio that ends: its status, and nothing about the others.              *)
LEMMA EndIoFacts ==
  ASSUME RequestInv, NEW b \in Bios, bio[b].st # "new",
         NEW error \in BOOLEAN, NEW v \in Values \cup {None}, EndIo(b, error, v)
  PROVE  /\ RequestInv'
         /\ bio'[b].st \in {"ok", "eio"}
         /\ \A c \in Bios : c # b => bio'[c] = bio[c]
  <1>1. BioTypeOK'
    <2>1. PICK st \in BioStatus : bio' = [bio EXCEPT ![b].st = st, ![b].val = v]
      BY DEF EndIo, BioStatus
    <2>2. [bio[b] EXCEPT !.st = st, !.val = v] \in BioType
      BY DEF RequestInv, BioTypeOK, BioType
    <2>3. bio' = [bio EXCEPT ![b] = [bio[b] EXCEPT !.st = st, !.val = v]]
      BY <2>1 DEF RequestInv, BioTypeOK, BioType
    <2> QED BY <2>2, <2>3 DEF RequestInv, BioTypeOK
  <1>2. GhostTypeOK' BY DEF RequestInv, GhostTypeOK, EndIo
  <1>3. /\ bio'[b].st \in {"ok", "eio"} /\ bio'[b].dbn = bio[b].dbn
        /\ \A c \in Bios : c # b => bio'[c] = bio[c]
    BY DEF RequestInv, BioTypeOK, BioType, EndIo
  <1>4. BioInv' BY <1>3 DEF RequestInv, BioInv
  <1> QED BY <1>1, <1>2, <1>3, <1>4 DEF RequestInv

(* A bio that arrives.                                                     *)
LEMMA ArriveFacts ==
  ASSUME RequestInv, NEW b \in Bios, NEW d \in Dbns, NEW dir \in {"READ", "WRITE"},
         NEW st \in BioStatus, Arrive(b, d, dir, st)
  PROVE  /\ RequestInv'
         /\ bio'[b].st = st /\ bio[b].st = "new"
         /\ \A c \in Bios : c # b => bio'[c] = bio[c]
  <1>1. BioTypeOK' BY DEF RequestInv, BioTypeOK, BioType, Arrive, Values
  <1>2. live' \in [Dbns -> SUBSET Values]
    BY DEF RequestInv, GhostTypeOK, Arrive, Values
  <1>3. seen' \in [Bios -> SUBSET Values]
    BY DEF RequestInv, GhostTypeOK, Arrive, Values
  <1>4. /\ bio'[b].st = st /\ bio[b].st = "new" /\ bio'[b].dbn = d
        /\ \A c \in Bios : c # b => bio'[c] = bio[c]
    BY DEF RequestInv, BioTypeOK, BioType, Arrive
  <1>5. BioInv' BY <1>4 DEF RequestInv, BioInv
  <1> QED BY <1>1, <1>2, <1>3, <1>4, <1>5 DEF RequestInv, GhostTypeOK

(* Bios that change their status.                                          *)
LEMMA SetStatusFacts ==
  ASSUME RequestInv, NEW B \in SUBSET Bios, \A b \in B : bio[b].st # "new",
         NEW st \in BioStatus, bio' = SetStatus(B, st), UNCHANGED ghostVars
  PROVE  /\ RequestInv'
         /\ \A b \in B : bio'[b].st = st
         /\ \A b \in Bios \ B : bio'[b] = bio[b]
  <1>1. BioTypeOK' BY DEF RequestInv, BioTypeOK, BioType, SetStatus
  <1>2. /\ \A b \in B : bio'[b].st = st /\ bio'[b].dbn = bio[b].dbn
        /\ \A b \in Bios \ B : bio'[b] = bio[b]
    BY DEF RequestInv, BioTypeOK, BioType, SetStatus
  <1>3. BioInv' BY <1>2 DEF RequestInv, BioInv
  <1>4. GhostTypeOK' BY DEF RequestInv, GhostTypeOK
  <1> QED BY <1>1, <1>2, <1>3, <1>4 DEF RequestInv

LEMMA SetStatusOne ==
  ASSUME RequestInv, NEW b \in Bios, bio[b].st # "new", NEW st \in BioStatus,
         bio' = SetStatus({b}, st), UNCHANGED ghostVars
  PROVE  /\ RequestInv'
         /\ bio'[b].st = st
         /\ \A c \in Bios \ {b} : bio'[c] = bio[c]
  <1>1. {b} \in SUBSET Bios /\ \A c \in {b} : bio[c].st # "new" OBVIOUS
  <1> QED BY <1>1, SetStatusFacts

-----------------------------------------------------------------------------
(* What the steps do to the blocks                                         *)

(* A block that is not in progress has no job.                             *)
LEMMA IdleHasNoJob ==
  ASSUME BlockInv, NEW s \in Slots, ~Busy(s)
  PROVE  job[s].phase = "none"
  <1>1. ASSUME NEW act \in Actions PROVE InprogBit(act) \in BlockIoInprog
    BY DEF Actions, InprogBit, BlockIoInprog
  <1> QED BY <1>1 DEF BlockInv, SlotInv, JobInv, Busy, Bits

(* A valid block that is neither dirty nor in progress is just valid.      *)
LEMMA CleanBits ==
  ASSUME BlockInv, NEW s \in Slots, ~Busy(s), "VALID" \in Bits(s), "DIRTY" \notin Bits(s)
  PROVE  Bits(s) = {"VALID"}
  BY DEF BlockInv, SlotInv, BitsInv, Bits, Busy, SlotTypeOK, StateBits

(* The tail of the callbacks: the block is released, or its job is on the  *)
(* pending list and still holds it.                                        *)
LEMMA FinishIoFacts ==
  ASSUME BlockInv, NEW s \in Slots, NEW error \in BOOLEAN, NEW b \in Bios \cup {None},
         job[s].phase = "io", FinishIo(s, error, b),
         UNCHANGED <<dbn, hashed, invalid_list, pending, mdVars>>
  PROVE  /\ BlockInv'
         /\ \A t \in Slots : t # s => job'[t] = job[t]
         /\ job'[s].bio \in {b, None}
  <1> USE DEF BlockInv
  <1>1. SlotTypeOK' BY DEF SlotTypeOK, FinishIo, StateBits, BlockIoInprog
  <1>2. JobTypeOK'
    <2>1. CASE error \/ pending[s] # {}
      <3>1. job[s] \in JobType BY DEF JobTypeOK
      <3>2. [job[s] EXCEPT !.phase = "pend", !.bio = b, !.err = error] \in JobType
        BY <3>1 DEF JobType, Phases
      <3> QED BY <2>1, <3>2 DEF JobTypeOK, FinishIo
    <2>2. CASE ~(error \/ pending[s] # {})
      <3>1. job' = [job EXCEPT ![s] = NoJob] BY <2>2 DEF FinishIo
      <3> QED BY <3>1 DEF JobTypeOK, JobType, NoJob
    <2> QED BY <2>1, <2>2
  <1>3. SlotInv'
    BY DEF SlotInv, BitsInv, JobInv, PhaseInv, Bits, SlotTypeOK, JobTypeOK, JobType,
           FinishIo, NoJob, InprogBit, Actions
  <1>4. ListInv'
    BY DEF ListInv, SlotInv, BitsInv, JobInv, Bits, SlotTypeOK, FinishIo,
           BlockIoInprog, StateBits
  <1>5. MdTypeOK' BY DEF MdTypeOK
  <1>6. PipelineInv' BY DEF PipelineInv, FinishIo, JobTypeOK, JobType, NoJob
  <1>7. /\ \A t \in Slots : t # s => job'[t] = job[t]
        /\ job'[s].bio \in {b, None}
    BY DEF FinishIo, JobTypeOK, JobType, NoJob
  <1> QED BY <1>1, <1>2, <1>3, <1>4, <1>5, <1>6, <1>7

(* A metadata update joins the pipeline.                                   *)
LEMMA MdWriteFacts ==
  ASSUME BlockInv, NEW s \in Slots, CacheMode = "WRITE_BACK",
         job[s].phase = "io", job[s].act \in {"WRITECACHE", "WRITEDISK"},
         MdWrite(s), UNCHANGED <<dbn, hashed, invalid_list, pending>>
  PROVE  /\ BlockInv'
         /\ \A t \in Slots : job'[t].bio = job[t].bio
  <1> USE DEF BlockInv
  <1>1. SlotTypeOK' BY DEF SlotTypeOK, MdWrite
  <1>2. JobTypeOK' BY DEF JobTypeOK, JobType, MdWrite, Phases
  <1>3. SlotInv'
    BY DEF SlotInv, BitsInv, JobInv, PhaseInv, Bits, SlotTypeOK, JobTypeOK, JobType,
           MdWrite
  <1>4. ListInv' BY DEF ListInv, Bits, MdWrite
  <1>5. MdTypeOK' BY DEF MdTypeOK, MdWrite
  <1>6. PipelineInv'
    BY DEF PipelineInv, MdWrite, JobTypeOK, JobType, MdTypeOK
  <1>7. \A t \in Slots : job'[t].bio = job[t].bio
    BY DEF MdWrite, JobTypeOK, JobType
  <1> QED BY <1>1, <1>2, <1>3, <1>4, <1>5, <1>6, <1>7

(* The clean and idle copies of a disk block are dropped.                  *)
LEMMA InvalidateCleanFacts ==
  ASSUME BlockInv, NEW d \in Dbns, Conflicts(d) = {}, InvalidateClean(d),
         pending' \in [Slots -> SUBSET Bios],
         \A t \in Slots : pending'[t] \subseteq pending[t],
         UNCHANGED <<dbn, job, mdVars>>
  PROVE  BlockInv'
  <1> USE DEF BlockInv
  <1>1. ASSUME NEW s \in Cached(d)
        PROVE  /\ s \in Slots /\ Bits(s) = {"VALID"}
               /\ job[s].phase = "none" /\ pending[s] = {}
    <2>1. s \in Slots /\ "VALID" \in Bits(s) /\ Bits(s) \in SUBSET StateBits
      BY DEF Cached, ListInv, SlotTypeOK, Bits
    <2>2. ~Busy(s) /\ pending[s] = {} /\ "DIRTY" \notin Bits(s)
      BY DEF Conflicts, Idle, Bits
    <2>3. job[s].phase = "none"
      BY <2>1, <2>2, IdleHasNoJob
    <2>4. Bits(s) = {"VALID"}
      BY <2>1, <2>2, CleanBits
    <2> QED BY <2>1, <2>2, <2>3, <2>4
  <1>2. SlotTypeOK'
    BY <1>1 DEF SlotTypeOK, InvalidateClean, StateBits
  <1>3. SlotInv'
    BY <1>1 DEF SlotInv, BitsInv, JobInv, PhaseInv, Bits, SlotTypeOK,
                InvalidateClean, BlockIoInprog
  <1>4. ListInv'
    BY <1>1 DEF ListInv, Bits, SlotTypeOK, InvalidateClean
  <1>5. JobTypeOK' /\ MdTypeOK' /\ PipelineInv'
    BY DEF JobTypeOK, MdTypeOK, PipelineInv
  <1> QED BY <1>2, <1>3, <1>4, <1>5

(* A bio joins the queue of a block that is in the way of an invalidation. *)
LEMMA CleanForInvalidateFacts ==
  ASSUME BlockInv, NEW d \in Dbns, NEW s \in Conflicts(d), NEW P \in [Slots -> SUBSET Bios],
         CleanForInvalidate(s), pending' = P,
         \A t \in Slots \ {s} : P[t] \subseteq pending[t],
         UNCHANGED <<dbn, hashed, invalid_list, mdVars>>
  PROVE  /\ BlockInv' /\ s \in Slots
         /\ \A t \in Slots : job'[t].bio \in {job[t].bio, None}
  <1> USE DEF BlockInv
  <1>1. s \in Slots /\ "VALID" \in Bits(s)
    BY DEF Conflicts, Cached, ListInv, SlotTypeOK
  <1>2. CASE Busy(s)
    <2>1. cache_state' = cache_state /\ job' = job
      BY <1>2 DEF CleanForInvalidate
    <2>2. job[s].phase # "none"
      BY <1>1, <1>2 DEF Busy, SlotInv, JobInv, Bits
    <2>3. SlotTypeOK' BY <2>1 DEF SlotTypeOK
    <2>4. SlotInv'
      BY <1>1, <2>1, <2>2 DEF SlotInv, BitsInv, JobInv, PhaseInv, Bits, SlotTypeOK
    <2>5. ListInv' /\ JobTypeOK' /\ MdTypeOK' /\ PipelineInv'
      BY <2>1 DEF ListInv, Bits, JobTypeOK, MdTypeOK, PipelineInv
    <2> QED BY <1>1, <2>1, <2>3, <2>4, <2>5
  <1>3. CASE ~Busy(s)
    <2>1. job[s].phase = "none"
      BY <1>1, <1>3, IdleHasNoJob
    <2>2. "DIRTY" \in Bits(s)
      BY <1>1, <1>3, <2>1 DEF Conflicts, Idle, Bits, SlotInv, JobInv
    <2>3. /\ cache_state' = [cache_state EXCEPT ![s] = @ \cup {"DISKWRITEINPROG"}]
          /\ job' = [job EXCEPT ![s] = Job("WRITEDISK", "wb", None)]
      BY <1>3, <2>2 DEF CleanForInvalidate, Bits
    <2>4. SlotTypeOK' BY <2>3, <1>1 DEF SlotTypeOK, StateBits, BlockIoInprog
    <2>5. JobTypeOK' BY <2>3, <1>1 DEF JobTypeOK, JobType, Job, Actions, Phases
    <2>6. SlotInv'
      BY <1>1, <1>3, <2>1, <2>2, <2>3
      DEF SlotInv, BitsInv, JobInv, PhaseInv, Bits, SlotTypeOK, JobTypeOK, Job, Busy,
          InprogBit, Actions, BlockIoInprog
    <2>7. ListInv'
      BY <1>1, <2>2, <2>3 DEF ListInv, Bits, SlotTypeOK
    <2>8. MdTypeOK' /\ PipelineInv'
      BY <1>1, <2>1, <2>3 DEF MdTypeOK, PipelineInv, Job, JobTypeOK
    <2>9. \A t \in Slots : job'[t].bio \in {job[t].bio, None}
      BY <2>3 DEF JobTypeOK, Job
    <2> QED BY <1>1, <2>4, <2>5, <2>6, <2>7, <2>8, <2>9
  <1> QED BY <1>2, <1>3

(* A block whose I/O failed is given up unless it is dirty.                *)
LEMMA GiveUpFacts ==
  ASSUME BlockInv, NEW s \in Slots, job[s].phase = "pend", GiveUpUnlessDirty(s),
         UNCHANGED <<dbn, mdVars>>
  PROVE  BlockInv'
  <1> USE DEF BlockInv
  <1>1. SlotTypeOK'
    BY DEF SlotTypeOK, GiveUpUnlessDirty, StateBits
  <1>2. JobTypeOK' BY DEF JobTypeOK, JobType, GiveUpUnlessDirty, NoJob
  <1>3. SlotInv'
    <2> SUFFICES ASSUME NEW t \in Slots PROVE (BitsInv(t) /\ JobInv(t) /\ PhaseInv(t))'
      BY DEF SlotInv
    <2>1. CASE t # s
      BY <2>1 DEF SlotInv, BitsInv, JobInv, PhaseInv, Bits, SlotTypeOK, JobTypeOK,
                  GiveUpUnlessDirty
    <2>2. CASE t = s
      <3>1. job'[s] = NoJob /\ pending'[s] = {}
        BY DEF GiveUpUnlessDirty, SlotTypeOK, JobTypeOK
      <3>2. cache_state'[s] \in {cache_state[s] \ BlockIoInprog, {"INVALID"}}
        BY DEF GiveUpUnlessDirty, SlotTypeOK
      <3> QED BY <2>2, <3>1, <3>2
                 DEF SlotInv, BitsInv, JobInv, PhaseInv, Bits, NoJob, BlockIoInprog
    <2> QED BY <2>1, <2>2
  <1>4. ListInv'
    BY DEF ListInv, SlotInv, BitsInv, JobInv, Bits, SlotTypeOK, GiveUpUnlessDirty,
           BlockIoInprog
  <1>5. MdTypeOK' /\ PipelineInv'
    BY DEF MdTypeOK, PipelineInv, GiveUpUnlessDirty, NoJob, JobTypeOK
  <1> QED BY <1>1, <1>2, <1>3, <1>4, <1>5

-----------------------------------------------------------------------------
(* What the steps do to the queues                                         *)

InJob == {"job", "ok", "eio"}

(* No bio is queued or taken off a queue, and no job takes a bio.          *)
LEMMA QueueStays ==
  ASSUME QueueInv, SlotTypeOK, JobTypeOK, JobTypeOK', pending' = pending,
         \A t \in Slots : job'[t].bio \in {job[t].bio, None},
         \A c \in Bios : /\ bio'[c].st \in Queued <=> bio[c].st \in Queued
                         /\ bio[c].st \in InJob => bio'[c].st \in InJob
  PROVE  QueueInv'
  <1>1. /\ \A t \in Slots : \A c \in pending'[t] : bio'[c].st \in Queued
        /\ \A c \in Bios : bio'[c].st \in Queued => \E t \in Slots : c \in pending'[t]
        /\ \A t, u \in Slots : \A c \in pending'[t] : c \in pending'[u] => t = u
    BY DEF QueueInv, SlotTypeOK
  <1>2. \A t \in Slots : job'[t].bio # None => bio'[job'[t].bio].st \in {"job", "ok", "eio"}
    BY DEF QueueInv, JobTypeOK, JobType, InJob
  <1>3. \A t, u \in Slots : job'[t].bio # None /\ job'[t].bio = job'[u].bio => t = u
    BY DEF QueueInv
  <1> QED BY <1>1, <1>2, <1>3 DEF QueueInv

(* The job of a block is over, and the queue of the block with it.         *)
LEMMA QueueFlushed ==
  ASSUME QueueInv, SlotTypeOK, JobTypeOK, NEW s \in Slots, 
         pending' = [pending EXCEPT ![s] = {}], job' = [job EXCEPT ![s] = NoJob],
         \A c \in Bios : c \in pending[s] \cup {job[s].bio} => bio'[c].st \notin Queued,
         \A c \in Bios \ (pending[s] \cup {job[s].bio}) : bio'[c] = bio[c]
  PROVE  QueueInv'
  <1> DEFINE Q == pending[s] \cup {job[s].bio}
  <1>1. \A c \in Bios : bio'[c].st \in Queued <=> bio[c].st \in Queued /\ c \notin pending[s]
    BY FlashcacheAssumption DEF QueueInv, JobTypeOK, JobType, Queued
  <1>2. \A t \in Slots : pending'[t] = IF t = s THEN {} ELSE pending[t]
    BY DEF SlotTypeOK
  <1>3. \A t \in Slots : /\ pending'[t] \subseteq pending[t]
                         /\ \A c \in pending'[t] : c \in Bios /\ c \notin pending[s]
    BY <1>2 DEF QueueInv, SlotTypeOK
  <1>4. \A t \in Slots : job'[t].bio # None =>
          /\ t # s /\ job'[t].bio = job[t].bio /\ job[t].bio \in Bios
          /\ job[t].bio \notin Q
    BY DEF QueueInv, SlotTypeOK, JobTypeOK, JobType, NoJob, Queued
  <1>5. \A c \in Bios : bio'[c].st \in Queued => \E t \in Slots : c \in pending'[t]
    BY <1>1, <1>2 DEF QueueInv
  <1>6. \A t \in Slots : \A c \in pending'[t] : bio'[c].st \in Queued
    BY <1>1, <1>3 DEF QueueInv
  <1>7. \A t, u \in Slots : \A c \in pending'[t] : c \in pending'[u] => t = u
    BY <1>3 DEF QueueInv
  <1>8. \A t, u \in Slots : job'[t].bio # None /\ job'[t].bio = job'[u].bio => t = u
    BY <1>4 DEF QueueInv
  <1>9. \A t \in Slots : job'[t].bio # None => bio'[job'[t].bio].st \in {"job", "ok", "eio"}
    BY <1>4 DEF QueueInv
  <1> QED BY <1>5, <1>6, <1>7, <1>8, <1>9 DEF QueueInv

(* A new job takes a bio that has just arrived.                            *)
LEMMA QueueJobTaken ==
  ASSUME QueueInv, SlotTypeOK, JobTypeOK, NEW s \in Slots, NEW b \in Bios,
         bio[b].st = "new", bio'[b].st = "job",
         \A c \in Bios : c # b => bio'[c] = bio[c],
         pending' = pending,
         \A t \in Slots : job'[t].bio = IF t = s THEN b ELSE job[t].bio
  PROVE  QueueInv'
  <1>1. \A t \in Slots : b \notin pending[t] /\ job[t].bio # b
    BY FlashcacheAssumption DEF QueueInv, Queued
  <1>2. \A t \in Slots : \A c \in pending'[t] : c \in Bios /\ c # b /\ bio'[c].st \in Queued
    BY <1>1 DEF QueueInv, SlotTypeOK
  <1>3. \A c \in Bios : bio'[c].st \in Queued => \E t \in Slots : c \in pending'[t]
    BY DEF QueueInv, Queued
  <1>4. \A t, u \in Slots : \A c \in pending'[t] : c \in pending'[u] => t = u
    BY DEF QueueInv
  <1>5. \A t \in Slots : job'[t].bio # None => bio'[job'[t].bio].st \in {"job", "ok", "eio"}
    <2> TAKE t \in Slots
    <2>1. CASE t = s BY <2>1
    <2>2. CASE t # s
      <3>1. job[t].bio \in Bios \cup {None} BY DEF JobTypeOK, JobType
      <3> QED BY <1>1, <2>2, <3>1 DEF QueueInv
    <2> QED BY <2>1, <2>2
  <1>6. \A t, u \in Slots : job'[t].bio # None /\ job'[t].bio = job'[u].bio => t = u
    BY <1>1 DEF QueueInv
  <1> QED BY <1>2, <1>3, <1>4, <1>5, <1>6 DEF QueueInv

(* A bio that no block has joins the queue of a block.                     *)
LEMMA QueueGrows ==
  ASSUME QueueInv, SlotTypeOK, JobTypeOK, JobTypeOK', NEW s \in Slots, NEW b \in Bios,
         bio[b].st \notin Queued \cup InJob, bio'[b].st \in Queued,
         \A c \in Bios : c # b => bio'[c] = bio[c],
         pending' = [pending EXCEPT ![s] = @ \cup {b}],
         \A t \in Slots : job'[t].bio \in {job[t].bio, None}
  PROVE  QueueInv'
  <1>1. \A t \in Slots : pending'[t] = IF t = s THEN pending[t] \cup {b} ELSE pending[t]
    BY DEF SlotTypeOK
  <1>2. \A t \in Slots : b \notin pending[t] /\ job[t].bio # b
    BY FlashcacheAssumption DEF QueueInv, InJob
  <1>3. ASSUME NEW c \in Bios, bio'[c].st \in Queued PROVE \E t \in Slots : c \in pending'[t]
    <2>1. CASE c = b BY <1>1, <2>1
    <2>2. CASE c # b
      <3>1. PICK t \in Slots : c \in pending[t] BY <1>3, <2>2 DEF QueueInv
      <3> QED BY <1>1, <3>1
    <2> QED BY <2>1, <2>2
  <1>4. ASSUME NEW t \in Slots, NEW c \in pending'[t] PROVE bio'[c].st \in Queued
    <2>1. CASE c = b BY <2>1
    <2>2. CASE c # b
      <3>1. c \in pending[t] /\ c \in Bios BY <1>1, <2>2 DEF SlotTypeOK
      <3> QED BY <2>2, <3>1 DEF QueueInv
    <2> QED BY <2>1, <2>2
  <1>5. \A t, u \in Slots : \A c \in pending'[t] : c \in pending'[u] => t = u
    BY <1>1, <1>2 DEF QueueInv
  <1>6. \A t, u \in Slots : job'[t].bio # None /\ job'[t].bio = job'[u].bio => t = u
    BY DEF QueueInv
  <1>7. \A t \in Slots : job'[t].bio # None => bio'[job'[t].bio].st \in {"job", "ok", "eio"}
    BY <1>2 DEF QueueInv, JobTypeOK, JobType
  <1> QED BY <1>3, <1>4, <1>5, <1>6, <1>7 DEF QueueInv

-----------------------------------------------------------------------------
(* The initial state                                                       *)

LEMMA InitIInv == Init => IInv
  <1> SUFFICES ASSUME Init PROVE IInv OBVIOUS
  <1> USE DEF Init
  <1>1. SlotTypeOK /\ JobTypeOK /\ MdTypeOK
    BY DEF SlotTypeOK, JobTypeOK, JobType, MdTypeOK, MdType, MdStates, BlankMd, NoJob,
           StateBits
  <1>2. SlotInv
    BY DEF SlotInv, BitsInv, JobInv, PhaseInv, Bits, NoJob, BlockIoInprog
  <1>3. ListInv BY DEF ListInv, Bits
  <1>4. PipelineInv BY DEF PipelineInv, NoJob
  <1>5. RequestInv
    BY DEF RequestInv, BioTypeOK, BioType, BioStatus, NewBio, GhostTypeOK, Values, BioInv
  <1>6. QueueInv BY DEF QueueInv, NewBio, NoJob, Queued
  <1>7. DevTypeOK
    BY DEF DevTypeOK, MdType, MdStates, BlankMd, Values
  <1>8. DirtyRecordsInv(flash_md) /\ DirtyRecordsInv(md_image)
    BY DEF DirtyRecordsInv, BlankMd
  <1> QED BY <1>1, <1>2, <1>3, <1>4, <1>5, <1>6, <1>7, <1>8 DEF IInv, BlockInv, DeviceInv

-----------------------------------------------------------------------------
(* The steps                                                               *)

(* The steps that leave the devices and the metadata image alone.          *)
LEMMA DeviceStays ==
  ASSUME DeviceInv, UNCHANGED <<devVars, md_image>> PROVE DeviceInv'
  BY DEF DeviceInv, DevTypeOK, DirtyRecordsInv

LEMMA MapUncachedInv ==
  ASSUME IInv, NEW b \in Bios, NEW d \in Dbns, NEW dir \in {"READ", "WRITE"},
         MapUncached(b, d, dir)
  PROVE  IInv'
  <1> USE DEF IInv, MapUncached
  <1>1. PICK st \in StartUncached : Arrive(b, d, dir, st) OBVIOUS
  <1>2. st \in {"disk", "eio"} BY DEF StartUncached
  <1>3. /\ RequestInv' /\ bio'[b].st = st /\ bio[b].st = "new"
        /\ \A c \in Bios : c # b => bio'[c] = bio[c]
    BY <1>1, <1>2, ArriveFacts DEF BioStatus
  <1>4. BlockInv' BY InvalidateCleanFacts DEF BlockInv, SlotTypeOK
  <1>5. QueueInv'
    <2>1. \A c \in Bios : /\ bio'[c].st \in Queued <=> bio[c].st \in Queued
                          /\ bio[c].st \in InJob => bio'[c].st \in InJob
      BY <1>2, <1>3 DEF Queued, InJob
    <2> QED BY <2>1, QueueStays DEF BlockInv, JobTypeOK
  <1>6. DeviceInv' BY DeviceStays
  <1> QED BY <1>3, <1>4, <1>5, <1>6

LEMMA MapUncachedConflictInv ==
  ASSUME IInv, NEW b \in Bios, NEW d \in Dbns, NEW dir \in {"READ", "WRITE"},
         MapUncachedConflict(b, d, dir)
  PROVE  IInv'
  <1> USE DEF IInv
  <1>1. PICK s \in Conflicts(d) :
          /\ Arrive(b, d, dir, "queued_inval")
          /\ pending' = [pending EXCEPT ![s] = @ \cup {b}]
          /\ CleanForInvalidate(s)
          /\ UNCHANGED <<dbn, hashed, invalid_list, mdVars, devVars, bypass_cache, crashes>>
    BY DEF MapUncachedConflict
  <1>2. /\ RequestInv' /\ bio'[b].st = "queued_inval" /\ bio[b].st = "new"
        /\ \A c \in Bios : c # b => bio'[c] = bio[c]
    BY <1>1, ArriveFacts DEF BioStatus
  <1>3. /\ BlockInv' /\ s \in Slots
        /\ \A t \in Slots : job'[t].bio \in {job[t].bio, None}
    <2>1. /\ pending' \in [Slots -> SUBSET Bios]
          /\ \A t \in Slots \ {s} : pending'[t] \subseteq pending[t]
      BY <1>1 DEF BlockInv, SlotTypeOK
    <2> QED BY <1>1, <2>1, CleanForInvalidateFacts
  <1>4. QueueInv'
    BY <1>1, <1>2, <1>3, QueueGrows DEF BlockInv, Queued, InJob
  <1>5. DeviceInv' BY <1>1, DeviceStays
  <1> QED BY <1>1, <1>2, <1>3, <1>4, <1>5

LEMMA MapFailsInv ==
  ASSUME IInv, NEW b \in Bios, NEW d \in Dbns, NEW dir \in {"READ", "WRITE"},
         MapFails(b, d, dir)
  PROVE  IInv'
  <1> USE DEF IInv, MapFails
  <1>1. /\ RequestInv' /\ bio'[b].st = "eio" /\ bio[b].st = "new"
        /\ \A c \in Bios : c # b => bio'[c] = bio[c]
    BY ArriveFacts DEF BioStatus
  <1>2. BlockInv'
    BY DEF BlockInv, SlotTypeOK, JobTypeOK, MdTypeOK, SlotInv, BitsInv, JobInv, PhaseInv,
           Bits, ListInv, PipelineInv
  <1>3. QueueInv'
    BY <1>1, QueueStays DEF BlockInv, JobTypeOK, Queued, InJob
  <1>4. DeviceInv' BY DeviceStays
  <1> QED BY <1>1, <1>2, <1>3, <1>4

LEMMA MapHitInv ==
  ASSUME IInv, NEW b \in Bios, NEW d \in Dbns, NEW dir \in {"READ", "WRITE"},
         MapHit(b, d, dir)
  PROVE  IInv'
  <1> USE DEF IInv
  <1> DEFINE act == IF dir = "READ" THEN "READCACHE" ELSE "WRITECACHE"
  <1>1. PICK s \in Cached(d) :
          /\ Idle(s)
          /\ Arrive(b, d, dir, "job")
          /\ cache_state' = [cache_state EXCEPT ![s] = @ \cup {InprogBit(act)}]
          /\ job' = [job EXCEPT ![s] = Job(act, "hit", b)]
    BY DEF MapHit
  <1>2. UNCHANGED <<dbn, hashed, invalid_list, pending, mdVars, devVars,
                    bypass_cache, crashes>>
    BY DEF MapHit
  <1>3. /\ s \in Slots /\ "VALID" \in Bits(s) /\ job[s].phase = "none"
        /\ Bits(s) \cap BlockIoInprog = {}
    BY <1>1, IdleHasNoJob DEF Cached, BlockInv, SlotTypeOK, ListInv, Idle, Busy, Bits
  <1>4. act \in Actions /\ act # "WRITEDISK" /\ InprogBit(act) \in BlockIoInprog
    BY DEF Actions, InprogBit, BlockIoInprog
  <1>5. /\ RequestInv' /\ bio'[b].st = "job" /\ bio[b].st = "new"
        /\ \A c \in Bios : c # b => bio'[c] = bio[c]
    BY <1>1, ArriveFacts DEF BioStatus
  <1> HIDE DEF act
  <1>6. BlockInv'
    <2> USE DEF BlockInv
    <2>1. SlotTypeOK' BY <1>1, <1>2, <1>3, <1>4 DEF SlotTypeOK, StateBits
    <2>2. JobTypeOK' BY <1>1, <1>3, <1>4 DEF JobTypeOK, JobType, Job, Phases
    <2>3. SlotInv'
      BY <1>1, <1>2, <1>3, <1>4, FlashcacheAssumption
      DEF SlotInv, BitsInv, JobInv, PhaseInv, Bits, SlotTypeOK, JobTypeOK, Job, BlockIoInprog
    <2>4. ListInv' BY <1>1, <1>2, <1>3, <1>4 DEF ListInv, Bits, SlotTypeOK
    <2>5. MdTypeOK' BY <1>2 DEF MdTypeOK
    <2>6. PipelineInv' BY <1>1, <1>2, <1>3 DEF PipelineInv, JobTypeOK, Job
    <2> QED BY <2>1, <2>2, <2>3, <2>4, <2>5, <2>6
  <1>7. QueueInv'
    <2>1. \A t \in Slots : job'[t].bio = IF t = s THEN b ELSE job[t].bio
      BY <1>1, <1>3 DEF BlockInv, JobTypeOK, JobType, Job
    <2>2. pending' = pending BY <1>2
    <2> QED BY <1>3, <1>5, <2>1, <2>2, QueueJobTaken DEF BlockInv
  <1>8. DeviceInv' BY <1>2, DeviceStays
  <1> QED BY <1>2, <1>5, <1>6, <1>7, <1>8

LEMMA MapHitBusyInv ==
  ASSUME IInv, NEW b \in Bios, NEW d \in Dbns, NEW dir \in {"READ", "WRITE"},
         MapHitBusy(b, d, dir)
  PROVE  IInv'
  <1> USE DEF IInv
  <1>1. PICK s \in Cached(d) :
          /\ ~Idle(s)
          /\ Arrive(b, d, dir, "queued")
          /\ pending' = [pending EXCEPT ![s] = @ \cup {b}]
    BY DEF MapHitBusy
  <1>2. UNCHANGED <<cache_state, dbn, hashed, invalid_list, job, mdVars, devVars,
                    bypass_cache, crashes>>
    BY DEF MapHitBusy
  <1>3. s \in Slots /\ job[s].phase # "none"
    BY <1>1 DEF Cached, BlockInv, SlotTypeOK, SlotInv, JobInv, Idle, Busy, Bits
  <1>4. /\ RequestInv' /\ bio'[b].st = "queued" /\ bio[b].st = "new"
        /\ \A c \in Bios : c # b => bio'[c] = bio[c]
    BY <1>1, ArriveFacts DEF BioStatus
  <1>5. BlockInv'
    <2> USE DEF BlockInv
    <2>1. SlotTypeOK' BY <1>1, <1>2 DEF SlotTypeOK
    <2>2. SlotInv'
      BY <1>1, <1>2, <1>3 DEF SlotInv, BitsInv, JobInv, PhaseInv, Bits, SlotTypeOK
    <2>3. JobTypeOK' /\ ListInv' /\ MdTypeOK' /\ PipelineInv'
      BY <1>2 DEF JobTypeOK, ListInv, Bits, MdTypeOK, PipelineInv
    <2> QED BY <2>1, <2>2, <2>3
  <1>6. QueueInv'
    BY <1>1, <1>2, <1>3, <1>4, <1>5, QueueGrows DEF BlockInv, Queued, InJob
  <1>7. DeviceInv' BY <1>2, DeviceStays
  <1> QED BY <1>2, <1>4, <1>5, <1>6, <1>7

LEMMA MapMissInv ==
  ASSUME IInv, NEW b \in Bios, NEW d \in Dbns, NEW dir \in {"READ", "WRITE"},
         MapMiss(b, d, dir)
  PROVE  IInv'
  <1> USE DEF IInv
  <1> DEFINE act == IF dir = "READ" THEN "READDISK" ELSE "WRITECACHE"
  <1>1. PICK s \in Victims :
          /\ Arrive(b, d, dir, "job")
          /\ cache_state' = [cache_state EXCEPT ![s] = {"VALID", InprogBit(act)}]
          /\ dbn' = [dbn EXCEPT ![s] = d]
          /\ hashed' = hashed \cup {s}
          /\ invalid_list' = invalid_list \ {s}
          /\ job' = [job EXCEPT ![s] = Job(act, "miss", b)]
    BY DEF MapMiss
  <1>2. /\ UNCHANGED <<pending, mdVars, devVars, bypass_cache, crashes>>
        /\ Cached(d) = {}
    BY DEF MapMiss
  <1>3. s \in Slots /\ Bits(s) \in {{"VALID"}, {"INVALID"}}
    BY DEF Victims, BlockInv, SlotTypeOK, ListInv, Bits
  <1>4. job[s].phase = "none"
    BY <1>3, IdleHasNoJob DEF Busy, Bits, BlockIoInprog
  <1>5. act \in Actions /\ act # "WRITEDISK" /\ InprogBit(act) \in BlockIoInprog
    BY DEF Actions, InprogBit, BlockIoInprog
  <1>6. /\ RequestInv' /\ bio'[b].st = "job" /\ bio[b].st = "new"
        /\ \A c \in Bios : c # b => bio'[c] = bio[c]
    BY <1>1, ArriveFacts DEF BioStatus
  <1> HIDE DEF act
  <1>7. BlockInv'
    <2> USE DEF BlockInv
    <2>1. SlotTypeOK' BY <1>1, <1>2, <1>3, <1>5 DEF SlotTypeOK, StateBits
    <2>2. JobTypeOK' BY <1>1, <1>3, <1>5 DEF JobTypeOK, JobType, Job, Phases
    <2>3. SlotInv'
      BY <1>1, <1>2, <1>3, <1>4, <1>5, FlashcacheAssumption
      DEF SlotInv, BitsInv, JobInv, PhaseInv, Bits, SlotTypeOK, JobTypeOK, Job, BlockIoInprog
    <2>4. ListInv'
      BY <1>1, <1>2, <1>3, <1>5 DEF ListInv, Bits, SlotTypeOK, Cached, BlockIoInprog
    <2>5. MdTypeOK' BY <1>2 DEF MdTypeOK
    <2>6. PipelineInv' BY <1>1, <1>2, <1>4 DEF PipelineInv, JobTypeOK, Job
    <2> QED BY <2>1, <2>2, <2>3, <2>4, <2>5, <2>6
  <1>8. QueueInv'
    <2>1. \A t \in Slots : job'[t].bio = IF t = s THEN b ELSE job[t].bio
      BY <1>1, <1>3 DEF BlockInv, JobTypeOK, JobType, Job
    <2>2. pending' = pending BY <1>2
    <2> QED BY <1>3, <1>6, <2>1, <2>2, QueueJobTaken DEF BlockInv
  <1>9. DeviceInv' BY <1>2, DeviceStays
  <1> QED BY <1>2, <1>6, <1>7, <1>8, <1>9

(* The bio of a job that is in I/O.                                        *)
LEMMA JobBio ==
  ASSUME IInv, NEW s \in Slots, job[s].phase = "io", job[s].act # "WRITEDISK"
  PROVE  job[s].bio \in Bios /\ bio[job[s].bio].st \in InJob
  BY DEF IInv, BlockInv, JobTypeOK, JobType, SlotInv, PhaseInv, QueueInv, InJob

(* An I/O ends together with its bio.                                      *)
LEMMA IoEnds ==
  ASSUME IInv, NEW s \in Slots, job[s].phase = "io", job[s].act # "WRITEDISK",
         NEW error \in BOOLEAN, NEW v \in Values \cup {None},
         EndIo(job[s].bio, error, v), FinishIo(s, error, None),
         UNCHANGED <<dbn, hashed, invalid_list, pending, mdVars>>
  PROVE  BlockInv' /\ RequestInv' /\ QueueInv'
  <1> USE DEF IInv
  <1>1. job[s].bio \in Bios /\ bio[job[s].bio].st \in InJob BY JobBio
  <1>2. /\ RequestInv' /\ bio'[job[s].bio].st \in {"ok", "eio"}
        /\ \A c \in Bios : c # job[s].bio => bio'[c] = bio[c]
    BY <1>1, EndIoFacts DEF InJob
  <1>3. /\ BlockInv' /\ job'[s].bio = None
        /\ \A t \in Slots : t # s => job'[t] = job[t]
    BY FinishIoFacts
  <1>4. \A c \in Bios : /\ bio'[c].st \in Queued <=> bio[c].st \in Queued
                        /\ bio[c].st \in InJob => bio'[c].st \in InJob
    BY <1>1, <1>2 DEF Queued, InJob
  <1>5. QueueInv' BY <1>3, <1>4, QueueStays DEF BlockInv
  <1> QED BY <1>2, <1>3, <1>5

(* An I/O ends with an error, for which the bio may be retried.            *)
LEMMA IoFails ==
  ASSUME IInv, NEW s \in Slots, job[s].phase = "io", job[s].act # "WRITEDISK",
         FailBio(s), UNCHANGED <<dbn, hashed, invalid_list, pending, mdVars>>
  PROVE  BlockInv' /\ RequestInv' /\ QueueInv' /\ bypass_cache' \in BOOLEAN
  <1> USE DEF IInv
  <1>1. job[s].bio \in Bios BY JobBio
  <1>2. CASE CacheMode = "WRITE_BACK"
    <2>1. bio[job[s].bio].val \in Values \cup {None}
      BY <1>1 DEF RequestInv, BioTypeOK, BioType
    <2>2. EndIo(job[s].bio, TRUE, bio[job[s].bio].val) /\ FinishIo(s, TRUE, None)
      BY <1>2 DEF FailBio
    <2>3. BlockInv' /\ RequestInv' /\ QueueInv' BY <2>1, <2>2, IoEnds
    <2> QED BY <2>3 DEF FailBio
  <1>3. CASE CacheMode # "WRITE_BACK"
    <2>1. FinishIo(s, TRUE, job[s].bio) /\ UNCHANGED <<bio, ghostVars>>
      BY <1>3 DEF FailBio
    <2>2. /\ BlockInv' /\ job'[s].bio \in {job[s].bio, None}
          /\ \A t \in Slots : t # s => job'[t] = job[t]
      BY <1>1, <2>1, FinishIoFacts
    <2>3. RequestInv' BY <2>1 DEF RequestInv, BioTypeOK, GhostTypeOK, BioInv
    <2>4. QueueInv' BY <2>1, <2>2, QueueStays DEF BlockInv
    <2> QED BY <2>2, <2>3, <2>4 DEF FailBio
  <1> QED BY <1>2, <1>3

LEMMA RequestsStay ==
  ASSUME RequestInv, UNCHANGED <<bio, ghostVars>> PROVE RequestInv'
  BY DEF RequestInv, BioTypeOK, GhostTypeOK, BioInv

LEMMA StartJobInv ==
  ASSUME IInv, NEW s \in Slots, StartJob(s) PROVE IInv'
  <1> USE DEF IInv, StartJob
  <1>1. BlockInv'
    <2> USE DEF BlockInv
    <2>1. SlotTypeOK' /\ ListInv' /\ MdTypeOK' BY DEF SlotTypeOK, ListInv, Bits, MdTypeOK
    <2>2. JobTypeOK' BY DEF JobTypeOK, JobType, Phases
    <2>3. SlotInv'
      BY DEF SlotInv, BitsInv, JobInv, PhaseInv, Bits, JobTypeOK, JobType
    <2>4. PipelineInv' BY DEF PipelineInv, JobTypeOK, JobType
    <2> QED BY <2>1, <2>2, <2>3, <2>4
  <1>2. QueueInv'
    <2>1. \A t \in Slots : job'[t].bio = job[t].bio BY DEF BlockInv, JobTypeOK, JobType
    <2> QED BY <1>1, <2>1, QueueStays DEF BlockInv
  <1> QED BY <1>1, <1>2, RequestsStay, DeviceStays

LEMMA StartJobFailsInv ==
  ASSUME IInv, NEW s \in Slots, StartJobFails(s) PROVE IInv'
  <1> USE DEF IInv, StartJobFails
  <1>1. job[s].bio \in Bios /\ bio[job[s].bio].st \in InJob
    BY DEF BlockInv, JobTypeOK, JobType, SlotInv, PhaseInv, QueueInv, InJob
  <1>2. BlockInv'
    <2> USE DEF BlockInv
    <2>1. SlotTypeOK' BY DEF SlotTypeOK, StateBits
    <2>2. JobTypeOK' BY DEF JobTypeOK, JobType, NoJob
    <2>3. SlotInv'
      <3> SUFFICES ASSUME NEW t \in Slots PROVE (BitsInv(t) /\ JobInv(t) /\ PhaseInv(t))'
        BY DEF SlotInv
      <3>1. CASE t # s
        BY <3>1 DEF SlotInv, BitsInv, JobInv, PhaseInv, Bits, SlotTypeOK, JobTypeOK
      <3>2. CASE t = s
        <4>1. job'[s] = NoJob /\ pending'[s] = {} BY DEF SlotTypeOK, JobTypeOK
        <4>2. cache_state'[s] \in {cache_state[s] \ BlockIoInprog, {"INVALID"}}
          BY DEF SlotTypeOK
        <4> QED BY <3>2, <4>1, <4>2
                   DEF SlotInv, BitsInv, JobInv, PhaseInv, Bits, NoJob, BlockIoInprog
      <3> QED BY <3>1, <3>2
    <2>4. ListInv'
      BY DEF ListInv, SlotInv, BitsInv, JobInv, Bits, SlotTypeOK, BlockIoInprog
    <2>5. MdTypeOK' /\ PipelineInv'
      BY DEF MdTypeOK, PipelineInv, NoJob, JobTypeOK
    <2> QED BY <2>1, <2>2, <2>3, <2>4, <2>5
  <1> DEFINE B == pending[s] \cup {job[s].bio}
  <1>3. B \in SUBSET Bios /\ \A c \in B : bio[c].st # "new"
    BY <1>1 DEF BlockInv, SlotTypeOK, QueueInv, Queued, InJob
  <1>4. bio' = SetStatus(B, "eio") /\ UNCHANGED ghostVars OBVIOUS
  <1>5. /\ RequestInv'
        /\ \A c \in B : bio'[c].st = "eio"
        /\ \A c \in Bios \ B : bio'[c] = bio[c]
    <2> HIDE DEF B, StartJobFails
    <2> QED BY <1>3, <1>4, SetStatusFacts DEF BioStatus
  <1>6. QueueInv' BY <1>5, QueueFlushed DEF BlockInv, Queued
  <1> QED BY <1>2, <1>5, <1>6, DeviceStays

LEMMA ReadDiskDoneInv ==
  ASSUME IInv, NEW s \in Slots, ReadDiskDone(s) PROVE IInv'
  <1> USE DEF IInv, InIo
  <1>1. /\ job[s].phase = "io" /\ job[s].act = "READDISK"
        /\ UNCHANGED <<dbn, hashed, invalid_list, pending, mdVars, devVars, crashes>>
    BY DEF ReadDiskDone
  <1>2. job[s].bio \in Bios /\ bio[job[s].bio].st \in InJob BY <1>1, JobBio
  <1>3. CASE /\ EndIo(job[s].bio, TRUE, None)
             /\ FinishIo(s, TRUE, None)
             /\ bypass_cache' = (bypass_cache \/ CacheMode # "WRITE_BACK")
    BY <1>1, <1>3, IoEnds, DeviceStays
  <1>4. CASE /\ bio' = [bio EXCEPT ![job[s].bio].val = disk[dbn[s]]]
             /\ job' = [job EXCEPT ![s].act = "READFILL"]
             /\ UNCHANGED <<cache_state, bypass_cache, ghostVars>>
    <2>1. BlockInv'
      <3> USE DEF BlockInv
      <3>1. SlotTypeOK' /\ ListInv' /\ MdTypeOK'
        BY <1>1, <1>4 DEF SlotTypeOK, ListInv, Bits, MdTypeOK
      <3>2. JobTypeOK' BY <1>4 DEF JobTypeOK, JobType, Actions
      <3>3. SlotInv'
        BY <1>1, <1>4 DEF SlotInv, BitsInv, JobInv, PhaseInv, Bits, JobTypeOK, JobType,
                          Actions, InprogBit
      <3>4. PipelineInv' BY <1>1, <1>4 DEF PipelineInv, JobTypeOK, JobType
      <3> QED BY <3>1, <3>2, <3>3, <3>4
    <2>2. disk[dbn[s]] \in Values \cup {None}
      BY <1>1 DEF BlockInv, SlotInv, BitsInv, JobInv, DeviceInv, DevTypeOK
    <2>3. /\ BioTypeOK'
          /\ \A c \in Bios : bio'[c].st = bio[c].st /\ bio'[c].dbn = bio[c].dbn
      <3>1. [bio[job[s].bio] EXCEPT !.val = disk[dbn[s]]] \in BioType
        BY <1>2, <2>2 DEF RequestInv, BioTypeOK, BioType
      <3>2. bio' = [bio EXCEPT ![job[s].bio] = [bio[job[s].bio] EXCEPT !.val = disk[dbn[s]]]]
        BY <1>2, <1>4 DEF RequestInv, BioTypeOK, BioType
      <3>3. BioTypeOK' BY <1>2, <3>1, <3>2 DEF RequestInv, BioTypeOK
      <3>4. \A c \in Bios : bio'[c].st = bio[c].st /\ bio'[c].dbn = bio[c].dbn
        BY <1>2, <1>4 DEF RequestInv, BioTypeOK, BioType
      <3> QED BY <3>3, <3>4
    <2>4. RequestInv' BY <1>4, <2>3 DEF RequestInv, BioInv, GhostTypeOK
    <2>5. QueueInv'
      <3>1. \A t \in Slots : job'[t].bio = job[t].bio
        BY <1>4 DEF BlockInv, JobTypeOK, JobType
      <3> QED BY <1>1, <2>1, <2>3, <3>1, QueueStays DEF BlockInv
    <2> QED BY <1>1, <1>4, <2>1, <2>4, <2>5, DeviceStays
  <1> QED BY <1>3, <1>4 DEF ReadDiskDone

LEMMA ReadFillDoneInv ==
  ASSUME IInv, NEW s \in Slots, ReadFillDone(s) PROVE IInv'
  <1> USE DEF IInv, InIo
  <1> DEFINE b == job[s].bio
  <1>1. /\ job[s].phase = "io" /\ job[s].act = "READFILL"
        /\ UNCHANGED <<dbn, hashed, invalid_list, pending, mdVars, flash_md, disk, crashes>>
        /\ ssd' \in {ssd, [ssd EXCEPT ![s] = bio[b].val]}
    BY DEF ReadFillDone
  <1>2. bio[b].val \in Values \cup {None}
    BY <1>1, JobBio DEF RequestInv, BioTypeOK, BioType
  <1>3. DeviceInv'
    BY <1>1, <1>2 DEF DeviceInv, DevTypeOK, DirtyRecordsInv
  <1>4. CASE /\ EndIo(b, FALSE, bio[b].val) /\ FinishIo(s, FALSE, None)
             /\ UNCHANGED bypass_cache
    BY <1>1, <1>2, <1>3, <1>4, IoEnds
  <1>5. CASE FailBio(s)
    BY <1>1, <1>3, <1>5, IoFails
  <1> QED BY <1>4, <1>5 DEF ReadFillDone

LEMMA ReadCacheDoneInv ==
  ASSUME IInv, NEW s \in Slots, ReadCacheDone(s) PROVE IInv'
  <1> USE DEF IInv, InIo
  <1>1. /\ job[s].phase = "io" /\ job[s].act = "READCACHE"
        /\ UNCHANGED <<dbn, hashed, invalid_list, pending, mdVars, devVars, crashes>>
    BY DEF ReadCacheDone
  <1>2. ssd[s] \in Values \cup {None} BY DEF DeviceInv, DevTypeOK
  <1>3. CASE /\ EndIo(job[s].bio, FALSE, ssd[s]) /\ FinishIo(s, FALSE, None)
             /\ UNCHANGED bypass_cache
    BY <1>1, <1>2, <1>3, IoEnds, DeviceStays
  <1>4. CASE FailBio(s)
    BY <1>1, <1>4, IoFails, DeviceStays
  <1> QED BY <1>3, <1>4 DEF ReadCacheDone

LEMMA WriteCacheDoneInv ==
  ASSUME IInv, NEW s \in Slots, WriteCacheDone(s) PROVE IInv'
  <1> USE DEF IInv, InIo
  <1> DEFINE b == job[s].bio
  <1>1. /\ job[s].phase = "io" /\ job[s].act = "WRITECACHE" /\ CacheMode = "WRITE_BACK"
        /\ UNCHANGED <<dbn, hashed, invalid_list, pending, flash_md, disk, crashes>>
        /\ ssd' \in {ssd, [ssd EXCEPT ![s] = b]}
    BY DEF WriteCacheDone
  <1>2. b \in Bios /\ b \in Values BY <1>1, JobBio DEF Values
  <1>3. CASE /\ EndIo(b, FALSE, b) /\ FinishIo(s, FALSE, None) /\ UNCHANGED mdVars
             /\ UNCHANGED bypass_cache
    BY <1>1, <1>2, <1>3, IoEnds DEF DeviceInv, DevTypeOK, DirtyRecordsInv
  <1>4. CASE MdWrite(s) /\ UNCHANGED <<bio, ghostVars>> /\ UNCHANGED bypass_cache
    <2>1. BlockInv' /\ \A t \in Slots : job'[t].bio = job[t].bio
      BY <1>1, <1>4, MdWriteFacts
    <2>2. QueueInv' BY <1>1, <1>4, <2>1, QueueStays DEF BlockInv
    <2>3. DeviceInv'
      BY <1>1, <1>2, <1>4 DEF MdWrite, DeviceInv, DevTypeOK, DirtyRecordsInv
    <2> QED BY <1>1, <1>4, <2>1, <2>2, <2>3, RequestsStay
  <1>5. CASE FailBio(s) /\ UNCHANGED mdVars
    BY <1>1, <1>2, <1>5, IoFails DEF DeviceInv, DevTypeOK, DirtyRecordsInv
  <1> QED BY <1>3, <1>4, <1>5 DEF WriteCacheDone

LEMMA WriteThroughDoneInv ==
  ASSUME IInv, NEW s \in Slots, WriteThroughDone(s) PROVE IInv'
  <1> USE DEF IInv, InIo
  <1> DEFINE b == job[s].bio
  <1>1. /\ job[s].phase = "io" /\ job[s].act = "WRITECACHE"
        /\ UNCHANGED <<dbn, hashed, invalid_list, pending, mdVars, flash_md, crashes>>
        /\ ssd' \in {ssd, [ssd EXCEPT ![s] = b]}
        /\ disk' \in {disk, [disk EXCEPT ![dbn[s]] = b]}
    BY DEF WriteThroughDone
  <1>2. b \in Bios /\ b \in Values BY <1>1, JobBio DEF Values
  <1>3. DeviceInv'
    BY <1>1, <1>2 DEF DeviceInv, DevTypeOK, DirtyRecordsInv
  <1>4. PICK error \in BOOLEAN : /\ EndIo(b, error, b) /\ FinishIo(s, error, None)
                                 /\ bypass_cache' \in BOOLEAN
    BY DEF WriteThroughDone
  <1> QED BY <1>1, <1>2, <1>3, <1>4, IoEnds

LEMMA CleanSetInv ==
  ASSUME IInv, NEW S \in SUBSET Slots, CleanSet(S) PROVE IInv'
  <1> USE DEF IInv, CleanSet
  <1>1. \A s \in S : job[s].phase = "none" /\ "VALID" \in Bits(s)
    BY IdleHasNoJob DEF BlockInv, SlotInv, BitsInv, Bits
  <1>2. BlockInv'
    <2> USE DEF BlockInv
    <2>1. SlotTypeOK' BY DEF SlotTypeOK, StateBits, BlockIoInprog
    <2>2. JobTypeOK' BY DEF JobTypeOK, JobType, Job, Actions, Phases
    <2>3. SlotInv'
      <3> SUFFICES ASSUME NEW t \in Slots PROVE (BitsInv(t) /\ JobInv(t) /\ PhaseInv(t))'
        BY DEF SlotInv
      <3>1. CASE t \notin S
        BY <3>1 DEF SlotInv, BitsInv, JobInv, PhaseInv, Bits
      <3>2. CASE t \in S
        <4>1. /\ job'[t] = Job("WRITEDISK", "wb", None)
              /\ cache_state'[t] = cache_state[t] \cup {"DISKWRITEINPROG"}
          BY <3>2
        <4> QED BY <1>1, <3>2, <4>1
                DEF SlotInv, BitsInv, JobInv, PhaseInv, Bits, Job, Busy, InprogBit, Actions,
                    BlockIoInprog
      <3> QED BY <3>1, <3>2
    <2>4. ListInv' BY <1>1 DEF ListInv, Bits
    <2>5. MdTypeOK' /\ PipelineInv' BY <1>1 DEF MdTypeOK, PipelineInv, Job
    <2> QED BY <2>1, <2>2, <2>3, <2>4, <2>5
  <1>3. QueueInv'
    <2>1. \A t \in Slots : job'[t].bio \in {job[t].bio, None} BY DEF Job
    <2> QED BY <1>2, <2>1, QueueStays DEF BlockInv
  <1> QED BY <1>2, <1>3, RequestsStay, DeviceStays

LEMMA DirtyWritebackInv ==
  ASSUME IInv, NEW s \in Slots, DirtyWriteback(s) PROVE IInv'
  <1> USE DEF IInv, DirtyWriteback
  <1>1. BlockInv'
    <2> USE DEF BlockInv
    <2>1. SlotTypeOK' /\ ListInv' /\ MdTypeOK' BY DEF SlotTypeOK, ListInv, Bits, MdTypeOK
    <2>2. JobTypeOK' BY DEF JobTypeOK, JobType, Phases
    <2>3. SlotInv'
      BY DEF SlotInv, BitsInv, JobInv, PhaseInv, Bits, JobTypeOK, JobType
    <2>4. PipelineInv' BY DEF PipelineInv, JobTypeOK, JobType
    <2> QED BY <2>1, <2>2, <2>3, <2>4
  <1>2. QueueInv'
    <2>1. \A t \in Slots : job'[t].bio = job[t].bio BY DEF BlockInv, JobTypeOK, JobType
    <2> QED BY <1>1, <2>1, QueueStays DEF BlockInv
  <1> QED BY <1>1, <1>2, RequestsStay, DeviceStays

LEMMA DirtyWritebackFailsInv ==
  ASSUME IInv, NEW s \in Slots, DirtyWritebackFails(s) PROVE IInv'
  <1> USE DEF IInv, DirtyWritebackFails
  <1>1. job[s].bio = None BY DEF BlockInv, SlotInv, PhaseInv
  <1>2. BlockInv'
    <2> USE DEF BlockInv
    <2>1. SlotTypeOK' BY DEF SlotTypeOK
    <2>2. JobTypeOK' BY DEF JobTypeOK, JobType, NoJob
    <2>3. SlotInv'
      BY DEF SlotInv, BitsInv, JobInv, PhaseInv, Bits, SlotTypeOK, JobTypeOK, NoJob,
             BlockIoInprog
    <2>4. ListInv'
      BY DEF ListInv, SlotInv, BitsInv, JobInv, Bits, SlotTypeOK, BlockIoInprog
    <2>5. MdTypeOK' /\ PipelineInv'
      BY DEF MdTypeOK, PipelineInv, NoJob, JobTypeOK
    <2> QED BY <2>1, <2>2, <2>3, <2>4, <2>5
  <1>3. pending[s] \in SUBSET Bios /\ \A c \in pending[s] : bio[c].st # "new"
    BY DEF BlockInv, SlotTypeOK, QueueInv, Queued
  <1>4. bio' = SetStatus(pending[s], "eio") /\ UNCHANGED ghostVars OBVIOUS
  <1>5. /\ RequestInv'
        /\ \A c \in pending[s] : bio'[c].st = "eio"
        /\ \A c \in Bios \ pending[s] : bio'[c] = bio[c]
    BY <1>3, <1>4, SetStatusFacts DEF BioStatus
  <1>6. QueueInv'
    BY <1>1, <1>5, QueueFlushed, FlashcacheAssumption DEF BlockInv, Queued
  <1> QED BY <1>2, <1>5, <1>6, DeviceStays

LEMMA KcopydDoneInv ==
  ASSUME IInv, NEW s \in Slots, KcopydDone(s) PROVE IInv'
  <1> USE DEF IInv, InIo
  <1>1. /\ job[s].phase = "io" /\ job[s].act = "WRITEDISK"
        /\ UNCHANGED <<dbn, hashed, invalid_list, pending, ssd, flash_md, bio,
                       bypass_cache, crashes, ghostVars>>
        /\ disk' \in {disk, [disk EXCEPT ![dbn[s]] = ssd[s]]}
    BY DEF KcopydDone
  <1>2. CacheMode = "WRITE_BACK" /\ "DIRTY" \in Bits(s) /\ job[s].bio = None
    BY <1>1 DEF BlockInv, SlotInv, BitsInv, PhaseInv
  <1>3. DevTypeOK' BY <1>1 DEF DeviceInv, DevTypeOK
  <1>4. CASE MdWrite(s)
    <2>1. BlockInv' /\ \A t \in Slots : job'[t].bio = job[t].bio
      BY <1>1, <1>2, <1>4, MdWriteFacts
    <2>2. QueueInv' BY <1>1, <2>1, QueueStays DEF BlockInv
    <2>3. DeviceInv' BY <1>1, <1>3, <1>4 DEF MdWrite, DeviceInv, DirtyRecordsInv
    <2> QED BY <1>1, <2>1, <2>2, <2>3, RequestsStay
  <1>5. CASE /\ job' = [job EXCEPT ![s].phase = "pend", ![s].err = TRUE]
             /\ UNCHANGED <<cache_state, mdVars>>
    <2>1. BlockInv'
      <3> USE DEF BlockInv
      <3>1. SlotTypeOK' /\ ListInv' /\ MdTypeOK'
        BY <1>1, <1>5 DEF SlotTypeOK, ListInv, Bits, MdTypeOK
      <3>2. JobTypeOK' BY <1>5 DEF JobTypeOK, JobType, Phases
      <3>3. SlotInv'
        BY <1>1, <1>5 DEF SlotInv, BitsInv, JobInv, PhaseInv, Bits, JobTypeOK, JobType
      <3>4. PipelineInv' BY <1>1, <1>5 DEF PipelineInv, JobTypeOK, JobType
      <3> QED BY <3>1, <3>2, <3>3, <3>4
    <2>2. \A t \in Slots : job'[t].bio = job[t].bio
      BY <1>5 DEF BlockInv, JobTypeOK, JobType
    <2>3. QueueInv' BY <1>1, <2>1, <2>2, QueueStays DEF BlockInv
    <2>4. DeviceInv' BY <1>1, <1>3, <1>5 DEF DeviceInv, DirtyRecordsInv
    <2> QED BY <1>1, <2>1, <2>3, <2>4, RequestsStay
  <1> QED BY <1>4, <1>5 DEF KcopydDone

LEMMA MdKickoffInv ==
  ASSUME IInv, MdKickoff PROVE IInv'
  <1> USE DEF IInv, MdKickoff
  <1>1. BlockInv'
    <2> USE DEF BlockInv
    <2>1. SlotTypeOK' /\ ListInv' /\ JobTypeOK' /\ SlotInv'
      BY DEF SlotTypeOK, ListInv, Bits, JobTypeOK, SlotInv, BitsInv, JobInv, PhaseInv
    <2>2. MdTypeOK'
      <3>1. \A s \in Slots : MdRecord(s, md_io \cup md_queue) \in MdType
        BY DEF MdRecord, MdType, MdStates, SlotTypeOK
      <3> QED BY <3>1 DEF MdTypeOK
    <2>3. PipelineInv' BY DEF PipelineInv, MdTypeOK
    <2> QED BY <2>1, <2>2, <2>3
  <1>2. DirtyRecordsInv(md_image')
    <2>1. ASSUME NEW s \in Slots, "DIRTY" \in md_image'[s].state
          PROVE  /\ md_image'[s] = DirtyRecord(s)
                 /\ "VALID" \in Bits(s) /\ CacheMode = "WRITE_BACK"
      <3>1. md_image'[s] = MdRecord(s, md_io \cup md_queue) OBVIOUS
      <3>2. CASE s \in md_io \cup md_queue
        BY <2>1, <3>1, <3>2 DEF MdRecord, DirtyRecord, DirtyBits, BlockInv, PipelineInv,
                                SlotInv, JobInv, PhaseInv
      <3>3. CASE s \notin md_io \cup md_queue
        <4>1. "DIRTY" \in Bits(s) BY <2>1, <3>1, <3>3 DEF MdRecord, Bits
        <4>2. /\ "VALID" \in Bits(s) /\ "INVALID" \notin Bits(s)
              /\ CacheMode = "WRITE_BACK"
          BY <4>1 DEF BlockInv, SlotInv, BitsInv
        <4>3. cache_state[s] \cap {"VALID", "INVALID", "DIRTY"} = DirtyBits
          BY <4>1, <4>2 DEF Bits, DirtyBits
        <4> QED BY <3>1, <3>3, <4>2, <4>3 DEF MdRecord, DirtyRecord
      <3> QED BY <3>2, <3>3
    <2>2. ASSUME NEW s \in Slots, "DIRTY" \in md_image'[s].state
          PROVE  /\ md_image'[s].state = DirtyBits /\ md_image'[s].dbn = dbn[s]
                 /\ dbn[s] \in Dbns /\ s \in hashed /\ CacheMode = "WRITE_BACK"
      <3>1. /\ md_image'[s] = DirtyRecord(s)
            /\ "VALID" \in Bits(s) /\ CacheMode = "WRITE_BACK"
        BY <2>1, <2>2
      <3>2. dbn[s] \in Dbns /\ s \in hashed
        BY <3>1 DEF BlockInv, SlotInv, BitsInv, ListInv
      <3> QED BY <3>1, <3>2 DEF DirtyRecord
    <2>3. \A s, t \in hashed : dbn[s] = dbn[t] => s = t BY DEF BlockInv, ListInv
    <2> HIDE DEF IInv, MdKickoff
    <2>4. ASSUME NEW s \in Slots, NEW t \in Slots, "DIRTY" \in md_image'[s].state,
                 "DIRTY" \in md_image'[t].state, md_image'[s].dbn = md_image'[t].dbn
          PROVE  s = t
      BY <2>2, <2>3, <2>4
    <2> QED BY <2>2, <2>4 DEF DirtyRecordsInv
  <1>3. DeviceInv' BY <1>2 DEF DeviceInv, DevTypeOK, DirtyRecordsInv
  <1>4. QueueInv' BY <1>1, QueueStays DEF BlockInv
  <1> QED BY <1>1, <1>3, <1>4, RequestsStay

LEMMA MdKickoffFailsInv ==
  ASSUME IInv, MdKickoffFails PROVE IInv'
  <1> USE DEF IInv, MdKickoffFails
  <1>1. BlockInv'
    BY DEF BlockInv, SlotTypeOK, ListInv, Bits, JobTypeOK, SlotInv, BitsInv, JobInv,
           PhaseInv, MdTypeOK, PipelineInv
  <1>2. QueueInv' BY <1>1, QueueStays DEF BlockInv
  <1> QED BY <1>1, <1>2, RequestsStay, DeviceStays

LEMMA MdWriteCallbackInv ==
  ASSUME IInv, MdWriteCallback PROVE IInv'
  <1> USE DEF IInv, MdWriteCallback
  <1>1. md_error' \in BOOLEAN BY DEF Outcome, MayFail
  <1>2. BlockInv'
    <2>1. SlotTypeOK' /\ ListInv' /\ JobTypeOK' /\ SlotInv' /\ PipelineInv'
      BY DEF BlockInv, SlotTypeOK, ListInv, Bits, JobTypeOK, SlotInv, BitsInv, JobInv,
             PhaseInv, PipelineInv
    <2>2. MdTypeOK'
      BY <1>1 DEF BlockInv, MdTypeOK, BlankMd, MdType, MdStates
    <2> QED BY <2>1, <2>2 DEF BlockInv
  <1>3. DeviceInv'
    <2>1. flash_md' \in {flash_md, md_image} OBVIOUS
    <2>2. DevTypeOK' BY <2>1 DEF DeviceInv, DevTypeOK, BlockInv, MdTypeOK
    <2>3. DirtyRecordsInv(flash_md)' BY <2>1 DEF DeviceInv, DirtyRecordsInv
    <2>4. DirtyRecordsInv(md_image)' BY DEF DirtyRecordsInv, BlankMd
    <2> QED BY <2>2, <2>3, <2>4 DEF DeviceInv
  <1>4. QueueInv' BY <1>2, QueueStays DEF BlockInv
  <1> QED BY <1>2, <1>3, <1>4, RequestsStay

LEMMA MdJobDoneInv ==
  ASSUME IInv, NEW s \in Slots, MdJobDone(s) PROVE IInv'
  <1> USE DEF IInv
  <1>1. /\ md_phase = "done" /\ s \in md_io /\ md_io' = md_io \ {s}
        /\ UNCHANGED <<dbn, hashed, invalid_list, pending, md_phase, md_queue, md_image,
                       md_error, devVars, bypass_cache, crashes>>
    BY DEF MdJobDone
  <1>2. /\ job[s].phase = "md" /\ CacheMode = "WRITE_BACK"
        /\ job[s].act \in {"WRITECACHE", "WRITEDISK"}
        /\ (job[s].bio = None) = (job[s].act = "WRITEDISK")
        /\ "VALID" \in Bits(s) /\ "INVALID" \notin Bits(s) /\ dbn[s] \in Dbns
        /\ Bits(s) \cap BlockIoInprog = {InprogBit(job[s].act)}
    BY <1>1 DEF BlockInv, PipelineInv, SlotInv, BitsInv, JobInv, PhaseInv
  <1>3. PICK bits \in {cache_state[s], cache_state[s] \cup {"DIRTY"}, cache_state[s] \ {"DIRTY"}} :
          \/ /\ job' = [job EXCEPT ![s].phase = "pend", ![s].err = md_error]
             /\ cache_state' = [cache_state EXCEPT ![s] = bits]
          \/ /\ job' = [job EXCEPT ![s] = NoJob]
             /\ cache_state' = [cache_state EXCEPT ![s] = bits \ BlockIoInprog]
             /\ pending[s] = {}
    BY DEF MdJobDone
  <1>4. BlockInv'
    <2> USE DEF BlockInv
    <2>1. SlotTypeOK' BY <1>1, <1>3 DEF SlotTypeOK, StateBits
    <2>2. JobTypeOK'
      <3>1. CASE job' = [job EXCEPT ![s].phase = "pend", ![s].err = md_error]
        <4>1. [job[s] EXCEPT !.phase = "pend", !.err = md_error] \in JobType
          BY DEF JobTypeOK, JobType, Phases, MdTypeOK
        <4>2. job' = [job EXCEPT ![s] = [job[s] EXCEPT !.phase = "pend", !.err = md_error]]
          BY <3>1 DEF JobTypeOK, JobType
        <4> QED BY <4>1, <4>2 DEF JobTypeOK
      <3>2. CASE job' = [job EXCEPT ![s] = NoJob]
        BY <3>2 DEF JobTypeOK, JobType, NoJob
      <3> QED BY <1>3, <3>1, <3>2
    <2>3. SlotInv'
      <3> SUFFICES ASSUME NEW t \in Slots PROVE (BitsInv(t) /\ JobInv(t) /\ PhaseInv(t))'
        BY DEF SlotInv
      <3>1. CASE t # s
        BY <1>1, <1>3, <3>1 DEF SlotInv, BitsInv, JobInv, PhaseInv, Bits, SlotTypeOK, JobTypeOK
      <3>2. CASE t = s
        <4>1. CASE /\ job' = [job EXCEPT ![s].phase = "pend", ![s].err = md_error]
                   /\ cache_state' = [cache_state EXCEPT ![s] = bits]
          <5>1. /\ job'[s].phase = "pend" /\ job'[s].act = job[s].act
                /\ cache_state'[s] = bits
            BY <4>1 DEF JobTypeOK, JobType, SlotTypeOK
          <5> QED BY <1>1, <1>2, <3>2, <5>1
                  DEF BitsInv, JobInv, PhaseInv, Bits, Actions, BlockIoInprog
        <4>2. CASE /\ job' = [job EXCEPT ![s] = NoJob]
                   /\ cache_state' = [cache_state EXCEPT ![s] = bits \ BlockIoInprog]
                   /\ pending[s] = {}
          <5>1. job'[s] = NoJob /\ cache_state'[s] = bits \ BlockIoInprog
            BY <4>2 DEF JobTypeOK, SlotTypeOK
          <5> QED BY <1>1, <1>2, <3>2, <4>2, <5>1
                  DEF BitsInv, JobInv, PhaseInv, Bits, NoJob, BlockIoInprog
        <4> QED BY <1>3, <4>1, <4>2
      <3> QED BY <3>1, <3>2
    <2>4. ListInv'
      BY <1>1, <1>2, <1>3 DEF ListInv, Bits, SlotTypeOK, BlockIoInprog
    <2>5. MdTypeOK' BY <1>1 DEF MdTypeOK
    <2>6. PipelineInv'
      BY <1>1, <1>3 DEF PipelineInv, JobTypeOK, JobType, NoJob
    <2> QED BY <2>1, <2>2, <2>3, <2>4, <2>5, <2>6
  <1>5. /\ RequestInv'
        /\ \A c \in Bios : /\ bio'[c].st \in Queued <=> bio[c].st \in Queued
                           /\ bio[c].st \in InJob => bio'[c].st \in InJob
    <2>1. CASE job[s].act = "WRITECACHE"
      <3>1. EndIo(job[s].bio, md_error, job[s].bio) BY <2>1 DEF MdJobDone
      <3>2. /\ job[s].bio \in Bios /\ bio[job[s].bio].st \in InJob /\ md_error \in BOOLEAN
        BY <1>2, <2>1 DEF BlockInv, JobTypeOK, JobType, QueueInv, InJob, MdTypeOK
      <3>3. /\ RequestInv' /\ bio'[job[s].bio].st \in {"ok", "eio"}
            /\ \A c \in Bios : c # job[s].bio => bio'[c] = bio[c]
        BY <3>1, <3>2, EndIoFacts DEF InJob, Values
      <3> QED BY <3>2, <3>3 DEF Queued, InJob
    <2>2. CASE job[s].act # "WRITECACHE"
      <3>1. UNCHANGED <<bio, ghostVars>> BY <2>2 DEF MdJobDone
      <3> QED BY <3>1, RequestsStay
    <2> QED BY <2>1, <2>2
  <1>6. QueueInv'
    <2>1. \A t \in Slots : job'[t].bio \in {job[t].bio, None}
      BY <1>3 DEF BlockInv, JobTypeOK, JobType, NoJob
    <2> QED BY <1>1, <1>4, <1>5, <2>1, QueueStays DEF BlockInv
  <1> QED BY <1>1, <1>4, <1>5, <1>6, DeviceStays

LEMMA MdWriteDoneInv ==
  ASSUME IInv, MdWriteDone PROVE IInv'
  <1> USE DEF IInv, MdWriteDone
  <1>1. BlockInv'
    <2>1. SlotTypeOK' /\ ListInv' /\ JobTypeOK' /\ SlotInv'
      BY DEF BlockInv, SlotTypeOK, ListInv, Bits, JobTypeOK, SlotInv, BitsInv, JobInv,
             PhaseInv
    <2>2. MdTypeOK' BY DEF BlockInv, MdTypeOK
    <2>3. PipelineInv' BY DEF BlockInv, PipelineInv, MdTypeOK
    <2> QED BY <2>1, <2>2, <2>3 DEF BlockInv
  <1>2. QueueInv' BY <1>1, QueueStays DEF BlockInv
  <1> QED BY <1>1, <1>2, RequestsStay, DeviceStays

LEMMA DoPendingErrorInv ==
  ASSUME IInv, NEW s \in Slots, DoPendingError(s) PROVE IInv'
  <1> USE DEF IInv, DoPendingError
  <1>1. BlockInv' BY GiveUpFacts
  <1>2. pending[s] \in SUBSET Bios /\ \A c \in pending[s] : bio[c].st # "new"
    BY DEF BlockInv, SlotTypeOK, QueueInv, Queued
  <1>3. bio' = SetStatus(pending[s], "eio") /\ UNCHANGED ghostVars OBVIOUS
  <1>4. /\ RequestInv'
        /\ \A c \in pending[s] : bio'[c].st = "eio"
        /\ \A c \in Bios \ pending[s] : bio'[c] = bio[c]
    BY <1>2, <1>3, SetStatusFacts DEF BioStatus
  <1>5. QueueInv'
    BY <1>4, QueueFlushed, FlashcacheAssumption DEF GiveUpUnlessDirty, BlockInv, Queued
  <1> QED BY <1>1, <1>4, <1>5, DeviceStays

LEMMA DoPendingErrorRetryInv ==
  ASSUME IInv, NEW s \in Slots, DoPendingErrorRetry(s) PROVE IInv'
  <1> USE DEF IInv
  <1> DEFINE B == pending[s] \cup {job[s].bio}
  <1>1. /\ job[s].phase = "pend" /\ job[s].bio # None /\ GiveUpUnlessDirty(s)
        /\ UNCHANGED <<dbn, mdVars, devVars, bypass_cache, crashes, ghostVars>>
    BY DEF DoPendingErrorRetry
  <1>2. BlockInv' BY <1>1, GiveUpFacts
  <1>3. B \in SUBSET Bios /\ \A c \in B : bio[c].st # "new"
    BY <1>1 DEF BlockInv, SlotTypeOK, JobTypeOK, JobType, QueueInv, Queued
  <1>4. PICK F \in SUBSET B :
          bio' = [b \in Bios |->
                   IF b \in F THEN [bio[b] EXCEPT !.st = "eio"]
                   ELSE IF b \in B THEN [bio[b] EXCEPT !.st = "disk"] ELSE bio[b]]
    BY DEF DoPendingErrorRetry
  <1> HIDE DEF B
  <1>5. BioTypeOK' BY <1>4 DEF RequestInv, BioTypeOK, BioType, BioStatus
  <1>6. /\ \A c \in B : bio'[c].st \in {"eio", "disk"} /\ bio'[c].dbn = bio[c].dbn
        /\ \A c \in Bios \ B : bio'[c] = bio[c]
    BY <1>3, <1>4 DEF RequestInv, BioTypeOK, BioType
  <1>7. BioInv' BY <1>3, <1>6 DEF RequestInv, BioInv
  <1>8. RequestInv' BY <1>1, <1>5, <1>7 DEF RequestInv, GhostTypeOK
  <1>9. QueueInv'
    BY <1>1, <1>6, QueueFlushed DEF B, GiveUpUnlessDirty, BlockInv, Queued
  <1> QED BY <1>1, <1>2, <1>8, <1>9, DeviceStays

LEMMA DoPendingDirtyInv ==
  ASSUME IInv, NEW s \in Slots, DoPendingDirty(s) PROVE IInv'
  <1> USE DEF IInv, DoPendingDirty
  <1>1. BlockInv'
    <2> USE DEF BlockInv
    <2>1. SlotTypeOK' BY DEF SlotTypeOK, StateBits, BlockIoInprog
    <2>2. JobTypeOK' BY DEF JobTypeOK, JobType, Job, Actions, Phases
    <2>3. SlotInv'
      <3> SUFFICES ASSUME NEW t \in Slots PROVE (BitsInv(t) /\ JobInv(t) /\ PhaseInv(t))'
        BY DEF SlotInv
      <3>1. CASE t # s
        BY <3>1 DEF SlotInv, BitsInv, JobInv, PhaseInv, Bits, SlotTypeOK, JobTypeOK
      <3>2. CASE t = s
        <4>1. /\ job'[s] = Job("WRITEDISK", "wb", None)
              /\ cache_state'[s] = (cache_state[s] \ BlockIoInprog) \cup {"DISKWRITEINPROG"}
          BY DEF JobTypeOK, SlotTypeOK
        <4> QED BY <3>2, <4>1
                DEF SlotInv, BitsInv, JobInv, PhaseInv, Bits, Job, InprogBit, Actions,
                    BlockIoInprog
      <3> QED BY <3>1, <3>2
    <2>4. ListInv'
      BY DEF ListInv, SlotInv, BitsInv, Bits, SlotTypeOK, BlockIoInprog
    <2>5. MdTypeOK' /\ PipelineInv' BY DEF MdTypeOK, PipelineInv, Job, JobTypeOK
    <2> QED BY <2>1, <2>2, <2>3, <2>4, <2>5
  <1>2. QueueInv'
    <2>1. \A t \in Slots : job'[t].bio \in {job[t].bio, None}
      BY DEF BlockInv, JobTypeOK, Job
    <2> QED BY <1>1, <2>1, QueueStays DEF BlockInv
  <1> QED BY <1>1, <1>2, RequestsStay, DeviceStays

LEMMA DoPendingCleanInv ==
  ASSUME IInv, NEW s \in Slots, DoPendingClean(s) PROVE IInv'
  <1> USE DEF IInv, DoPendingClean
  <1>1. BlockInv'
    <2> USE DEF BlockInv
    <2>1. SlotTypeOK' BY DEF SlotTypeOK, StateBits
    <2>2. JobTypeOK' BY DEF JobTypeOK, JobType, Phases
    <2>3. SlotInv'
      <3> SUFFICES ASSUME NEW t \in Slots PROVE (BitsInv(t) /\ JobInv(t) /\ PhaseInv(t))'
        BY DEF SlotInv
      <3>1. CASE t # s
        BY <3>1 DEF SlotInv, BitsInv, JobInv, PhaseInv, Bits, SlotTypeOK, JobTypeOK
      <3>2. CASE t = s
        <4>1. /\ job'[s].phase = "limbo" /\ job'[s].act = job[s].act
              /\ cache_state'[s] = (cache_state[s] \ {"VALID"}) \cup {"INVALID"}
          BY DEF JobTypeOK, JobType, SlotTypeOK
        <4>2. /\ "VALID" \in cache_state[s] /\ "DIRTY" \notin cache_state[s]
              /\ job[s].act \in Actions
              /\ cache_state[s] \cap BlockIoInprog = {InprogBit(job[s].act)}
          BY DEF SlotInv, JobInv, Bits
        <4>3. cache_state'[s] \cap BlockIoInprog = {InprogBit(job'[s].act)}
          BY <4>1, <4>2 DEF BlockIoInprog
        <4>4. "VALID" \notin cache_state'[s] /\ "INVALID" \in cache_state'[s]
              /\ "DIRTY" \notin cache_state'[s]
          BY <4>1, <4>2
        <4>5. BitsInv(s)' BY <4>4 DEF BitsInv, Bits
        <4>6. JobInv(s)'
          <5>1. job'[s].act \in Actions /\ job'[s].phase # "none" BY <4>1, <4>2
          <5> HIDE DEF DoPendingClean, IInv, BlockInv
          <5> QED BY ONLY <4>1, <4>3, <4>4, <5>1 DEF JobInv, Bits
        <4>7. PhaseInv(s)' BY <4>1, <4>4 DEF PhaseInv, Bits
        <4> QED BY <3>2, <4>5, <4>6, <4>7
      <3> QED BY <3>1, <3>2
    <2>4. ListInv'
      <3>1. Bits(s) \cap BlockIoInprog = {InprogBit(job[s].act)} /\ job[s].act \in Actions
        BY DEF SlotInv, JobInv
      <3> QED BY <3>1 DEF ListInv, Bits, SlotTypeOK, BlockIoInprog
    <2>5. MdTypeOK' /\ PipelineInv' BY DEF MdTypeOK, PipelineInv, JobType, JobTypeOK
    <2> QED BY <2>1, <2>2, <2>3, <2>4, <2>5
  <1>2. QueueInv'
    <2>1. \A t \in Slots : job'[t].bio \in {job[t].bio, None}
      BY DEF BlockInv, JobTypeOK, JobType
    <2> QED BY <1>1, <2>1, QueueStays DEF BlockInv
  <1> QED BY <1>1, <1>2, RequestsStay, DeviceStays

(* A bio leaves the queue of a block in limbo.                             *)
LEMMA QueueShrinks ==
  ASSUME QueueInv, SlotTypeOK, JobTypeOK, NEW s \in Slots, NEW b \in pending[s],
         pending' = [pending EXCEPT ![s] = @ \ {b}], job' = job,
         bio'[b].st \notin Queued, \A c \in Bios \ {b} : bio'[c] = bio[c]
  PROVE  QueueInv'
  <1>1. \A t \in Slots : pending'[t] = pending[t] \ {b}
    BY DEF SlotTypeOK, QueueInv
  <1>2. b \in Bios /\ \A t \in Slots : job[t].bio # b
    BY FlashcacheAssumption DEF QueueInv, SlotTypeOK, Queued
  <1>3. /\ \A t \in Slots : \A c \in pending'[t] : bio'[c].st \in Queued
        /\ \A t, u \in Slots : \A c \in pending'[t] : c \in pending'[u] => t = u
    BY <1>1 DEF QueueInv, SlotTypeOK
  <1>4. ASSUME NEW c \in Bios, bio'[c].st \in Queued PROVE \E t \in Slots : c \in pending'[t]
    <2>1. c # b /\ bio[c].st \in Queued BY <1>4
    <2>2. PICK t \in Slots : c \in pending[t] BY <2>1 DEF QueueInv
    <2> QED BY <1>1, <2>1, <2>2
  <1>5. /\ \A t \in Slots : job'[t].bio # None => bio'[job'[t].bio].st \in {"job", "ok", "eio"}
        /\ \A t, u \in Slots : job'[t].bio # None /\ job'[t].bio = job'[u].bio => t = u
    BY <1>2 DEF QueueInv, JobTypeOK, JobType
  <1> QED BY <1>3, <1>4, <1>5 DEF QueueInv

LEMMA DrainPendingInv ==
  ASSUME IInv, NEW s \in Slots, NEW b \in Bios, DrainPending(s, b) PROVE IInv'
  <1> USE DEF IInv
  <1>1. /\ job[s].phase = "limbo" /\ b \in pending[s]
        /\ pending' = [pending EXCEPT ![s] = @ \ {b}]
        /\ bio[b].st = "queued_inval" => Conflicts(bio[b].dbn) = {}
        /\ UNCHANGED <<dbn, job, mdVars, devVars, bypass_cache, crashes, ghostVars>>
    BY DEF DrainPending
  <1>2. bio[b].st # "new" /\ bio[b].dbn \in Dbns
    BY <1>1 DEF QueueInv, Queued, RequestInv, BioInv
  <1>3. PICK st \in {"disk", "eio"} : bio' = SetStatus({b}, st)
    BY DEF DrainPending, StartUncached
  <1>4. /\ RequestInv' /\ bio'[b].st = st
        /\ \A c \in Bios \ {b} : bio'[c] = bio[c]
    <2>1. st \in BioStatus BY DEF BioStatus
    <2> QED BY <1>1, <1>2, <1>3, <2>1, SetStatusOne
  <1>5. /\ pending' \in [Slots -> SUBSET Bios]
        /\ \A t \in Slots : pending'[t] \subseteq pending[t]
    BY <1>1 DEF BlockInv, SlotTypeOK
  <1>6. BlockInv'
    <2>1. CASE bio[b].st = "queued_inval"
      <3>1. InvalidateClean(bio[b].dbn) BY <2>1 DEF DrainPending
      <3> QED BY <1>1, <1>2, <1>5, <2>1, <3>1, InvalidateCleanFacts
    <2>2. CASE bio[b].st # "queued_inval"
      <3> USE DEF BlockInv
      <3>1. UNCHANGED <<cache_state, hashed, invalid_list>> BY <2>2 DEF DrainPending
      <3>2. SlotTypeOK' BY <1>1, <1>5, <3>1 DEF SlotTypeOK
      <3>3. SlotInv' BY <1>1, <1>5, <3>1 DEF SlotInv, BitsInv, JobInv, PhaseInv, Bits
      <3>4. ListInv' /\ JobTypeOK' /\ MdTypeOK' /\ PipelineInv'
        BY <1>1, <3>1 DEF ListInv, Bits, JobTypeOK, MdTypeOK, PipelineInv
      <3> QED BY <3>2, <3>3, <3>4
    <2> QED BY <2>1, <2>2
  <1>7. QueueInv' BY <1>1, <1>4, QueueShrinks DEF BlockInv, Queued
  <1> QED BY <1>1, <1>4, <1>6, <1>7, DeviceStays

LEMMA DrainPendingConflictInv ==
  ASSUME IInv, NEW s \in Slots, NEW b \in Bios, DrainPendingConflict(s, b) PROVE IInv'
  <1> USE DEF IInv
  <1>1. /\ job[s].phase = "limbo" /\ b \in pending[s] /\ bio[b].st = "queued_inval"
        /\ UNCHANGED <<dbn, hashed, invalid_list, mdVars, devVars, bio, bypass_cache,
                       crashes, ghostVars>>
    BY DEF DrainPendingConflict
  <1>2. PICK t \in Conflicts(bio[b].dbn) :
          /\ pending' = [pending EXCEPT ![s] = @ \ {b}, ![t] = @ \cup {b}]
          /\ CleanForInvalidate(t)
    BY DEF DrainPendingConflict
  <1>3. bio[b].dbn \in Dbns BY <1>1 DEF RequestInv, BioInv
  <1>4. t \in Slots /\ t # s
    BY <1>1, <1>2 DEF Conflicts, Cached, BlockInv, SlotTypeOK, ListInv, SlotInv, JobInv
  <1>5. /\ pending' \in [Slots -> SUBSET Bios]
        /\ \A u \in Slots \ {t} : pending'[u] \subseteq pending[u]
    BY <1>1, <1>2, <1>4 DEF BlockInv, SlotTypeOK
  <1>6. BlockInv' /\ \A u \in Slots : job'[u].bio \in {job[u].bio, None}
    BY <1>1, <1>2, <1>3, <1>5, CleanForInvalidateFacts
  <1>7. QueueInv'
    <2>1. ASSUME NEW u \in Slots
          PROVE  pending'[u] = IF u = t THEN pending[u] \cup {b} ELSE pending[u] \ {b}
      <3>1. u # s => b \notin pending[u] BY <1>1 DEF QueueInv
      <3>2. CASE u = t BY <1>2, <1>4, <3>2 DEF BlockInv, SlotTypeOK
      <3>3. CASE u = s BY <1>2, <1>4, <3>3 DEF BlockInv, SlotTypeOK
      <3>4. CASE u # s /\ u # t BY <1>2, <3>1, <3>4 DEF BlockInv, SlotTypeOK
      <3> QED BY <3>2, <3>3, <3>4
    <2> HIDE DEF IInv
    <2>0. QueueInv /\ bio' = bio BY <1>1 DEF IInv
    <2>2. ASSUME NEW u \in Slots, NEW c \in pending'[u] PROVE bio'[c].st \in Queued
      <3>1. c = b \/ c \in pending[u] BY <2>1
      <3>2. bio[b].st \in Queued BY <1>1 DEF Queued
      <3> QED BY <2>0, <3>1, <3>2 DEF QueueInv
    <2>3. ASSUME NEW c \in Bios, bio'[c].st \in Queued PROVE \E u \in Slots : c \in pending'[u]
      <3>1. PICK u \in Slots : c \in pending[u] BY <2>0, <2>3 DEF QueueInv
      <3> QED BY <1>4, <2>1, <3>1
    <2>4. ASSUME NEW u \in Slots, NEW v \in Slots, NEW c \in pending'[u], c \in pending'[v]
          PROVE  u = v
      <3>1. CASE c = b BY <2>1, <2>4, <3>1
      <3>2. CASE c # b
        <4>1. c \in pending[u] /\ c \in pending[v] BY <2>1, <2>4, <3>2
        <4> QED BY <2>0, <4>1 DEF QueueInv
      <3> QED BY <3>1, <3>2
    <2>5. /\ \A u \in Slots : job'[u].bio # None => bio'[job'[u].bio].st \in {"job", "ok", "eio"}
          /\ \A u, v \in Slots : job'[u].bio # None /\ job'[u].bio = job'[v].bio => u = v
      BY <2>0, <1>6 DEF QueueInv
    <2> QED BY <2>2, <2>3, <2>4, <2>5 DEF QueueInv
  <1> QED BY <1>1, <1>6, <1>7, RequestsStay, DeviceStays

LEMMA DrainPendingFailsInv ==
  ASSUME IInv, NEW s \in Slots, NEW b \in Bios, DrainPendingFails(s, b) PROVE IInv'
  <1> USE DEF IInv, DrainPendingFails
  <1>1. bio' = SetStatus({b}, "eio") /\ bio[b].st = "queued_inval" OBVIOUS
  <1>2. /\ RequestInv' /\ bio'[b].st = "eio"
        /\ \A c \in Bios \ {b} : bio'[c] = bio[c]
    <2>1. "eio" \in BioStatus BY DEF BioStatus
    <2> QED BY <1>1, <2>1, SetStatusOne
  <1>3. BlockInv'
    <2> USE DEF BlockInv
    <2>1. SlotTypeOK' BY DEF SlotTypeOK
    <2>2. SlotInv' BY DEF SlotInv, BitsInv, JobInv, PhaseInv, Bits, SlotTypeOK
    <2>3. ListInv' /\ JobTypeOK' /\ MdTypeOK' /\ PipelineInv'
      BY DEF ListInv, Bits, JobTypeOK, MdTypeOK, PipelineInv
    <2> QED BY <2>1, <2>2, <2>3
  <1>4. QueueInv' BY <1>2, QueueShrinks DEF BlockInv, Queued
  <1> QED BY <1>2, <1>3, <1>4, DeviceStays

LEMMA DrainDoneInv ==
  ASSUME IInv, NEW s \in Slots, DrainDone(s) PROVE IInv'
  <1> USE DEF IInv, DrainDone
  <1>1. BlockInv'
    <2> USE DEF BlockInv
    <2>1. /\ "INVALID" \in Bits(s) /\ "VALID" \notin Bits(s) /\ "DIRTY" \notin Bits(s)
          /\ Bits(s) \in SUBSET StateBits
      BY DEF SlotInv, BitsInv, JobInv, PhaseInv, SlotTypeOK, Bits
    <2>2. Bits(s) \ BlockIoInprog = {"INVALID"} BY <2>1 DEF StateBits, BlockIoInprog
    <2>3. SlotTypeOK' BY DEF SlotTypeOK
    <2>4. JobTypeOK' BY DEF JobTypeOK, JobType, NoJob
    <2>5. SlotInv'
      BY <2>1 DEF SlotInv, BitsInv, JobInv, PhaseInv, Bits, SlotTypeOK, JobTypeOK, NoJob,
                  BlockIoInprog
    <2>6. ListInv' BY <2>1, <2>2 DEF ListInv, Bits, SlotTypeOK
    <2>7. MdTypeOK' /\ PipelineInv' BY DEF MdTypeOK, PipelineInv, NoJob, JobTypeOK
    <2> QED BY <2>3, <2>4, <2>5, <2>6, <2>7
  <1>2. QueueInv'
    <2>1. \A t \in Slots : job'[t].bio \in {job[t].bio, None}
      BY DEF BlockInv, JobTypeOK, NoJob
    <2> QED BY <1>1, <2>1, QueueStays DEF BlockInv
  <1> QED BY <1>1, <1>2, RequestsStay, DeviceStays

(* The steps that leave the blocks alone.                                  *)
LEMMA BlocksStay ==
  ASSUME BlockInv, UNCHANGED <<slotVars, mdVars>> PROVE BlockInv'
  BY DEF BlockInv, SlotTypeOK, JobTypeOK, MdTypeOK, SlotInv, BitsInv, JobInv, PhaseInv,
         Bits, ListInv, PipelineInv

LEMMA UncachedIoDoneInv ==
  ASSUME IInv, NEW b \in Bios, UncachedIoDone(b) PROVE IInv'
  <1> USE DEF IInv
  <1>1. /\ bio[b].st = "disk"
        /\ disk' \in {disk, [disk EXCEPT ![bio[b].dbn] = b]}
        /\ UNCHANGED <<slotVars, mdVars, ssd, flash_md, bypass_cache, crashes, ghostVars>>
    BY DEF UncachedIoDone
  <1>2. PICK error \in BOOLEAN :
          bio' = [bio EXCEPT ![b].st = "disk_done", ![b].err = error,
                             ![b].val = IF IsWrite(b) THEN b ELSE disk[bio[b].dbn]]
    BY DEF UncachedIoDone, Outcome, MayFail
  <1>3. bio[b].dbn \in Dbns BY <1>1 DEF RequestInv, BioInv
  <1>4. b \in Values /\ disk[bio[b].dbn] \in Values \cup {None}
    BY <1>3 DEF DeviceInv, DevTypeOK, Values
  <1>5. DeviceInv' BY <1>1, <1>4 DEF DeviceInv, DevTypeOK, DirtyRecordsInv
  <1>6. /\ bio'[b].st = "disk_done" /\ bio'[b].dbn = bio[b].dbn
        /\ \A c \in Bios : c # b => bio'[c] = bio[c]
    BY <1>2 DEF RequestInv, BioTypeOK, BioType
  <1>7. BioTypeOK'
    <2>1. PICK v \in Values \cup {None} :
            bio' = [bio EXCEPT ![b].st = "disk_done", ![b].err = error, ![b].val = v]
      BY <1>2, <1>4
    <2>2. [bio[b] EXCEPT !.st = "disk_done", !.err = error, !.val = v] \in BioType
      BY DEF RequestInv, BioTypeOK, BioType, BioStatus
    <2> QED BY <2>1, <2>2 DEF RequestInv, BioTypeOK
  <1>8. RequestInv' BY <1>1, <1>3, <1>6, <1>7 DEF RequestInv, BioInv, GhostTypeOK
  <1>9. QueueInv'
    <2>1. \A c \in Bios : /\ bio'[c].st \in Queued <=> bio[c].st \in Queued
                          /\ bio[c].st \in InJob => bio'[c].st \in InJob
      BY <1>1, <1>6 DEF Queued, InJob
    <2> QED BY <1>1, <2>1, QueueStays, BlocksStay DEF BlockInv
  <1> QED BY <1>1, <1>5, <1>8, <1>9, BlocksStay

LEMMA UncachedIoCompleteInv ==
  ASSUME IInv, NEW b \in Bios, UncachedIoComplete(b) PROVE IInv'
  <1> USE DEF IInv, UncachedIoComplete
  <1>1. /\ bio[b].dbn \in Dbns /\ bio[b].err \in BOOLEAN
        /\ bio[b].val \in Values \cup {None}
    BY DEF RequestInv, BioInv, BioTypeOK, BioType
  <1>2. /\ RequestInv' /\ bio'[b].st \in {"ok", "eio"}
        /\ \A c \in Bios : c # b => bio'[c] = bio[c]
    BY <1>1, EndIoFacts
  <1>3. BlockInv' BY <1>1, InvalidateCleanFacts DEF BlockInv, SlotTypeOK
  <1>4. QueueInv'
    <2>1. \A c \in Bios : /\ bio'[c].st \in Queued <=> bio[c].st \in Queued
                          /\ bio[c].st \in InJob => bio'[c].st \in InJob
      BY <1>2 DEF Queued, InJob
    <2> QED BY <1>3, <2>1, QueueStays DEF BlockInv
  <1> QED BY <1>2, <1>3, <1>4, DeviceStays

LEMMA UncachedIoRequeueInv ==
  ASSUME IInv, NEW b \in Bios, UncachedIoRequeue(b) PROVE IInv'
  <1> USE DEF IInv
  <1>1. /\ bio[b].st = "disk_done"
        /\ bio' = [bio EXCEPT ![b].st = "queued_inval", ![b].err = FALSE]
        /\ UNCHANGED <<dbn, hashed, invalid_list, mdVars, devVars, bypass_cache,
                       crashes, ghostVars>>
    BY DEF UncachedIoRequeue
  <1>2. PICK s \in Conflicts(bio[b].dbn) :
          pending' = [pending EXCEPT ![s] = @ \cup {b}] /\ CleanForInvalidate(s)
    BY DEF UncachedIoRequeue
  <1>3. bio[b].dbn \in Dbns BY <1>1 DEF RequestInv, BioInv
  <1>4. /\ bio'[b].st = "queued_inval" /\ bio'[b].dbn = bio[b].dbn
        /\ \A c \in Bios : c # b => bio'[c] = bio[c]
    BY <1>1 DEF RequestInv, BioTypeOK, BioType
  <1>5. BioTypeOK'
    <2>1. [bio[b] EXCEPT !.st = "queued_inval", !.err = FALSE] \in BioType
      BY DEF RequestInv, BioTypeOK, BioType, BioStatus
    <2>2. bio' = [bio EXCEPT ![b] = [bio[b] EXCEPT !.st = "queued_inval", !.err = FALSE]]
      BY <1>1 DEF RequestInv, BioTypeOK, BioType
    <2> QED BY <2>1, <2>2 DEF RequestInv, BioTypeOK
  <1>6. RequestInv' BY <1>1, <1>3, <1>4, <1>5 DEF RequestInv, BioInv, GhostTypeOK
  <1>7. /\ pending' \in [Slots -> SUBSET Bios]
        /\ \A t \in Slots \ {s} : pending'[t] \subseteq pending[t]
    BY <1>2 DEF BlockInv, SlotTypeOK
  <1>8. /\ BlockInv' /\ s \in Slots
        /\ \A t \in Slots : job'[t].bio \in {job[t].bio, None}
    BY <1>1, <1>2, <1>3, <1>7, CleanForInvalidateFacts
  <1>9. QueueInv'
    BY <1>1, <1>2, <1>4, <1>8, QueueGrows DEF BlockInv, Queued, InJob
  <1> QED BY <1>1, <1>6, <1>8, <1>9, DeviceStays

LEMMA UncachedIoCompleteFailsInv ==
  ASSUME IInv, NEW b \in Bios, UncachedIoCompleteFails(b) PROVE IInv'
  <1> USE DEF IInv, UncachedIoCompleteFails
  <1>1. bio' = SetStatus({b}, "eio") /\ bio[b].st = "disk_done" OBVIOUS
  <1>2. /\ RequestInv' /\ bio'[b].st = "eio"
        /\ \A c \in Bios \ {b} : bio'[c] = bio[c]
    <2>1. "eio" \in BioStatus BY DEF BioStatus
    <2> QED BY <1>1, <2>1, SetStatusOne
  <1>3. QueueInv'
    <2>1. \A c \in Bios : /\ bio'[c].st \in Queued <=> bio[c].st \in Queued
                          /\ bio[c].st \in InJob => bio'[c].st \in InJob
      BY <1>1, <1>2 DEF Queued, InJob
    <2> QED BY <2>1, QueueStays, BlocksStay DEF BlockInv
  <1> QED BY <1>2, <1>3, BlocksStay, DeviceStays

LEMMA CrashInv ==
  ASSUME IInv, Crash PROVE IInv'
  <1> USE DEF IInv
  <1> DEFINE reload == IF CacheMode = "WRITE_BACK"
                       THEN {s \in Slots : "DIRTY" \in flash_md[s].state} ELSE {}
  <1>1. /\ cache_state' = [s \in Slots |-> IF s \in reload THEN flash_md[s].state ELSE {"INVALID"}]
        /\ dbn' = [s \in Slots |-> IF s \in reload THEN flash_md[s].dbn ELSE None]
        /\ hashed' = reload
        /\ invalid_list' = Slots \ reload
        /\ pending' = [s \in Slots |-> {}]
        /\ job' = [s \in Slots |-> NoJob]
        /\ md_phase' = "idle" /\ md_io' = {} /\ md_queue' = {} /\ md_error' = FALSE
        /\ bio' = SetStatus({b \in Bios : Active(b)}, "lost")
        /\ md_image' = BlankMd
        /\ bypass_cache' = FALSE /\ crashes' = crashes + 1
        /\ UNCHANGED <<flash_md, seen>>
        /\ live' = [d \in Dbns |-> live[d] \cap Recovered(d)']
    BY DEF Crash
  <1>2. ssd' \in [Slots -> Values \cup {None}]
    <2>1. PICK L \in SUBSET Slots :
            ssd' = [s \in Slots |-> IF s \in L THEN job[s].bio ELSE ssd[s]]
      BY DEF Crash
    <2> QED BY <2>1 DEF BlockInv, JobTypeOK, JobType, DeviceInv, DevTypeOK, Values
  <1>11. disk' \in [Dbns -> Values \cup {None}]
    <2>1. PICK L \in SUBSET {s \in Slots : InIo(s, "WRITECACHE") /\ CacheMode = "WRITE_THROUGH"} :
            disk' = [d \in Dbns |-> IF \E s \in L : dbn[s] = d
                                    THEN job[CHOOSE s \in L : dbn[s] = d].bio ELSE disk[d]]
      BY DEF Crash
    <2>2. \A s \in L : job[s].bio \in Values \cup {None}
      BY DEF BlockInv, JobTypeOK, JobType, Values
    <2>3. ASSUME NEW d \in Dbns PROVE disk'[d] \in Values \cup {None}
      <3>1. CASE \E s \in L : dbn[s] = d
        <4>1. (CHOOSE s \in L : dbn[s] = d) \in L BY <3>1
        <4> QED BY <2>1, <2>2, <3>1, <4>1
      <3>2. CASE ~(\E s \in L : dbn[s] = d)
        BY <2>1, <3>2 DEF DeviceInv, DevTypeOK
      <3> QED BY <3>1, <3>2
    <2> QED BY <2>1, <2>3
  <1>3. \A s \in reload : /\ s \in Slots /\ flash_md[s].state = DirtyBits
                          /\ flash_md[s].dbn \in Dbns /\ CacheMode = "WRITE_BACK"
    BY DEF DeviceInv, DirtyRecordsInv
  <1>4. \A s, t \in reload : flash_md[s].dbn = flash_md[t].dbn => s = t
    BY DEF DeviceInv, DirtyRecordsInv
  <1>5. reload \subseteq Slots OBVIOUS
  <1> HIDE DEF reload
  <1>6. BlockInv'
    <2>1. SlotTypeOK' BY <1>1, <1>3, <1>5 DEF SlotTypeOK, DirtyBits, StateBits
    <2>2. JobTypeOK' BY <1>1 DEF JobTypeOK, JobType, NoJob
    <2>3. SlotInv'
      BY <1>1, <1>3 DEF SlotInv, BitsInv, JobInv, PhaseInv, Bits, NoJob, DirtyBits, BlockIoInprog
    <2>4. ListInv'
      <3>1. ASSUME NEW s \in Slots
            PROVE  /\ (s \in hashed') = ("VALID" \in cache_state'[s])
                   /\ (s \in invalid_list') = (cache_state'[s] = {"INVALID"})
        <4>1. CASE s \in reload
          <5>1. cache_state'[s] = {"VALID", "DIRTY"} BY <1>1, <1>3, <4>1 DEF DirtyBits
          <5>2. s \in hashed' /\ s \notin invalid_list' BY <1>1, <4>1
          <5> QED BY <5>1, <5>2
        <4>2. CASE s \notin reload
          <5>1. cache_state'[s] = {"INVALID"} BY <1>1, <4>2
          <5>2. s \notin hashed' /\ s \in invalid_list' BY <1>1, <4>2
          <5> QED BY <5>1, <5>2
        <4> QED BY <4>1, <4>2
      <3>2. \A s \in reload : dbn'[s] = flash_md[s].dbn BY <1>1, <1>5
      <3>3. \A s, t \in hashed' : dbn'[s] = dbn'[t] => s = t BY <1>1, <1>4, <3>2
      <3> QED BY <3>1, <3>3 DEF ListInv, Bits
    <2>5. MdTypeOK' BY <1>1 DEF MdTypeOK, BlankMd, MdType, MdStates
    <2>6. PipelineInv' BY <1>1 DEF PipelineInv, NoJob
    <2> QED BY <2>1, <2>2, <2>3, <2>4, <2>5, <2>6 DEF BlockInv
  <1>7. RequestInv'
    <2>1. BioTypeOK' BY <1>1 DEF RequestInv, BioTypeOK, BioType, BioStatus, SetStatus
    <2>2. \A c \in Bios : /\ bio'[c].dbn = bio[c].dbn
                          /\ bio'[c].st = IF Active(c) THEN "lost" ELSE bio[c].st
      BY <1>1 DEF RequestInv, BioTypeOK, BioType, SetStatus
    <2>3. BioInv' BY <2>2 DEF RequestInv, BioInv, Active
    <2>4. GhostTypeOK' BY <1>1 DEF RequestInv, GhostTypeOK
    <2> QED BY <2>1, <2>3, <2>4 DEF RequestInv
  <1>8. QueueInv'
    <2>1. \A c \in Bios : bio'[c].st \notin Queued
      BY <1>1 DEF RequestInv, BioTypeOK, BioType, SetStatus, Active, Queued
    <2> QED BY <1>1, <2>1 DEF QueueInv, NoJob
  <1>9. DeviceInv'
    <2>1. DevTypeOK' BY <1>1, <1>2, <1>11 DEF DeviceInv, DevTypeOK
    <2>2. DirtyRecordsInv(flash_md)' BY <1>1 DEF DeviceInv, DirtyRecordsInv
    <2>3. DirtyRecordsInv(md_image)' BY <1>1 DEF DirtyRecordsInv, BlankMd
    <2> QED BY <2>1, <2>2, <2>3 DEF DeviceInv
  <1>10. bypass_cache' \in BOOLEAN /\ crashes' \in Nat
    <2>1. bypass_cache' = FALSE /\ crashes' = crashes + 1 BY <1>1
    <2>2. bypass_cache' \in BOOLEAN BY <2>1
    <2>3. crashes' \in Nat BY <2>1
    <2> QED BY <2>2, <2>3
  <1> QED BY <1>6, <1>7, <1>8, <1>9, <1>10

-----------------------------------------------------------------------------
(* The invariant, and what follows from it                                 *)

LEMMA StutterInv == ASSUME IInv, UNCHANGED vars PROVE IInv'
  <1> USE DEF IInv, vars
  <1>1. BlockInv' /\ RequestInv' /\ DeviceInv'
    BY BlocksStay, RequestsStay, DeviceStays
  <1>2. QueueInv' BY <1>1, QueueStays DEF BlockInv
  <1> QED BY <1>1, <1>2

LEMMA NextIInv == IInv /\ [Next]_vars => IInv'
  <1> SUFFICES ASSUME IInv, [Next]_vars PROVE IInv' OBVIOUS
  <1>1. ASSUME NEW b \in Bios, BioArrives(b) PROVE IInv'
    BY <1>1, MapUncachedInv, MapUncachedConflictInv, MapFailsInv, MapHitInv, MapHitBusyInv,
       MapMissInv DEF BioArrives
  <1>2. ASSUME NEW b \in Bios, UncachedStep(b) PROVE IInv'
    BY <1>2, UncachedIoDoneInv, UncachedIoCompleteInv, UncachedIoRequeueInv,
       UncachedIoCompleteFailsInv DEF UncachedStep
  <1>3. ASSUME NEW s \in Slots, SlotStep(s) PROVE IInv'
    BY <1>3, StartJobInv, StartJobFailsInv, ReadDiskDoneInv, ReadFillDoneInv,
       ReadCacheDoneInv, WriteCacheDoneInv, WriteThroughDoneInv, DirtyWritebackInv,
       DirtyWritebackFailsInv, KcopydDoneInv, DoPendingErrorInv, DoPendingErrorRetryInv,
       DoPendingDirtyInv, DoPendingCleanInv, DrainDoneInv, DrainPendingInv,
       DrainPendingConflictInv, DrainPendingFailsInv DEF SlotStep
  <1>4. ASSUME NEW S \in SUBSET Slots, CleanSet(S) PROVE IInv'
    BY <1>4, CleanSetInv
  <1>5. ASSUME MdStep PROVE IInv'
    BY <1>5, MdKickoffInv, MdKickoffFailsInv, MdWriteCallbackInv, MdWriteDoneInv,
       MdJobDoneInv DEF MdStep
  <1>6. ASSUME Crash PROVE IInv' BY <1>6, CrashInv
  <1>7. ASSUME UNCHANGED vars PROVE IInv' BY <1>7, StutterInv
  <1> QED BY <1>1, <1>2, <1>3, <1>4, <1>5, <1>6, <1>7 DEF Next

THEOREM Inductive == Spec => []IInv
  <1> QED BY InitIInv, NextIInv, PTL DEF Spec

(* Every variable keeps its shape; in particular the metadata on flash     *)
(* holds persistent state bits only.                                       *)
THEOREM TypeCorrect == Spec => []TypeOK
  <1>1. IInv => TypeOK
    BY DEF IInv, BlockInv, RequestInv, DeviceInv, TypeOK
  <1> QED BY <1>1, Inductive, PTL

(* The hash, the invalid list and limbo partition the set, whatever the    *)
(* faults, the crashes and the number of blocks.                           *)
THEOREM SetStaysPartitioned == Spec => []SetPartition
  <1>1. IInv => SetPartition
    BY DEF IInv, BlockInv, SlotInv, BitsInv, ListInv, SetPartition, Bits, SlotTypeOK
  <1> QED BY <1>1, Inductive, PTL

(* No bio is stranded on a block that nothing is in progress on, and none  *)
(* is on two queues, whatever the faults and the crashes.                  *)
THEOREM NoBioStranded == Spec => []PendingInProgress
  <1>1. ASSUME IInv PROVE PendingInProgress
    <2>1. ASSUME NEW s \in Slots, pending[s] # {} PROVE Busy(s)
      <3>1. job[s].phase # "none"
        BY <1>1, <2>1 DEF IInv, BlockInv, SlotInv, JobInv
      <3> QED BY <1>1, <3>1 DEF IInv, BlockInv, SlotInv, JobInv, Busy, Bits
    <2>2. ASSUME NEW b \in Bios, bio[b].st \in {"queued", "queued_inval"}
          PROVE  \E s \in Slots : b \in pending[s] /\ \A t \in Slots \ {s} : b \notin pending[t]
      <3>1. PICK s \in Slots : b \in pending[s]
        BY <1>1, <2>2 DEF IInv, QueueInv, Queued
      <3>2. \A t \in Slots \ {s} : b \notin pending[t]
        BY <1>1, <3>1 DEF IInv, QueueInv
      <3> QED BY <3>1, <3>2
    <2> QED BY <2>1, <2>2 DEF PendingInProgress
  <1>2. IInv => PendingInProgress BY <1>1
  <1> QED BY <1>2, Inductive, PTL

-----------------------------------------------------------------------------
(* What is cached and clean agrees with the disk, and a block that is      *)
(* being written back does not change underneath the writeback, whatever   *)
(* else happens to its set and whatever fails.                             *)

-----------------------------------------------------------------------------
(* What a step leaves of a block                                           *)

OutOrFailed == {"disk", "disk_done", "eio"}

(* The writes that excuse a block go on to do so.                          *)
ExcusesKept ==
  \A b \in Bios : bio[b].st # "new" =>
    /\ bio'[b].dir = bio[b].dir /\ bio'[b].dbn = bio[b].dbn
    /\ bio[b].st \in OutOrFailed => bio'[b].st \in OutOrFailed

ExcuseKept(t) == t \in hashed' /\ Excused(t) => Excused(t)'

(* The block, its job and the bio of its job are left alone.               *)
Same(t) ==
  /\ job'[t] = job[t]
  /\ job[t].bio # None => bio'[job[t].bio] = bio[job[t].bio]
  /\ dbn'[t] = dbn[t] /\ ssd'[t] = ssd[t]
  /\ "DIRTY" \in cache_state[t] => "DIRTY" \in cache_state'[t]
  /\ t \in hashed' => /\ t \in hashed
                      /\ disk'[dbn[t]] = disk[dbn[t]] \/ Excused(t)'

LEMMA ExcuseStays ==
  ASSUME IInv, NEW t \in Slots, ExcusesKept, dbn'[t] = dbn[t],
         \A b \in pending[t] : b \in pending'[t] \/ bio'[b].st \in OutOrFailed
  PROVE  ExcuseKept(t)
  <1> SUFFICES ASSUME Excused(t) PROVE Excused(t)' BY DEF ExcuseKept
  <1>1. PICK b \in Bios : /\ IsWrite(b) /\ bio[b].dbn = dbn[t]
                          /\ bio[b].st \in OutOrFailed \/ b \in pending[t]
    BY DEF Excused, OutOrFailed
  <1>2. bio[b].st # "new" BY <1>1 DEF OutOrFailed, IInv, QueueInv, Queued
  <1>3. bio'[b].dir = bio[b].dir /\ bio'[b].dbn = bio[b].dbn
    BY <1>2 DEF ExcusesKept
  <1>4. bio'[b].st \in OutOrFailed \/ b \in pending'[t] BY <1>1, <1>2 DEF ExcusesKept
  <1> QED BY <1>1, <1>3, <1>4 DEF Excused, OutOrFailed, IsWrite

LEMMA CleanKept ==
  ASSUME IInv, IInv', CleanDataInv, NEW t \in Slots, Same(t), ExcuseKept(t)
  PROVE  CleanInv(t)' /\ JobStartInv(t)'
  <1>1. CleanInv(t) /\ JobStartInv(t) BY DEF CleanDataInv
  <1>2. JobStartInv(t)' BY <1>1 DEF JobStartInv, Same
  <1>3. job'[t].phase \in {"io", "md"} => t \in hashed'
    BY DEF IInv, BlockInv, SlotInv, JobInv, ListInv
  <1>4. job[t].phase = "io" /\ job[t].act = "READFILL" => job[t].bio # None
    BY DEF IInv, BlockInv, SlotInv, PhaseInv
  <1>5. Settled(t)' => Settled(t) BY DEF Settled, Same, Bits
  <1>6. CleanInv(t)'
    <2>1. CASE t \in hashed'
      BY <1>1, <1>4, <1>5, <2>1 DEF CleanInv, Same, ExcuseKept
    <2>2. CASE t \notin hashed' BY <1>3, <2>2 DEF CleanInv, Settled
    <2> QED BY <2>1, <2>2
  <1> QED BY <1>2, <1>6

(* A block of which nothing is claimed.                                    *)
LEMMA NoClaim ==
  ASSUME NEW t \in Slots, ~Settled(t)', job'[t].phase \notin {"hit", "miss", "io", "md"}
  PROVE  CleanInv(t)' /\ JobStartInv(t)'
  BY DEF CleanInv, JobStartInv

(* A block that is off the hash and has no job.                            *)
LEMMA OffHash ==
  ASSUME NEW t \in Slots, t \notin hashed', IInv'
  PROVE  CleanInv(t)' /\ JobStartInv(t)'
  <1>1. job'[t].phase \in {"none", "limbo"}
    BY DEF IInv, BlockInv, SlotInv, JobInv, ListInv
  <1> QED BY <1>1, NoClaim DEF Settled

(* No other job has the bio of a job, and no queue has it.                 *)
LEMMA JobBioAlone ==
  ASSUME IInv, NEW t \in Slots, job[t].bio # None
  PROVE  /\ job[t].bio \in Bios /\ bio[job[t].bio].st \in {"job", "ok", "eio"}
         /\ \A s \in Slots : job[t].bio \notin pending[s]
         /\ \A s \in Slots \ {t} : job[s].bio # job[t].bio
  BY DEF IInv, QueueInv, Queued, BlockInv, JobTypeOK, JobType

LEMMA AllClean ==
  ASSUME \A t \in Slots : CleanInv(t)' /\ JobStartInv(t)' PROVE CleanDataInv'
  BY DEF CleanDataInv

-----------------------------------------------------------------------------
(* Requests arrive                                                         *)

LEMMA ArriveKeeps ==
  ASSUME IInv, NEW b \in Bios, NEW d \in Dbns, NEW dir \in {"READ", "WRITE"},
         NEW st \in BioStatus, Arrive(b, d, dir, st)
  PROVE  /\ ExcusesKept /\ bio'[b].st = st
         /\ \A t \in Slots : job[t].bio # None => bio'[job[t].bio] = bio[job[t].bio]
  <1>1. bio'[b].st = st /\ bio[b].st = "new" /\ \A c \in Bios : c # b => bio'[c] = bio[c]
    BY ArriveFacts DEF IInv
  <1> QED BY <1>1, JobBioAlone DEF ExcusesKept, OutOrFailed

(* The idle clean copies of d leave the hash; the others stay.             *)
LEMMA DropsCopies ==
  ASSUME IInv, NEW d \in Dbns, Conflicts(d) = {}, InvalidateClean(d), dbn' = dbn
  PROVE  \A t \in Slots :
           /\ t \in hashed' => t \in hashed /\ dbn[t] # d /\ cache_state'[t] = cache_state[t]
           /\ "DIRTY" \in cache_state[t] => "DIRTY" \in cache_state'[t]
  BY DEF InvalidateClean, Cached, Conflicts, IInv, BlockInv, SlotTypeOK

LEMMA CleanForInvalidateKeeps ==
  ASSUME IInv, NEW d \in Dbns, NEW s \in Conflicts(d), CleanForInvalidate(s)
  PROVE  /\ s \in Slots /\ s \in hashed /\ dbn[s] = d
         /\ \A t \in Slots \ {s} : job'[t] = job[t] /\ cache_state'[t] = cache_state[t]
         /\ "DIRTY" \in cache_state[s] => "DIRTY" \in cache_state'[s]
         /\ job'[s] = job[s] \/ job'[s].phase = "wb"
  <1>1. s \in Slots /\ s \in hashed /\ dbn[s] = d
    BY DEF Conflicts, Cached, IInv, BlockInv, SlotTypeOK
  <1> QED BY <1>1 DEF CleanForInvalidate, Job, IInv, BlockInv, SlotTypeOK, JobTypeOK

LEMMA ArrivalClean ==
  ASSUME IInv, IInv', CleanDataInv, NEW b \in Bios, BioArrives(b) PROVE CleanDataInv'
  <1>1. PICK d \in Dbns, dir \in {"READ", "WRITE"} :
          \/ MapUncached(b, d, dir) \/ MapUncachedConflict(b, d, dir) \/ MapFails(b, d, dir)
          \/ MapHit(b, d, dir) \/ MapHitBusy(b, d, dir) \/ MapMiss(b, d, dir)
    BY DEF BioArrives
  <1>2. UNCHANGED <<ssd, disk>>
    BY <1>1 DEF MapUncached, MapUncachedConflict, MapFails, MapHit, MapHitBusy, MapMiss
  <1>3. PICK st \in {"disk", "eio", "queued", "queued_inval", "job"} : Arrive(b, d, dir, st)
    BY <1>1 DEF MapUncached, MapUncachedConflict, MapFails, MapHit, MapHitBusy, MapMiss,
                StartUncached
  <1>4. /\ ExcusesKept /\ bio'[b].st = st
        /\ \A t \in Slots : job[t].bio # None => bio'[job[t].bio] = bio[job[t].bio]
    BY <1>3, ArriveKeeps DEF BioStatus
  <1>5. \A t \in Slots : pending[t] \subseteq pending'[t]
    BY <1>1 DEF MapUncached, MapUncachedConflict, MapFails, MapHit, MapHitBusy, MapMiss,
                IInv, BlockInv, SlotTypeOK
  <1>6. \A t \in Slots : dbn'[t] = dbn[t] => ExcuseKept(t)
    BY <1>4, <1>5, ExcuseStays
  <1>7. CASE MapUncached(b, d, dir)
    <2>1. UNCHANGED <<dbn, job>> /\ Conflicts(d) = {} /\ InvalidateClean(d)
      BY <1>7 DEF MapUncached
    <2>2. \A t \in Slots : Same(t) BY <1>2, <1>4, <2>1, DropsCopies DEF Same
    <2> QED BY <1>6, <2>1, <2>2, CleanKept, AllClean
  <1>8. CASE MapUncachedConflict(b, d, dir)
    <2>1. PICK s \in Conflicts(d) : CleanForInvalidate(s) /\ UNCHANGED <<dbn, hashed>>
      BY <1>8 DEF MapUncachedConflict
    <2>2. \A t \in Slots \ {s} : Same(t)
      BY <1>2, <1>4, <2>1, CleanForInvalidateKeeps DEF Same
    <2>3. CleanInv(s)' /\ JobStartInv(s)'
      <3>1. CASE job'[s] = job[s]
        <4>1. Same(s) BY <1>2, <1>4, <2>1, <3>1, CleanForInvalidateKeeps DEF Same
        <4> QED BY <1>6, <2>1, <4>1, CleanKept, CleanForInvalidateKeeps
      <3>2. CASE job'[s].phase = "wb"
        BY <2>1, <3>2, NoClaim, CleanForInvalidateKeeps DEF Settled
      <3> QED BY <2>1, <3>1, <3>2, CleanForInvalidateKeeps
    <2> QED BY <1>6, <2>1, <2>2, <2>3, CleanKept, AllClean
  <1>9. CASE MapFails(b, d, dir) \/ MapHitBusy(b, d, dir)
    <2>1. UNCHANGED <<cache_state, dbn, hashed, job>>
      BY <1>9 DEF MapFails, MapHitBusy
    <2>2. \A t \in Slots : Same(t) BY <1>2, <1>4, <2>1 DEF Same
    <2> QED BY <1>6, <2>1, <2>2, CleanKept, AllClean
  <1>10. CASE MapHit(b, d, dir)
    <2>1. PICK s \in Cached(d), act \in {"READCACHE", "WRITECACHE"} :
            /\ Idle(s) /\ Arrive(b, d, dir, "job")
            /\ cache_state' = [cache_state EXCEPT ![s] = @ \cup {InprogBit(act)}]
            /\ job' = [job EXCEPT ![s] = Job(act, "hit", b)]
            /\ UNCHANGED <<dbn, hashed>>
      BY <1>10 DEF MapHit
    <2>2. s \in Slots /\ s \in hashed
      BY DEF Cached, IInv, BlockInv, SlotTypeOK
    <2>3. job[s].phase = "none"
      BY <2>1, <2>2, IdleHasNoJob DEF Idle, IInv
    <2>4. /\ job'[s] = Job(act, "hit", b)
          /\ "DIRTY" \in cache_state'[s] <=> "DIRTY" \in cache_state[s]
          /\ \A t \in Slots \ {s} : job'[t] = job[t] /\ cache_state'[t] = cache_state[t]
      BY <2>1, <2>2 DEF IInv, BlockInv, SlotTypeOK, JobTypeOK, InprogBit
    <2>5. \A t \in Slots \ {s} : Same(t) BY <1>2, <1>4, <2>1, <2>4 DEF Same
    <2>6. bio'[b].st = "job" BY <2>1, ArriveKeeps DEF BioStatus
    <2>7. JobStartInv(s)' BY <2>4, <2>6 DEF JobStartInv, Job
    <2>8. CleanInv(s)'
      <3>1. Settled(s)' => Settled(s) BY <2>1, <2>2, <2>3, <2>4 DEF Settled, Bits
      <3>2. CleanInv(s) /\ ExcuseKept(s) BY <1>6, <2>1, <2>2 DEF CleanDataInv
      <3> QED BY <1>2, <2>1, <2>2, <2>4, <3>1, <3>2 DEF CleanInv, ExcuseKept, Job
    <2> QED BY <1>6, <2>1, <2>5, <2>7, <2>8, CleanKept, AllClean
  <1>11. CASE MapMiss(b, d, dir)
    <2>1. PICK s \in Victims, act \in {"READDISK", "WRITECACHE"} :
            /\ Arrive(b, d, dir, "job")
            /\ cache_state' = [cache_state EXCEPT ![s] = {"VALID", InprogBit(act)}]
            /\ dbn' = [dbn EXCEPT ![s] = d]
            /\ hashed' = hashed \cup {s}
            /\ job' = [job EXCEPT ![s] = Job(act, "miss", b)]
      BY <1>11 DEF MapMiss
    <2>2. s \in Slots BY DEF Victims, IInv, BlockInv, SlotTypeOK
    <2>3. /\ job'[s] = Job(act, "miss", b)
          /\ \A t \in Slots \ {s} : /\ job'[t] = job[t] /\ cache_state'[t] = cache_state[t]
                                    /\ dbn'[t] = dbn[t] /\ (t \in hashed') = (t \in hashed)
      BY <2>1, <2>2 DEF IInv, BlockInv, SlotTypeOK, JobTypeOK
    <2>4. \A t \in Slots \ {s} : Same(t) BY <1>2, <1>4, <2>3 DEF Same
    <2>5. bio'[b].st = "job" BY <2>1, ArriveKeeps DEF BioStatus
    <2>6. JobStartInv(s)' /\ CleanInv(s)'
      BY <2>3, <2>5 DEF JobStartInv, CleanInv, Settled, Job
    <2> QED BY <1>6, <2>3, <2>4, <2>6, CleanKept, AllClean
  <1> QED BY <1>1, <1>7, <1>8, <1>9, <1>10, <1>11

-----------------------------------------------------------------------------
(* Uncached I/O                                                            *)

(* The bio of the I/O is no job's.                                         *)
LEMMA AtDiskAlone ==
  ASSUME IInv, NEW b \in Bios, bio[b].st \in {"disk", "disk_done"} \cup Queued,
         \A c \in Bios \ {b} : bio'[c] = bio[c]
  PROVE  \A t \in Slots : job[t].bio # None => bio'[job[t].bio] = bio[job[t].bio]
  BY JobBioAlone DEF Queued

LEMMA UncachedClean ==
  ASSUME IInv, IInv', CleanDataInv, NEW b \in Bios, UncachedStep(b) PROVE CleanDataInv'
  <1> DEFINE d == bio[b].dbn
  <1>1. /\ bio[b].st \in {"disk", "disk_done"}
        /\ UNCHANGED <<dbn, ssd>>
        /\ \A c \in Bios \ {b} : bio'[c] = bio[c]
        /\ bio'[b].dir = bio[b].dir /\ bio'[b].dbn = bio[b].dbn
    <2>1. CASE UncachedIoDone(b)
      BY <2>1 DEF UncachedIoDone, IInv, RequestInv, BioTypeOK, BioType
    <2>2. CASE UncachedIoRequeue(b)
      BY <2>2 DEF UncachedIoRequeue, IInv, RequestInv, BioTypeOK, BioType
    <2>3. CASE UncachedIoComplete(b)
      BY <2>3 DEF UncachedIoComplete, EndIo, IInv, RequestInv, BioTypeOK, BioType
    <2>4. CASE UncachedIoCompleteFails(b)
      BY <2>4 DEF UncachedIoCompleteFails, SetStatus, IInv, RequestInv, BioTypeOK, BioType
    <2> QED BY <2>1, <2>2, <2>3, <2>4 DEF UncachedStep
  <1>2. \A t \in Slots : job[t].bio # None => bio'[job[t].bio] = bio[job[t].bio]
    BY <1>1, AtDiskAlone
  <1>3. d \in Dbns BY <1>1 DEF IInv, RequestInv, BioInv
  <1>4. \A t \in Slots : pending[t] \subseteq pending'[t]
    <2>1. CASE UncachedIoRequeue(b)
      <3>1. \E r \in Slots : pending' = [pending EXCEPT ![r] = @ \cup {b}]
        BY <2>1 DEF UncachedIoRequeue, Conflicts, Cached, IInv, BlockInv, SlotTypeOK
      <3> QED BY <3>1 DEF IInv, BlockInv, SlotTypeOK
    <2>2. CASE UncachedIoDone(b) \/ UncachedIoComplete(b) \/ UncachedIoCompleteFails(b)
      BY <2>2 DEF UncachedIoDone, UncachedIoComplete, UncachedIoCompleteFails, slotVars
    <2> QED BY <2>1, <2>2 DEF UncachedStep
  <1>5. CASE UncachedIoDone(b) \/ UncachedIoCompleteFails(b)
    <2>1. UNCHANGED <<cache_state, hashed, job>>
      BY <1>5 DEF UncachedIoDone, UncachedIoCompleteFails
    <2>2. bio'[b].st \in OutOrFailed
      <3>1. CASE UncachedIoDone(b)
        BY <3>1 DEF UncachedIoDone, OutOrFailed, IInv, RequestInv, BioTypeOK, BioType
      <3>2. CASE UncachedIoCompleteFails(b)
        BY <3>2 DEF UncachedIoCompleteFails, SetStatus, OutOrFailed, IInv, RequestInv,
                    BioTypeOK, BioType
      <3> QED BY <1>5, <3>1, <3>2
    <2>3. ExcusesKept BY <1>1, <2>2 DEF ExcusesKept
    <2>4. ASSUME NEW t \in Slots PROVE ExcuseKept(t) BY <1>1, <1>4, <2>3, ExcuseStays
    <2>5. ASSUME NEW t \in Slots, t \in hashed
          PROVE  disk'[dbn[t]] = disk[dbn[t]] \/ Excused(t)'
      <3>1. CASE IsWrite(b) /\ dbn[t] = d
        BY <1>1, <2>2, <3>1 DEF Excused, OutOrFailed, IsWrite
      <3>2. CASE ~(IsWrite(b) /\ dbn[t] = d)
        <4>1. disk' = disk \/ (IsWrite(b) /\ disk' = [disk EXCEPT ![d] = b])
          BY <1>5 DEF UncachedIoDone, UncachedIoCompleteFails
        <4>2. dbn[t] \in Dbns BY <2>5 DEF IInv, BlockInv, ListInv, SlotInv, BitsInv
        <4> QED BY <1>3, <3>2, <4>1, <4>2 DEF IInv, DeviceInv, DevTypeOK
      <3> QED BY <3>1, <3>2
    <2>6. \A t \in Slots : Same(t) BY <1>1, <1>2, <2>1, <2>5 DEF Same
    <2> QED BY <2>4, <2>6, CleanKept, AllClean
  <1>6. CASE UncachedIoComplete(b)
    <2>1. UNCHANGED <<pending, job, disk>> /\ Conflicts(d) = {} /\ InvalidateClean(d)
      BY <1>6 DEF UncachedIoComplete
    <2>2. ASSUME NEW t \in Slots PROVE ExcuseKept(t)
      <3> SUFFICES ASSUME t \in hashed', Excused(t) PROVE Excused(t)' BY DEF ExcuseKept
      <3>1. dbn[t] # d BY <1>1, <1>3, <2>1, DropsCopies
      <3>2. PICK c \in Bios : /\ IsWrite(c) /\ bio[c].dbn = dbn[t]
                              /\ bio[c].st \in {"disk", "disk_done", "eio"} \/ c \in pending[t]
        BY DEF Excused
      <3>3. bio'[c] = bio[c] BY <1>1, <3>1, <3>2
      <3> QED BY <1>1, <2>1, <3>2, <3>3 DEF Excused, IsWrite
    <2>3. \A t \in Slots : Same(t) BY <1>1, <1>2, <1>3, <2>1, DropsCopies DEF Same
    <2> QED BY <2>2, <2>3, CleanKept, AllClean
  <1>7. CASE UncachedIoRequeue(b)
    <2>1. PICK s \in Conflicts(d) : /\ pending' = [pending EXCEPT ![s] = @ \cup {b}]
                                    /\ CleanForInvalidate(s)
                                    /\ UNCHANGED <<hashed, disk>>
      BY <1>7 DEF UncachedIoRequeue
    <2>2. s \in Slots /\ s \in hashed /\ dbn[s] = d /\ b \in pending'[s]
      BY <1>3, <2>1, CleanForInvalidateKeeps DEF IInv, BlockInv, SlotTypeOK
    <2>3. ASSUME NEW t \in Slots PROVE ExcuseKept(t)
      <3> SUFFICES ASSUME t \in hashed, Excused(t) PROVE Excused(t)' BY <2>1 DEF ExcuseKept
      <3>1. PICK c \in Bios : /\ IsWrite(c) /\ bio[c].dbn = dbn[t]
                              /\ bio[c].st \in {"disk", "disk_done", "eio"} \/ c \in pending[t]
        BY DEF Excused
      <3>2. CASE c # b
        BY <1>1, <1>4, <3>1, <3>2 DEF Excused, IsWrite
      <3>3. CASE c = b
        <4>1. t = s BY <2>2, <3>1, <3>3 DEF IInv, BlockInv, ListInv
        <4> QED BY <1>1, <2>2, <3>1, <3>3, <4>1 DEF Excused, IsWrite
      <3> QED BY <3>2, <3>3
    <2>4. \A t \in Slots \ {s} : Same(t)
      BY <1>1, <1>2, <1>3, <2>1, CleanForInvalidateKeeps DEF Same
    <2>5. CleanInv(s)' /\ JobStartInv(s)'
      <3>1. CASE job'[s] = job[s]
        <4>1. Same(s) BY <1>1, <1>2, <1>3, <2>1, <3>1, CleanForInvalidateKeeps DEF Same
        <4> QED BY <2>2, <2>3, <4>1, CleanKept
      <3>2. CASE job'[s].phase = "wb" BY <2>2, <3>2, NoClaim DEF Settled
      <3> QED BY <1>3, <2>1, <3>1, <3>2, CleanForInvalidateKeeps
    <2> QED BY <2>3, <2>4, <2>5, CleanKept, AllClean
  <1> QED BY <1>5, <1>6, <1>7 DEF UncachedStep

-----------------------------------------------------------------------------
(* The steps of one slot                                                   *)

(* Slot s, its job, its bio and its queue may change; a bio that has ended *)
(* badly, or is at the disk, stays so.                                     *)
OneSlot(s) ==
  /\ \A t \in Slots \ {s} : /\ job'[t] = job[t] /\ dbn'[t] = dbn[t] /\ ssd'[t] = ssd[t]
                            /\ "DIRTY" \in cache_state[t] => "DIRTY" \in cache_state'[t]
                            /\ t \in hashed' => t \in hashed /\ disk'[dbn[t]] = disk[dbn[t]]
                            /\ pending[t] \subseteq pending'[t]
  /\ ExcusesKept
  /\ \A b \in Bios : bio[b].st \in {"job", "ok", "eio"} /\ b # job[s].bio => bio'[b] = bio[b]

LEMMA OneSlotClean ==
  ASSUME IInv, IInv', CleanDataInv, NEW s \in Slots, OneSlot(s),
         CleanInv(s)' /\ JobStartInv(s)'
  PROVE  CleanDataInv'
  <1>1. ASSUME NEW t \in Slots \ {s} PROVE Same(t) /\ ExcuseKept(t)
    <2>1. job[t].bio # None => bio'[job[t].bio] = bio[job[t].bio]
      BY JobBioAlone DEF OneSlot
    <2>2. ExcuseKept(t) BY ExcuseStays DEF OneSlot
    <2> QED BY <2>1, <2>2 DEF OneSlot, Same
  <1> QED BY <1>1, CleanKept, AllClean

(* What the tail of the callback leaves.                                   *)
LEMMA FinishKeeps ==
  ASSUME IInv, NEW s \in Slots, NEW error \in BOOLEAN, NEW b \in Bios \cup {None},
         FinishIo(s, error, b)
  PROVE  /\ \A t \in Slots \ {s} : job'[t] = job[t] /\ cache_state'[t] = cache_state[t]
         /\ ("DIRTY" \in cache_state'[s]) = ("DIRTY" \in cache_state[s])
         /\ \/ job'[s] = NoJob /\ ~error /\ pending[s] = {}
            \/ job'[s].phase = "pend"
  <1>1. CASE error \/ pending[s] # {}
    BY <1>1 DEF FinishIo, IInv, BlockInv, JobTypeOK, JobType
  <1>2. CASE ~error /\ pending[s] = {}
    BY <1>2 DEF FinishIo, IInv, BlockInv, JobTypeOK, SlotTypeOK, BlockIoInprog
  <1> QED BY <1>1, <1>2

(* The bio of a job ends, or is passed on.                                 *)
LEMMA EndKeeps ==
  ASSUME IInv, CleanDataInv, NEW s \in Slots, job[s].phase \in {"io", "md"},
         job[s].act # "WRITEDISK", NEW error \in BOOLEAN, NEW v, EndIo(job[s].bio, error, v)
  PROVE  /\ ExcusesKept
         /\ \A b \in Bios : b # job[s].bio => bio'[b] = bio[b]
  <1>1. job[s].bio # None BY DEF IInv, BlockInv, SlotInv, PhaseInv
  <1>2. job[s].bio \in Bios /\ bio[job[s].bio].st = "job"
    BY <1>1, JobBioAlone DEF CleanDataInv, JobStartInv
  <1>3. /\ bio'[job[s].bio].dir = bio[job[s].bio].dir
        /\ bio'[job[s].bio].dbn = bio[job[s].bio].dbn
        /\ \A b \in Bios : b # job[s].bio => bio'[b] = bio[b]
    BY <1>2 DEF EndIo, IInv, RequestInv, BioTypeOK, BioType
  <1> QED BY <1>2, <1>3 DEF ExcusesKept, OutOrFailed

LEMMA BiosKeep == ASSUME bio' = bio PROVE ExcusesKept
  BY DEF ExcusesKept

LEMMA FailBioKeeps ==
  ASSUME IInv, CleanDataInv, NEW s \in Slots, job[s].phase = "io",
         job[s].act # "WRITEDISK", FailBio(s)
  PROVE  /\ ExcusesKept
         /\ \A b \in Bios : b # job[s].bio => bio'[b] = bio[b]
         /\ \A t \in Slots \ {s} : job'[t] = job[t] /\ cache_state'[t] = cache_state[t]
         /\ job'[s].phase = "pend"
  <1>1. job[s].bio \in Bios \cup {None} BY DEF IInv, BlockInv, JobTypeOK, JobType
  <1>2. \/ FinishIo(s, TRUE, None)
        \/ FinishIo(s, TRUE, job[s].bio)
    BY DEF FailBio
  <1>3. /\ \A t \in Slots \ {s} : job'[t] = job[t] /\ cache_state'[t] = cache_state[t]
        /\ job'[s].phase = "pend"
    BY <1>1, <1>2, FinishKeeps
  <1>4. CASE CacheMode = "WRITE_BACK" BY <1>3, <1>4, EndKeeps DEF FailBio
  <1>5. CASE CacheMode # "WRITE_BACK" BY <1>3, <1>5, BiosKeep DEF FailBio
  <1> QED BY <1>4, <1>5

(* Only the slot's own disk block changes, and no other slot holds it.     *)
LEMMA DiskOfOne ==
  ASSUME IInv, NEW s \in Slots, s \in hashed, NEW v,
         disk' \in {disk, [disk EXCEPT ![dbn[s]] = v]}
  PROVE  /\ \A t \in Slots \ {s} : t \in hashed => disk'[dbn[t]] = disk[dbn[t]]
         /\ disk' = [disk EXCEPT ![dbn[s]] = v] => disk'[dbn[s]] = v
  <1>1. \A t \in Slots : t \in hashed => dbn[t] \in Dbns
    BY DEF IInv, BlockInv, ListInv, SlotInv, BitsInv
  <1> QED BY <1>1 DEF IInv, BlockInv, ListInv, DeviceInv, DevTypeOK

(* The callbacks.                                                          *)
LEMMA CallbackClean ==
  ASSUME IInv, IInv', CleanDataInv, NEW s \in Slots,
         \/ ReadDiskDone(s) \/ ReadFillDone(s) \/ ReadCacheDone(s)
         \/ WriteCacheDone(s) \/ WriteThroughDone(s)
  PROVE  CleanDataInv'
  <1> DEFINE b == job[s].bio
  <1>1. /\ job[s].phase = "io" /\ job[s].act # "WRITEDISK"
        /\ UNCHANGED <<dbn, hashed, pending>>
    BY DEF ReadDiskDone, ReadFillDone, ReadCacheDone, WriteCacheDone, WriteThroughDone, InIo
  <1>2. s \in hashed /\ dbn[s] \in Dbns
    BY <1>1 DEF IInv, BlockInv, ListInv, SlotInv, JobInv, BitsInv
  <1>3. b \in Bios /\ bio[b].st = "job"
    <2>1. b # None BY <1>1 DEF IInv, BlockInv, SlotInv, PhaseInv
    <2> QED BY <1>1, <2>1, JobBioAlone DEF CleanDataInv, JobStartInv
  <1>4. CleanInv(s) BY DEF CleanDataInv
  <1>5. \A t \in Slots \ {s} : ssd'[t] = ssd[t]
    BY DEF ReadDiskDone, ReadFillDone, ReadCacheDone, WriteCacheDone, WriteThroughDone,
           IInv, DeviceInv, DevTypeOK
  <1>6. \A t \in Slots \ {s} : t \in hashed => disk'[dbn[t]] = disk[dbn[t]]
    <2>1. disk' = disk \/ disk' = [disk EXCEPT ![dbn[s]] = b]
      BY DEF ReadDiskDone, ReadFillDone, ReadCacheDone, WriteCacheDone, WriteThroughDone
    <2> QED BY <1>2, <2>1, DiskOfOne
  <1>7. ASSUME ExcusesKept, \A c \in Bios : c # b => bio'[c] = bio[c],
               \A t \in Slots \ {s} : job'[t] = job[t] /\ cache_state'[t] = cache_state[t]
        PROVE  OneSlot(s)
    BY <1>1, <1>5, <1>6, <1>7 DEF OneSlot
  <1>8. ASSUME FailBio(s) PROVE CleanDataInv'
    <2>1. OneSlot(s) /\ job'[s].phase = "pend" BY <1>1, <1>7, <1>8, FailBioKeeps
    <2> QED BY <2>1, NoClaim, OneSlotClean DEF Settled
  <1>9. ASSUME NEW error \in BOOLEAN, NEW v, EndIo(b, error, v), FinishIo(s, error, None),
               \/ error
               \/ "DIRTY" \in cache_state[s]
               \/ ssd'[s] = disk'[dbn[s]]
               \/ ssd'[s] = ssd[s] /\ disk'[dbn[s]] = disk[dbn[s]] /\ job[s].act = "READCACHE"
               \/ /\ ssd'[s] = bio[b].val /\ disk'[dbn[s]] = disk[dbn[s]]
                  /\ job[s].act = "READFILL"
        PROVE  CleanDataInv'
    <2>1. ExcusesKept /\ \A c \in Bios : c # b => bio'[c] = bio[c] BY <1>1, <1>9, EndKeeps
    <2>2. /\ \A t \in Slots \ {s} : job'[t] = job[t] /\ cache_state'[t] = cache_state[t]
          /\ ("DIRTY" \in cache_state'[s]) = ("DIRTY" \in cache_state[s])
          /\ \/ job'[s] = NoJob /\ ~error /\ pending[s] = {}
             \/ job'[s].phase = "pend"
      BY <1>9, FinishKeeps
    <2>3. OneSlot(s) BY <1>7, <2>1, <2>2
    <2>4. CleanInv(s)' /\ JobStartInv(s)'
      <3>1. CASE job'[s].phase = "pend" BY <3>1, NoClaim DEF Settled
      <3>2. CASE job'[s] = NoJob /\ ~error
        <4>1. JobStartInv(s)' BY <3>2 DEF JobStartInv, NoJob
        <4>2. ExcuseKept(s) BY <1>1, <2>1, ExcuseStays
        <4>3. Settled(s)' => ssd'[s] = disk'[dbn'[s]] \/ Excused(s)'
          <5> SUFFICES ASSUME "DIRTY" \notin cache_state[s]
                       PROVE  ssd'[s] = disk'[dbn'[s]] \/ Excused(s)'
            BY <2>2 DEF Settled, Bits
          <5>1. CASE ssd'[s] = ssd[s] /\ disk'[dbn[s]] = disk[dbn[s]] /\ job[s].act = "READCACHE"
            <6>1. Settled(s) BY <1>1, <1>2, <5>1 DEF Settled, Bits
            <6> QED BY <1>1, <1>2, <1>4, <4>2, <5>1, <6>1 DEF CleanInv, ExcuseKept
          <5>2. CASE /\ ssd'[s] = bio[b].val /\ disk'[dbn[s]] = disk[dbn[s]]
                     /\ job[s].act = "READFILL"
            BY <1>1, <1>2, <1>4, <4>2, <5>2 DEF CleanInv, ExcuseKept
          <5> QED BY <1>1, <1>9, <3>2, <5>1, <5>2
        <4> QED BY <3>2, <4>1, <4>3 DEF CleanInv, NoJob
      <3> QED BY <2>2, <3>1, <3>2
    <2> QED BY <2>3, <2>4, OneSlotClean
  <1>10. CASE ReadDiskDone(s)
    <2>1. UNCHANGED <<ssd, disk>> BY <1>10 DEF ReadDiskDone
    <2>2. CASE EndIo(b, TRUE, None) /\ FinishIo(s, TRUE, None) BY <1>9, <2>2
    <2>3. CASE /\ bio' = [bio EXCEPT ![b].val = disk[dbn[s]]]
               /\ job' = [job EXCEPT ![s].act = "READFILL"] /\ cache_state' = cache_state
      <3>1. /\ \A c \in Bios : /\ bio'[c].dir = bio[c].dir /\ bio'[c].dbn = bio[c].dbn
                               /\ bio'[c].st = bio[c].st
                               /\ c # b => bio'[c] = bio[c]
            /\ bio'[b].val = disk[dbn[s]]
        BY <1>3, <2>3 DEF IInv, RequestInv, BioTypeOK, BioType
      <3>2. /\ \A t \in Slots \ {s} : job'[t] = job[t]
            /\ job'[s].act = "READFILL" /\ job'[s].phase = "io" /\ job'[s].bio = b
        BY <1>1, <2>3 DEF IInv, BlockInv, JobTypeOK, JobType
      <3>3. OneSlot(s) BY <1>7, <2>3, <3>1, <3>2 DEF ExcusesKept
      <3>4. JobStartInv(s)' BY <1>3, <3>1, <3>2 DEF JobStartInv
      <3>5. CleanInv(s)' BY <1>1, <2>1, <3>1, <3>2 DEF CleanInv, Settled
      <3> QED BY <3>3, <3>4, <3>5, OneSlotClean
    <2> QED BY <1>10, <2>2, <2>3 DEF ReadDiskDone
  <1>11. CASE ReadFillDone(s)
    <2>1. job[s].act = "READFILL" /\ disk' = disk BY <1>11 DEF ReadFillDone, InIo
    <2>2. CASE FailBio(s) BY <1>8, <2>2
    <2>3. CASE /\ ssd' = [ssd EXCEPT ![s] = bio[b].val] /\ EndIo(b, FALSE, bio[b].val)
               /\ FinishIo(s, FALSE, None)
      <3>1. ssd'[s] = bio[b].val BY <2>3 DEF IInv, DeviceInv, DevTypeOK
      <3> QED BY <1>9, <2>1, <2>3, <3>1
    <2> QED BY <1>11, <2>2, <2>3 DEF ReadFillDone
  <1>12. CASE ReadCacheDone(s)
    BY <1>8, <1>9, <1>12 DEF ReadCacheDone, InIo
  <1>13. CASE WriteCacheDone(s)
    <2>1. CASE FailBio(s) BY <1>8, <2>1
    <2>2. CASE "DIRTY" \in cache_state[s] /\ EndIo(b, FALSE, b) /\ FinishIo(s, FALSE, None)
      BY <1>9, <2>2
    <2>3. CASE MdWrite(s) /\ bio' = bio
      <3>1. /\ \A t \in Slots \ {s} : job'[t] = job[t]
            /\ job'[s].phase = "md" /\ job'[s].act = "WRITECACHE" /\ job'[s].bio = b
            /\ cache_state' = cache_state
        BY <1>13, <2>3 DEF MdWrite, WriteCacheDone, InIo, IInv, BlockInv, JobTypeOK, JobType
      <3>2. OneSlot(s) BY <1>7, <2>3, <3>1, BiosKeep
      <3>3. CleanInv(s)' /\ JobStartInv(s)'
        BY <1>3, <2>3, <3>1 DEF CleanInv, JobStartInv, Settled
      <3> QED BY <3>2, <3>3, OneSlotClean
    <2> QED BY <1>13, <2>1, <2>2, <2>3 DEF WriteCacheDone
  <1>14. CASE WriteThroughDone(s)
    <2>1. CASE /\ ssd' = [ssd EXCEPT ![s] = b] /\ disk' = [disk EXCEPT ![dbn[s]] = b]
               /\ EndIo(b, FALSE, b) /\ FinishIo(s, FALSE, None)
      <3>1. ssd'[s] = disk'[dbn[s]]
        BY <1>2, <2>1 DEF IInv, DeviceInv, DevTypeOK
      <3> QED BY <1>9, <2>1, <3>1
    <2>2. CASE EndIo(b, TRUE, b) /\ FinishIo(s, TRUE, None) BY <1>9, <2>2
    <2> QED BY <1>14, <2>1, <2>2 DEF WriteThroughDone
  <1> QED BY <1>10, <1>11, <1>12, <1>13, <1>14

(* Who waits on the block is failed, or sent to the disk.                  *)
LEMMA WaitersKeep ==
  ASSUME IInv, NEW s \in Slots,
         \A b \in Bios : \/ bio'[b] = bio[b]
                         \/ /\ b \in pending[s] \cup {job[s].bio}
                            /\ bio'[b] \in {[bio[b] EXCEPT !.st = "eio"],
                                            [bio[b] EXCEPT !.st = "disk"]}
  PROVE  /\ ExcusesKept
         /\ \A b \in Bios : bio[b].st \in {"job", "ok", "eio"} /\ b # job[s].bio =>
                              bio'[b] = bio[b]
  <1>1. ASSUME NEW b \in Bios, bio'[b] # bio[b]
        PROVE  /\ bio'[b].st \in OutOrFailed
               /\ bio'[b].dir = bio[b].dir /\ bio'[b].dbn = bio[b].dbn
               /\ b \in pending[s] \cup {job[s].bio}
    BY <1>1 DEF IInv, RequestInv, BioTypeOK, BioType, OutOrFailed
  <1>2. \A b \in pending[s] : bio[b].st \notin {"job", "ok", "eio"}
    BY DEF IInv, QueueInv, Queued
  <1>3. ExcusesKept BY <1>1 DEF ExcusesKept
  <1> QED BY <1>1, <1>2, <1>3

(* The claim on a block is given up with the job: the block leaves the     *)
(* hash, or is dirty.                                                      *)
LEMMA GaveUpClean ==
  ASSUME IInv, IInv', NEW s \in Slots, job'[s] = NoJob,
         s \in hashed' => "DIRTY" \in cache_state'[s]
  PROVE  CleanInv(s)' /\ JobStartInv(s)'
  BY DEF CleanInv, JobStartInv, Settled, Bits, NoJob

(* The job is allocated and sent down, or it cannot be.                    *)
LEMMA StartClean ==
  ASSUME IInv, IInv', CleanDataInv, NEW s \in Slots,
         StartJob(s) \/ DirtyWriteback(s) \/ StartJobFails(s) \/ DirtyWritebackFails(s)
  PROVE  CleanDataInv'
  <1>1. CleanInv(s) /\ JobStartInv(s) BY DEF CleanDataInv
  <1>2. CASE StartJob(s) \/ DirtyWriteback(s)
    <2>1. /\ job[s].phase \in {"hit", "miss", "wb"}
          /\ job' = [job EXCEPT ![s].phase = "io"]
          /\ UNCHANGED <<cache_state, dbn, hashed, pending, ssd, disk, bio>>
      BY <1>2 DEF StartJob, DirtyWriteback
    <2>2. /\ \A t \in Slots \ {s} : job'[t] = job[t]
          /\ job'[s].phase = "io" /\ job'[s].act = job[s].act /\ job'[s].bio = job[s].bio
      BY <2>1 DEF IInv, BlockInv, JobTypeOK, JobType
    <2>3. OneSlot(s) BY <2>1, <2>2, BiosKeep DEF OneSlot
    <2>4. job[s].phase = "wb" => job[s].act = "WRITEDISK" /\ job[s].bio = None
      BY DEF IInv, BlockInv, SlotInv, PhaseInv
    <2>5. JobStartInv(s)' BY <1>1, <2>1, <2>2, <2>4 DEF JobStartInv
    <2>6. Excused(s)' = Excused(s) BY <2>1 DEF Excused, IsWrite
    <2>7. CleanInv(s)'
      BY <1>1, <2>1, <2>2, <2>4, <2>6 DEF CleanInv, JobStartInv, Settled, Bits
    <2> QED BY <2>3, <2>5, <2>7, OneSlotClean
  <1>3. CASE StartJobFails(s) \/ DirtyWritebackFails(s)
    <2>1. /\ job[s].phase \in {"hit", "miss", "wb"}
          /\ job' = [job EXCEPT ![s] = NoJob] /\ pending' = [pending EXCEPT ![s] = {}]
          /\ bio' = SetStatus(IF job[s].phase = "wb" THEN pending[s]
                              ELSE pending[s] \cup {job[s].bio}, "eio")
          /\ UNCHANGED <<dbn, ssd, disk>>
          /\ cache_state' \in {[cache_state EXCEPT ![s] = @ \ BlockIoInprog],
                               [cache_state EXCEPT ![s] = {"INVALID"}]}
          /\ hashed' \in {hashed, hashed \ {s}}
      BY <1>3 DEF StartJobFails, DirtyWritebackFails
    <2>2. /\ \A t \in Slots \ {s} : /\ job'[t] = job[t] /\ pending'[t] = pending[t]
                                    /\ cache_state'[t] = cache_state[t]
          /\ job'[s] = NoJob
      BY <2>1 DEF IInv, BlockInv, JobTypeOK, SlotTypeOK
    <2>3. /\ ExcusesKept
          /\ \A b \in Bios : bio[b].st \in {"job", "ok", "eio"} /\ b # job[s].bio =>
                               bio'[b] = bio[b]
      BY <2>1, WaitersKeep DEF SetStatus
    <2>4. OneSlot(s) BY <2>1, <2>2, <2>3 DEF OneSlot
    <2>5. \A b \in pending[s] : bio'[b].st \in OutOrFailed
      BY <2>1 DEF SetStatus, OutOrFailed, IInv, BlockInv, SlotTypeOK, RequestInv, BioTypeOK, BioType
    <2>6. ExcuseKept(s) BY <2>1, <2>3, <2>5, ExcuseStays
    <2>7. CASE job[s].phase = "hit"
      <3>1. hashed' = hashed /\ cache_state'[s] = cache_state[s] \ BlockIoInprog
        BY <1>3, <2>7 DEF StartJobFails, DirtyWritebackFails, IInv, BlockInv, SlotTypeOK
      <3>2. "DIRTY" \in cache_state'[s] <=> "DIRTY" \in cache_state[s]
        BY <3>1 DEF BlockIoInprog
      <3>3. Settled(s)' => Settled(s) BY <2>7, <3>1, <3>2 DEF Settled, Bits
      <3>4. JobStartInv(s)' BY <2>2 DEF JobStartInv, NoJob
      <3>5. CleanInv(s)' BY <1>1, <2>1, <2>2, <2>6, <3>1, <3>3 DEF CleanInv, ExcuseKept, NoJob, Settled
      <3> QED BY <2>4, <3>4, <3>5, OneSlotClean
    <2>8. CASE job[s].phase = "miss"
      <3>1. s \notin hashed' BY <1>3, <2>8 DEF StartJobFails, DirtyWritebackFails
      <3> QED BY <2>4, <3>1, OffHash, OneSlotClean
    <2>9. CASE job[s].phase = "wb"
      <3>1. cache_state'[s] = cache_state[s] \ BlockIoInprog
        BY <1>3, <2>9 DEF StartJobFails, DirtyWritebackFails, IInv, BlockInv, SlotTypeOK
      <3>2. "DIRTY" \in cache_state[s] BY <2>9 DEF IInv, BlockInv, SlotInv, PhaseInv, Bits
      <3>3. "DIRTY" \in cache_state'[s] BY <3>1, <3>2 DEF BlockIoInprog
      <3> QED BY <2>2, <2>4, <3>3, GaveUpClean, OneSlotClean
    <2> QED BY <2>1, <2>7, <2>8, <2>9
  <1> QED BY <1>2, <1>3

(* The copy to the disk is done, or has failed.                            *)
LEMMA KcopydClean ==
  ASSUME IInv, IInv', CleanDataInv, NEW s \in Slots, KcopydDone(s) PROVE CleanDataInv'
  <1>1. /\ job[s].phase = "io" /\ job[s].act = "WRITEDISK"
        /\ UNCHANGED <<dbn, hashed, pending, ssd, bio>>
    BY DEF KcopydDone, InIo
  <1>2. s \in hashed BY <1>1 DEF IInv, BlockInv, ListInv, SlotInv, JobInv
  <1>3. disk' = disk \/ disk' = [disk EXCEPT ![dbn[s]] = ssd[s]] BY DEF KcopydDone
  <1>4. /\ \A t \in Slots \ {s} : t \in hashed => disk'[dbn[t]] = disk[dbn[t]]
        /\ disk' = [disk EXCEPT ![dbn[s]] = ssd[s]] => disk'[dbn[s]] = ssd[s]
    BY <1>2, <1>3, DiskOfOne
  <1>5. /\ \A t \in Slots \ {s} : job'[t] = job[t]
        /\ cache_state' = cache_state
        /\ \/ job'[s].phase = "pend"
           \/ /\ job'[s].phase = "md" /\ job'[s].act = "WRITEDISK" /\ job'[s].bio = job[s].bio
              /\ disk' = [disk EXCEPT ![dbn[s]] = ssd[s]]
    <2>1. CASE MdWrite(s) /\ disk' = [disk EXCEPT ![dbn[s]] = ssd[s]]
      BY <1>1, <2>1 DEF MdWrite, IInv, BlockInv, JobTypeOK, JobType
    <2>2. CASE job' = [job EXCEPT ![s].phase = "pend", ![s].err = TRUE] /\ cache_state' = cache_state
      BY <2>2 DEF IInv, BlockInv, JobTypeOK, JobType
    <2> QED BY <2>1, <2>2 DEF KcopydDone
  <1>6. OneSlot(s) BY <1>1, <1>4, <1>5, BiosKeep DEF OneSlot
  <1>7. job[s].bio = None BY <1>1 DEF IInv, BlockInv, SlotInv, PhaseInv
  <1>8. CleanInv(s)' /\ JobStartInv(s)'
    BY <1>1, <1>4, <1>5, <1>7 DEF CleanInv, JobStartInv, Settled
  <1> QED BY <1>6, <1>8, OneSlotClean

(* do_pending.                                                             *)
LEMMA PendingClean ==
  ASSUME IInv, IInv', CleanDataInv, NEW s \in Slots,
         \/ DoPendingError(s) \/ DoPendingErrorRetry(s)
         \/ DoPendingDirty(s) \/ DoPendingClean(s) \/ DrainDone(s)
  PROVE  CleanDataInv'
  <1>1. CASE DoPendingError(s) \/ DoPendingErrorRetry(s)
    <2>1. GiveUpUnlessDirty(s) /\ UNCHANGED <<dbn, ssd, disk>>
      BY <1>1 DEF DoPendingError, DoPendingErrorRetry
    <2>2. /\ \A t \in Slots \ {s} : /\ job'[t] = job[t] /\ pending'[t] = pending[t]
                                    /\ cache_state'[t] = cache_state[t]
                                    /\ t \in hashed' => t \in hashed
          /\ job'[s] = NoJob
          /\ s \in hashed' => "DIRTY" \in cache_state'[s]
      BY <2>1 DEF GiveUpUnlessDirty, IInv, BlockInv, JobTypeOK, SlotTypeOK, BlockIoInprog
    <2>3. \A b \in Bios : \/ bio'[b] = bio[b]
                          \/ /\ b \in pending[s] \cup {job[s].bio}
                             /\ bio'[b] \in {[bio[b] EXCEPT !.st = "eio"],
                                             [bio[b] EXCEPT !.st = "disk"]}
      BY <1>1 DEF DoPendingError, DoPendingErrorRetry, SetStatus
    <2>4. OneSlot(s) BY <2>1, <2>2, <2>3, WaitersKeep DEF OneSlot
    <2> QED BY <2>2, <2>4, GaveUpClean, OneSlotClean
  <1>2. CASE DoPendingDirty(s) \/ DoPendingClean(s) \/ DrainDone(s)
    <2>1. /\ UNCHANGED <<dbn, ssd, disk, pending, bio>>
          /\ \A t \in Slots \ {s} : /\ job'[t] = job[t] /\ cache_state'[t] = cache_state[t]
                                    /\ t \in hashed' => t \in hashed
          /\ job'[s].phase \in {"wb", "limbo", "none"}
          /\ job'[s].phase = "wb" \/ s \notin hashed'
      <3>1. CASE DoPendingDirty(s)
        BY <3>1 DEF DoPendingDirty, IInv, BlockInv, JobTypeOK, SlotTypeOK, Job
      <3>2. CASE DoPendingClean(s)
        BY <3>2 DEF DoPendingClean, IInv, BlockInv, JobTypeOK, JobType, SlotTypeOK
      <3>3. CASE DrainDone(s)
        BY <3>3 DEF DrainDone, IInv, BlockInv, JobTypeOK, SlotTypeOK, NoJob, SlotInv, JobInv, ListInv
      <3> QED BY <1>2, <3>1, <3>2, <3>3
    <2>2. OneSlot(s) BY <2>1, BiosKeep DEF OneSlot
    <2>3. CleanInv(s)' /\ JobStartInv(s)' BY <2>1, NoClaim DEF Settled
    <2> QED BY <2>2, <2>3, OneSlotClean
  <1> QED BY <1>1, <1>2

(* The queue of a block in limbo is drained.                               *)
LEMMA DrainClean ==
  ASSUME IInv, IInv', CleanDataInv, NEW s \in Slots, NEW b \in Bios,
         DrainPending(s, b) \/ DrainPendingConflict(s, b) \/ DrainPendingFails(s, b)
  PROVE  CleanDataInv'
  <1> DEFINE d == bio[b].dbn
  <1>1. /\ job[s].phase = "limbo" /\ b \in pending[s]
        /\ UNCHANGED <<dbn, ssd, disk>>
        /\ \A t \in Slots \ {s} : pending[t] \subseteq pending'[t]
    BY DEF DrainPending, DrainPendingConflict, DrainPendingFails, IInv, BlockInv, SlotTypeOK
  <1>2. bio[b].st \in Queued /\ d \in Dbns
    BY <1>1 DEF IInv, QueueInv, RequestInv, BioInv, Queued
  <1>3. s \notin hashed BY <1>1 DEF IInv, BlockInv, ListInv, SlotInv, JobInv
  <1>4. /\ bio'[b].dir = bio[b].dir /\ bio'[b].dbn = bio[b].dbn
        /\ \A c \in Bios \ {b} : bio'[c] = bio[c]
    BY DEF DrainPending, DrainPendingConflict, DrainPendingFails, SetStatus,
           IInv, RequestInv, BioTypeOK, BioType
  <1>5. ExcusesKept BY <1>2, <1>4 DEF ExcusesKept, Queued, OutOrFailed
  <1>6. \A t \in Slots : job[t].bio # None => bio'[job[t].bio] = bio[job[t].bio]
    BY <1>2, <1>4, AtDiskAlone
  <1>7. \A t \in Slots \ {s} : ExcuseKept(t) BY <1>1, <1>5, ExcuseStays
  <1>8. CASE DrainPending(s, b) \/ DrainPendingFails(s, b)
    <2>1. /\ job' = job
          /\ \/ UNCHANGED <<cache_state, hashed>>
             \/ Conflicts(d) = {} /\ InvalidateClean(d)
      BY <1>8 DEF DrainPending, DrainPendingFails
    <2>2. \A t \in Slots : Same(t) BY <1>1, <1>2, <1>6, <2>1, DropsCopies DEF Same
    <2>3. s \notin hashed' BY <1>1, <1>2, <1>3, <2>1, DropsCopies
    <2> QED BY <1>7, <2>2, <2>3, CleanKept, OffHash, AllClean
  <1>9. CASE DrainPendingConflict(s, b)
    <2>1. PICK u \in Conflicts(d) : CleanForInvalidate(u) /\ hashed' = hashed
      BY <1>9 DEF DrainPendingConflict
    <2>2. u \in Slots /\ u # s BY <1>2, <1>3, <2>1, CleanForInvalidateKeeps
    <2>3. \A t \in Slots \ {u} : Same(t)
      BY <1>1, <1>2, <1>6, <2>1, CleanForInvalidateKeeps DEF Same
    <2>4. CleanInv(u)' /\ JobStartInv(u)'
      <3>1. CASE job'[u] = job[u]
        <4>1. Same(u) BY <1>1, <1>2, <1>6, <2>1, <3>1, CleanForInvalidateKeeps DEF Same
        <4> QED BY <1>7, <2>2, <4>1, CleanKept
      <3>2. CASE job'[u].phase = "wb" BY <2>2, <3>2, NoClaim DEF Settled
      <3> QED BY <1>2, <2>1, <3>1, <3>2, CleanForInvalidateKeeps
    <2>5. s \notin hashed' BY <1>3, <2>1
    <2> QED BY <1>7, <2>3, <2>4, <2>5, CleanKept, OffHash, AllClean
  <1> QED BY <1>8, <1>9

-----------------------------------------------------------------------------
(* Cleaning, metadata, and a crash                                         *)

LEMMA CleanSetClean ==
  ASSUME IInv, IInv', CleanDataInv, NEW S \in SUBSET Slots, CleanSet(S) PROVE CleanDataInv'
  <1>1. UNCHANGED <<dbn, hashed, pending, ssd, disk, bio>> BY DEF CleanSet
  <1>2. ExcusesKept BY <1>1, BiosKeep
  <1>3. ASSUME NEW t \in Slots PROVE CleanInv(t)' /\ JobStartInv(t)'
    <2>1. CASE t \in S
      <3>1. job'[t].phase = "wb" BY <2>1 DEF CleanSet, Job
      <3> QED BY <3>1, NoClaim DEF Settled
    <2>2. CASE t \notin S
      <3>1. Same(t) BY <1>1, <2>2 DEF CleanSet, Same
      <3>2. ExcuseKept(t) BY <1>1, <1>2, ExcuseStays
      <3> QED BY <3>1, <3>2, CleanKept
    <2> QED BY <2>1, <2>2
  <1> QED BY <1>3, AllClean

LEMMA QuietClean ==
  ASSUME IInv, IInv', CleanDataInv,
         UNCHANGED <<cache_state, dbn, hashed, pending, job, ssd, disk, bio>>
  PROVE  CleanDataInv'
  <1>1. ExcusesKept BY BiosKeep
  <1>2. \A t \in Slots : Same(t) /\ ExcuseKept(t) BY <1>1, ExcuseStays DEF Same
  <1> QED BY <1>2, CleanKept, AllClean

LEMMA MdClean ==
  ASSUME IInv, IInv', CleanDataInv, MdStep PROVE CleanDataInv'
  <1>1. CASE MdKickoff \/ MdKickoffFails \/ MdWriteCallback \/ MdWriteDone
    BY <1>1, QuietClean DEF MdKickoff, MdKickoffFails, MdWriteCallback, MdWriteDone
  <1>2. ASSUME NEW s \in Slots, MdJobDone(s) PROVE CleanDataInv'
    <2>1. /\ s \in md_io /\ UNCHANGED <<dbn, hashed, pending, ssd, disk>>
      BY <1>2 DEF MdJobDone
    <2>2. job[s].phase = "md" /\ job[s].act \in {"WRITECACHE", "WRITEDISK"}
      BY <2>1 DEF IInv, BlockInv, PipelineInv, SlotInv, PhaseInv
    <2>3. /\ \A t \in Slots \ {s} : job'[t] = job[t] /\ cache_state'[t] = cache_state[t]
          /\ \/ job'[s].phase = "pend"
             \/ /\ job'[s] = NoJob /\ ~md_error
                /\ job[s].act = "WRITECACHE" => "DIRTY" \in cache_state'[s]
      <3>1. CASE md_error \/ pending[s] # {}
        BY <1>2, <3>1 DEF MdJobDone, IInv, BlockInv, JobTypeOK, JobType, SlotTypeOK
      <3>2. CASE ~md_error /\ pending[s] = {}
        BY <1>2, <3>2 DEF MdJobDone, IInv, BlockInv, JobTypeOK, SlotTypeOK, BlockIoInprog
      <3> QED BY <3>1, <3>2
    <2>4. /\ ExcusesKept
          /\ \A c \in Bios : c # job[s].bio => bio'[c] = bio[c]
      <3>1. CASE job[s].act = "WRITECACHE"
        <4>1. EndIo(job[s].bio, md_error, job[s].bio) /\ md_error \in BOOLEAN
          BY <1>2, <3>1 DEF MdJobDone, IInv, BlockInv, MdTypeOK
        <4> QED BY <2>2, <3>1, <4>1, EndKeeps
      <3>2. CASE job[s].act # "WRITECACHE"
        BY <1>2, <3>2, BiosKeep DEF MdJobDone
      <3> QED BY <3>1, <3>2
    <2>5. OneSlot(s) BY <2>1, <2>3, <2>4 DEF OneSlot
    <2>6. ExcuseKept(s) BY <2>1, <2>4, ExcuseStays
    <2>7. CleanInv(s)' /\ JobStartInv(s)'
      <3>1. CASE job'[s].phase = "pend" BY <3>1, NoClaim DEF Settled
      <3>2. CASE job'[s] = NoJob /\ job[s].act = "WRITECACHE"
        <4>1. job'[s].phase = "none" BY <3>2 DEF NoJob
        <4>2. "DIRTY" \in cache_state'[s] BY <2>3, <3>2, <4>1
        <4> QED BY <3>2, <4>2, GaveUpClean
      <3>3. CASE job'[s] = NoJob /\ job[s].act = "WRITEDISK"
        <4>1. ssd[s] = disk[dbn[s]] \/ Excused(s) BY <2>2, <3>3 DEF CleanDataInv, CleanInv
        <4> QED BY <2>1, <2>6, <3>3, <4>1
                DEF CleanInv, JobStartInv, ExcuseKept, Settled, NoJob
      <3> QED BY <2>2, <2>3, <3>1, <3>2, <3>3
    <2> QED BY <2>5, <2>7, OneSlotClean
  <1> QED BY <1>1, <1>2 DEF MdStep

(* Only blocks that are dirty on flash come back.                          *)
LEMMA CrashClean == ASSUME IInv, IInv', Crash PROVE CleanDataInv'
  <1>1. \A t \in Slots : job'[t] = NoJob BY DEF Crash
  <1>2. \A t \in Slots : t \in hashed' => "DIRTY" \in cache_state'[t] BY DEF Crash
  <1> QED BY <1>1, <1>2, GaveUpClean, AllClean

-----------------------------------------------------------------------------
LEMMA InitClean == Init => CleanDataInv
  BY DEF Init, CleanDataInv, CleanInv, JobStartInv, Settled, NoJob

LEMMA NextClean == IInv /\ IInv' /\ CleanDataInv /\ [Next]_vars => CleanDataInv'
  <1> SUFFICES ASSUME IInv, IInv', CleanDataInv, [Next]_vars PROVE CleanDataInv'
    OBVIOUS
  <1>1. CASE UNCHANGED vars BY <1>1, QuietClean DEF vars
  <1>2. ASSUME NEW b \in Bios, BioArrives(b) \/ UncachedStep(b) PROVE CleanDataInv'
    BY <1>2, ArrivalClean, UncachedClean
  <1>3. ASSUME NEW s \in Slots, SlotStep(s) PROVE CleanDataInv'
    <2>1. CASE \E b \in Bios : DrainPending(s, b) \/ DrainPendingConflict(s, b)
                               \/ DrainPendingFails(s, b)
      BY <2>1, DrainClean
    <2> QED BY <1>3, <2>1, StartClean, CallbackClean, KcopydClean, PendingClean DEF SlotStep
  <1>4. ASSUME NEW S \in SUBSET Slots, CleanSet(S) PROVE CleanDataInv'
    BY <1>4, CleanSetClean
  <1>5. CASE MdStep BY <1>5, MdClean
  <1>6. CASE Crash BY <1>6, CrashClean
  <1> QED BY <1>1, <1>2, <1>3, <1>4, <1>5, <1>6 DEF Next

(* What is cached, clean and idle agrees with the disk, through fills,     *)
(* hits, writebacks, invalidations, retries and crashes, whatever fails    *)
(* (metadata writes too) and in every cache mode, unless a write that went *)
(* around the cache to the block is out or was reported to have failed.    *)
THEOREM CleanStaysInAgreement == Spec => []CleanAgreesWithDisk
  <1>1. IInv /\ CleanDataInv => CleanAgreesWithDisk
    <2> SUFFICES ASSUME IInv, CleanDataInv, NEW s \in Slots, cache_state[s] = {"VALID"},
                        ssd[s] # disk[dbn[s]]
                 PROVE  \E b \in Bios : /\ bio[b].st \in {"disk", "disk_done", "eio"}
                                        /\ IsWrite(b) /\ bio[b].dbn = dbn[s]
      BY DEF CleanAgreesWithDisk
    <2>1. s \in hashed /\ ~Busy(s)
      BY DEF IInv, BlockInv, ListInv, Bits, Busy, BlockIoInprog
    <2>2. job[s].phase = "none" BY <2>1, IdleHasNoJob DEF IInv
    <2>3. pending[s] = {} BY <2>2 DEF IInv, BlockInv, SlotInv, JobInv
    <2>4. Excused(s) BY <2>1, <2>2 DEF CleanDataInv, CleanInv, Settled, Bits
    <2> QED BY <2>3, <2>4 DEF Excused
  <1>2. Init /\ []IInv /\ [][Next]_vars => []CleanDataInv
    BY InitClean, NextClean, PTL
  <1> QED BY <1>1, <1>2, Inductive, PTL DEF Spec

-----------------------------------------------------------------------------
(* A writeback and its block                                               *)

(* What a step must leave of a block that is being written back.           *)
LeftAlone(t) ==
  /\ dbn'[t] = dbn[t] /\ ssd'[t] = ssd[t]
  /\ "DIRTY" \in cache_state[t] /\ "DIRTY" \notin cache_state'[t] =>
       CleanLanded(t) /\ ~md_error

WritebackOut(t) == "DISKWRITEINPROG" \in cache_state[t]

(* The writeback is the job of its block, so that nobody else has it.      *)
LEMMA WritebackOwns ==
  ASSUME IInv, NEW t \in Slots, WritebackOut(t)
  PROVE  /\ job[t].phase # "none" /\ job[t].act = "WRITEDISK"
         /\ job[t].phase \notin {"hit", "miss"}
         /\ Busy(t) /\ t \notin Victims
  <1>1. "DISKWRITEINPROG" \in Bits(t) \cap BlockIoInprog
    BY DEF WritebackOut, Bits, BlockIoInprog
  <1>2. JobInv(t) /\ PhaseInv(t) BY DEF IInv, BlockInv, SlotInv
  <1>3. job[t].phase # "none" BY <1>1, <1>2 DEF JobInv
  <1>4. job[t].act \in Actions /\ InprogBit(job[t].act) = "DISKWRITEINPROG"
    BY <1>1, <1>2, <1>3 DEF JobInv
  <1>5. job[t].act = "WRITEDISK" BY <1>4 DEF Actions, InprogBit
  <1>6. job[t].phase \notin {"hit", "miss"} BY <1>2, <1>5 DEF PhaseInv
  <1>7. Busy(t) BY <1>1 DEF Busy, Bits
  <1>8. t \notin Victims
    BY <1>1 DEF Victims, IInv, BlockInv, ListInv, Bits, BlockIoInprog
  <1> QED BY <1>3, <1>5, <1>6, <1>7, <1>8

(* An invalidation that finds no conflict leaves busy blocks alone.        *)
LEMMA InvalidateLeavesAlone ==
  ASSUME IInv, NEW t \in Slots, WritebackOut(t), NEW d \in Dbns,
         Conflicts(d) = {}, InvalidateClean(d), UNCHANGED <<dbn, ssd>>
  PROVE  LeftAlone(t)
  <1>1. t \notin Cached(d) BY WritebackOwns DEF Conflicts, Idle
  <1>2. cache_state'[t] = cache_state[t] BY <1>1 DEF InvalidateClean
  <1> QED BY <1>2 DEF LeftAlone

(* One that does may only start a writeback.                               *)
LEMMA CleanLeavesAlone ==
  ASSUME IInv, NEW t \in Slots, NEW s, CleanForInvalidate(s), UNCHANGED <<dbn, ssd>>
  PROVE  LeftAlone(t)
  BY DEF CleanForInvalidate, LeftAlone, IInv, BlockInv, SlotTypeOK

LEMMA ArrivalLeavesAlone ==
  ASSUME IInv, NEW t \in Slots, WritebackOut(t), NEW b \in Bios, BioArrives(b)
  PROVE  LeftAlone(t)
  <1>1. PICK d \in Dbns, dir \in {"READ", "WRITE"} :
          \/ MapUncached(b, d, dir) \/ MapUncachedConflict(b, d, dir) \/ MapFails(b, d, dir)
          \/ MapHit(b, d, dir) \/ MapHitBusy(b, d, dir) \/ MapMiss(b, d, dir)
    BY DEF BioArrives
  <1>2. CASE MapUncached(b, d, dir)
    BY <1>2, InvalidateLeavesAlone DEF MapUncached
  <1>3. CASE MapUncachedConflict(b, d, dir)
    BY <1>3, CleanLeavesAlone DEF MapUncachedConflict
  <1>4. CASE MapFails(b, d, dir) \/ MapHitBusy(b, d, dir)
    BY <1>4 DEF MapFails, MapHitBusy, LeftAlone, slotVars
  <1>5. CASE MapHit(b, d, dir)
    BY <1>5 DEF MapHit, LeftAlone, IInv, BlockInv, SlotTypeOK
  <1>6. CASE MapMiss(b, d, dir)
    <2>1. PICK s \in Victims, act \in Actions :
            /\ cache_state' = [cache_state EXCEPT ![s] = {"VALID", InprogBit(act)}]
            /\ dbn' = [dbn EXCEPT ![s] = d]
            /\ UNCHANGED ssd
      BY <1>6 DEF MapMiss, Actions
    <2>2. t # s BY WritebackOwns
    <2> QED BY <2>1, <2>2 DEF LeftAlone, IInv, BlockInv, SlotTypeOK
  <1> QED BY <1>1, <1>2, <1>3, <1>4, <1>5, <1>6

LEMMA UncachedLeavesAlone ==
  ASSUME IInv, NEW t \in Slots, WritebackOut(t), NEW b \in Bios, UncachedStep(b)
  PROVE  LeftAlone(t)
  <1>1. CASE UncachedIoDone(b) \/ UncachedIoCompleteFails(b)
    BY <1>1 DEF UncachedIoDone, UncachedIoCompleteFails, LeftAlone
  <1>2. CASE UncachedIoComplete(b)
    <2>1. bio[b].dbn \in Dbns BY <1>2 DEF UncachedIoComplete, IInv, RequestInv, BioInv
    <2> QED BY <1>2, <2>1, InvalidateLeavesAlone DEF UncachedIoComplete
  <1>3. CASE UncachedIoRequeue(b)
    BY <1>3, CleanLeavesAlone DEF UncachedIoRequeue
  <1> QED BY <1>1, <1>2, <1>3 DEF UncachedStep


(* The steps of a job before and during its I/O.                           *)
LEMMA IoLeavesAlone ==
  ASSUME IInv, NEW t \in Slots, WritebackOut(t), NEW s \in Slots,
         \/ StartJob(s) \/ StartJobFails(s) \/ DirtyWriteback(s) \/ DirtyWritebackFails(s)
         \/ ReadDiskDone(s) \/ ReadFillDone(s) \/ ReadCacheDone(s)
         \/ WriteCacheDone(s) \/ WriteThroughDone(s) \/ KcopydDone(s)
  PROVE  LeftAlone(t)
  <1> USE DEF LeftAlone, IInv, BlockInv, SlotTypeOK, DeviceInv, DevTypeOK,
              BlockIoInprog
  <1>1. CASE StartJob(s) \/ DirtyWriteback(s)
    BY <1>1 DEF StartJob, DirtyWriteback
  <1>2. CASE StartJobFails(s)
    <2>1. t # s BY <1>2, WritebackOwns DEF StartJobFails
    <2> QED BY <1>2, <2>1 DEF StartJobFails
  <1>3. CASE DirtyWritebackFails(s)
    BY <1>3 DEF DirtyWritebackFails
  <1>4. CASE ReadDiskDone(s)
    BY <1>4 DEF ReadDiskDone, FinishIo
  <1>5. CASE ReadCacheDone(s)
    BY <1>5 DEF ReadCacheDone, FailBio, FinishIo
  <1>6. CASE ReadFillDone(s)
    <2>1. t # s BY <1>6, WritebackOwns DEF ReadFillDone, InIo
    <2> QED BY <1>6, <2>1 DEF ReadFillDone, FailBio, FinishIo
  <1>7. CASE WriteCacheDone(s)
    <2>1. t # s BY <1>7, WritebackOwns DEF WriteCacheDone, InIo
    <2> QED BY <1>7, <2>1 DEF WriteCacheDone, FailBio, FinishIo, MdWrite
  <1>8. CASE WriteThroughDone(s)
    <2>1. t # s BY <1>8, WritebackOwns DEF WriteThroughDone, InIo
    <2> QED BY <1>8, <2>1 DEF WriteThroughDone, FinishIo
  <1>9. CASE KcopydDone(s)
    BY <1>9 DEF KcopydDone, MdWrite
  <1> QED BY <1>1, <1>2, <1>3, <1>4, <1>5, <1>6, <1>7, <1>8, <1>9

(* The pending work: a block that is given up is dirty or not, and only a  *)
(* block that is not is dropped.                                           *)
LEMMA PendingLeavesAlone ==
  ASSUME IInv, NEW t \in Slots, WritebackOut(t), NEW s \in Slots,
         \/ DoPendingError(s) \/ DoPendingErrorRetry(s)
         \/ DoPendingDirty(s) \/ DoPendingClean(s) \/ DrainDone(s)
         \/ \E b \in Bios : DrainPending(s, b) \/ DrainPendingConflict(s, b)
                            \/ DrainPendingFails(s, b)
  PROVE  LeftAlone(t)
  <1>1. CASE DoPendingError(s) \/ DoPendingErrorRetry(s)
    BY <1>1 DEF DoPendingError, DoPendingErrorRetry, GiveUpUnlessDirty, LeftAlone, IInv,
                BlockInv, SlotTypeOK, BlockIoInprog
  <1>2. CASE DoPendingDirty(s) \/ DoPendingClean(s) \/ DrainDone(s)
    BY <1>2 DEF DoPendingDirty, DoPendingClean, DrainDone, LeftAlone, IInv, BlockInv,
                SlotTypeOK, BlockIoInprog
  <1>3. ASSUME NEW b \in Bios, DrainPending(s, b) PROVE LeftAlone(t)
    <2>1. bio[b].st \in Queued BY <1>3 DEF DrainPending, IInv, QueueInv
    <2>2. bio[b].dbn \in Dbns BY <2>1 DEF IInv, RequestInv, BioInv, Queued
    <2>3. CASE bio[b].st = "queued_inval"
      BY <1>3, <2>2, <2>3, InvalidateLeavesAlone DEF DrainPending
    <2>4. CASE bio[b].st # "queued_inval"
      BY <1>3, <2>4 DEF DrainPending, LeftAlone
    <2> QED BY <2>3, <2>4
  <1>4. ASSUME NEW b \in Bios, DrainPendingConflict(s, b) PROVE LeftAlone(t)
    BY <1>4, CleanLeavesAlone DEF DrainPendingConflict
  <1>5. ASSUME NEW b \in Bios, DrainPendingFails(s, b) PROVE LeftAlone(t)
    BY <1>5 DEF DrainPendingFails, LeftAlone
  <1> QED BY <1>1, <1>2, <1>3, <1>4, <1>5

(* The metadata pipeline takes a block for clean in one place only, after  *)
(* the metadata write that says so.                                        *)
LEMMA MdLeavesAlone ==
  ASSUME IInv, NEW t \in Slots, WritebackOut(t), MdStep
  PROVE  LeftAlone(t)
  <1>1. CASE MdKickoff \/ MdKickoffFails \/ MdWriteCallback \/ MdWriteDone
    BY <1>1 DEF MdKickoff, MdKickoffFails, MdWriteCallback, MdWriteDone, LeftAlone
  <1>2. ASSUME NEW s \in Slots, MdJobDone(s) PROVE LeftAlone(t)
    <2>1. UNCHANGED <<dbn, ssd>> BY <1>2 DEF MdJobDone
    <2>2. CASE t # s
      BY <1>2, <2>1, <2>2 DEF MdJobDone, LeftAlone, IInv, BlockInv, SlotTypeOK
    <2>3. CASE t = s /\ md_error
      BY <1>2, <2>1, <2>3 DEF MdJobDone, LeftAlone, IInv, BlockInv, SlotTypeOK
    <2>4. CASE t = s /\ ~md_error
      <3>1. CleanLanded(t)
        BY <1>2, <2>4, WritebackOwns DEF MdJobDone, CleanLanded
      <3> QED BY <2>1, <2>4, <3>1 DEF LeftAlone
    <2> QED BY <2>2, <2>3, <2>4
  <1> QED BY <1>1, <1>2 DEF MdStep

(* Cleaning takes idle blocks only.                                        *)
LEMMA CleaningLeavesAlone ==
  ASSUME IInv, NEW t \in Slots, NEW S \in SUBSET Slots, CleanSet(S)
  PROVE  LeftAlone(t)
  BY DEF CleanSet, LeftAlone, devVars

-----------------------------------------------------------------------------
(* While a block is being written back, neither its identity nor its data  *)
(* changes, nor is it taken for clean before the copy is on the disk: no   *)
(* write hits it, no reclaim takes it, no invalidation drops it, and only  *)
(* the metadata update that follows the copy clears DIRTY, whatever fails. *)
THEOREM WritebackIsStable == Spec => StableDuringWriteback
  <1>1. IInv /\ [Next]_vars =>
          [\A s \in Slots :
             "DISKWRITEINPROG" \in cache_state[s] /\ crashes' = crashes =>
               /\ dbn'[s] = dbn[s] /\ ssd'[s] = ssd[s]
               /\ "DIRTY" \in cache_state[s] /\ "DIRTY" \notin cache_state'[s] =>
                    CleanLanded(s) /\ ~md_error]_vars
    <2> SUFFICES ASSUME IInv, Next, NEW t \in Slots, WritebackOut(t), crashes' = crashes
                 PROVE  LeftAlone(t)
      BY DEF LeftAlone, WritebackOut
    <2>1. ~Crash BY DEF Crash, IInv
    <2> QED BY <2>1, ArrivalLeavesAlone, UncachedLeavesAlone, IoLeavesAlone,
               PendingLeavesAlone, MdLeavesAlone, CleaningLeavesAlone DEF Next, SlotStep
  <1> QED BY <1>1, Inductive, PTL DEF Spec, StableDuringWriteback
=============================================================================
