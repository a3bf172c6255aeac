--------------------------- MODULE PfdCacheProofs ---------------------------
(***************************************************************************)
(* PfdIInv is an invariant of PfdSpec, and the properties that follow.     *)
(***************************************************************************)
EXTENDS PfdCache, TLAPS

USE DEF metaVars, ioVars, NoIo, Want, Filling

(* The entry of a block is an entry.                                       *)
LEMMA IndexType == \A d \in Dbns : IndexOf[d] \in Metas
  BY PfdAssumption

(* Nothing is held, filled or valid at the start.                          *)
LEMMA PfdInitInv == PfdInit => PfdIInv
  BY PfdAssumption DEF PfdInit, PfdIInv, PfdTypeOK, HoldersHold, HeldBlock, ValidData, FillingBlock,
     OneFiller, Holding, Fillers

(* What a lookup does, hit or miss.                                        *)
LEMMA LookupInv ==
  ASSUME PfdIInv, NEW r \in Readers, NEW d \in Dbns, LookupHit(r, d) \/ LookupMiss(r, d)
  PROVE  PfdIInv'
<1> USE DEF PfdIInv
<1>0. IndexOf[d] \in Metas /\ NoData \in Data \cup {NoData}
  BY IndexType
<1>1. PfdTypeOK'
  <2>1. CASE LookupHit(r, d)
    <3>1. reader' = [reader EXCEPT ![r] = [pc |-> "held", dbn |-> d, got |-> NoData]]
      BY <2>1 DEF LookupHit
    <3>2. holders' \in [Metas -> SUBSET Readers]
      BY <1>0, <2>1 DEF LookupHit, PfdTypeOK
    <3> QED BY <2>1, <3>1, <3>2 DEF LookupHit, PfdTypeOK
  <2>2. CASE LookupMiss(r, d)
    BY <2>2 DEF LookupMiss, PfdTypeOK
  <2> QED BY <2>1, <2>2
<1>2. HoldersHold'
  <2>1. CASE LookupHit(r, d)
    <3>1. /\ reader'[r].pc = "held" /\ reader'[r].dbn = d
          /\ \A q \in Readers \ {r} : reader'[q] = reader[q]
      BY <2>1 DEF LookupHit, PfdTypeOK
    <3>2. /\ holders'[IndexOf[d]] = holders[IndexOf[d]] \cup {r}
          /\ \A m \in Metas \ {IndexOf[d]} : holders'[m] = holders[m]
      BY <1>0, <2>1 DEF LookupHit, PfdTypeOK
    <3>3. reader[r].pc = "idle"
      BY <2>1 DEF LookupHit
    <3> QED BY <1>0, <3>1, <3>2, <3>3 DEF HoldersHold, Holding
  <2>2. CASE LookupMiss(r, d)
    <3>1. /\ reader'[r].pc = "miss" /\ reader[r].pc = "idle"
          /\ \A q \in Readers \ {r} : reader'[q] = reader[q]
          /\ holders' = holders
      BY <2>2 DEF LookupMiss, PfdTypeOK
    <3> QED BY <3>1 DEF HoldersHold, Holding
  <2> QED BY <2>1, <2>2
<1>3. HeldBlock'
  BY <1>0 DEF LookupHit, LookupMiss, PfdTypeOK, HeldBlock, Holding
<1>4. ValidData' /\ FillingBlock'
  BY DEF LookupHit, LookupMiss, ValidData, FillingBlock
<1>5. OneFiller'
  BY DEF LookupHit, LookupMiss, OneFiller, Fillers
<1> QED BY <1>1, <1>2, <1>3, <1>4, <1>5

(* Only the reader itself and the counts of its entry change when a reader *)
(* that holds an entry takes a step.                                       *)
LEMMA ReaderFrame ==
  ASSUME PfdTypeOK, NEW r \in Readers, Want(r) \in Metas,
         ReaderStep(r) \/ DownInterrupted(r)
  PROVE  /\ reader' \in [Readers -> [pc : {"idle", "held", "down", "up", "test", "copy", "put",
                                          "hit", "miss"},
                                     dbn : Dbns \cup {NoBlock}, got : Data \cup {NoData}]]
         /\ \A q \in Readers \ {r} : reader'[q] = reader[q]
         /\ reader'[r].dbn = reader[r].dbn
         /\ reader[r].pc \in Holding
         /\ UNCHANGED <<dbn_of, status, ssd_index, ioVars, prefetcher, resetting>>
         /\ \/ holders' = holders /\ reader'[r].pc \in Holding
            \/ /\ holders' = [holders EXCEPT ![Want(r)] = @ \ {r}]
               /\ reader'[r].pc \notin Holding
         /\ reader'[r].pc = "copy" => status[Want(r)] = "valid"
<1>1. CASE CheckPrepare(r)
  BY <1>1 DEF CheckPrepare, Go, PfdTypeOK, Holding
<1>2. CASE Down(r)
  BY <1>2 DEF Down, Go, PfdTypeOK, Holding
<1>3. CASE DownInterrupted(r)
  BY <1>3 DEF DownInterrupted, Go, PfdTypeOK, Holding
<1>4. CASE Up(r)
  BY <1>4 DEF Up, Go, PfdTypeOK, Holding
<1>5. CASE TestMiss(r)
  BY <1>5 DEF TestMiss, Go, PfdTypeOK, Holding
<1>6. CASE TestHit(r)
  <2>1. reader' = [reader EXCEPT ![r].pc = "copy"] /\ holders' = holders
    BY <1>6 DEF TestHit, Go
  <2> QED BY <1>6, <2>1 DEF TestHit, PfdTypeOK, Holding
<1>7. CASE Put(r)
  BY <1>7 DEF Put, Go, PfdTypeOK, Holding
<1>8. CASE Copy(r)
  <2>1. data[Want(r)] \in Data \cup {NoData} BY DEF PfdTypeOK
  <2>2. reader' = [reader EXCEPT ![r] = [reader[r] EXCEPT !.pc = "put", !.got = data[Want(r)]]]
    BY <1>8 DEF Copy, PfdTypeOK
  <2>3. [reader[r] EXCEPT !.pc = "put", !.got = data[Want(r)]]
          \in [pc : {"idle", "held", "down", "up", "test", "copy", "put", "hit", "miss"},
              dbn : Dbns \cup {NoBlock}, got : Data \cup {NoData}]
    <3>1. reader[r] \in [pc : {"idle", "held", "down", "up", "test", "copy", "put", "hit", "miss"},
                         dbn : Dbns \cup {NoBlock}, got : Data \cup {NoData}]
      BY DEF PfdTypeOK
    <3> HIDE DEF Want
    <3> QED BY <2>1, <3>1
  <2>4. reader[r].pc \in Holding /\ reader'[r].pc \in Holding /\ reader'[r].pc # "copy"
        /\ reader'[r].dbn = reader[r].dbn
    BY <1>8, <2>2 DEF Copy, PfdTypeOK, Holding
  <2>5. reader' \in [Readers -> [pc : {"idle", "held", "down", "up", "test", "copy", "put",
                                      "hit", "miss"},
                                 dbn : Dbns \cup {NoBlock}, got : Data \cup {NoData}]]
    BY <2>2, <2>3 DEF PfdTypeOK
  <2>6. \A q \in Readers \ {r} : reader'[q] = reader[q] BY <2>2 DEF PfdTypeOK
  <2>7. holders' = holders /\ UNCHANGED <<dbn_of, status, ssd_index, ioVars, prefetcher, resetting>>
    BY <1>8 DEF Copy, metaVars
  <2> QED BY <2>4, <2>5, <2>6, <2>7
<1> QED BY <1>1, <1>2, <1>3, <1>4, <1>5, <1>6, <1>7, <1>8 DEF ReaderStep

(* The steps of a reader that holds an entry.                              *)
LEMMA ReaderInv ==
  ASSUME PfdIInv, NEW r \in Readers, ReaderStep(r) \/ DownInterrupted(r)
  PROVE  PfdIInv'
<1> USE DEF PfdIInv
<1> DEFINE m == IndexOf[reader[r].dbn]
<1>a. reader[r].pc \in Holding
  BY DEF ReaderStep, DownInterrupted, CheckPrepare, Down, Up, TestMiss, TestHit, Copy, Put, Holding
<1>0. reader[r].dbn \in Dbns /\ m \in Metas
  BY <1>a, IndexType DEF HeldBlock
<1>1. PfdTypeOK'
  <2>1. prepare_lock' \in [Metas -> Nat]
    BY <1>0 DEF ReaderStep, DownInterrupted, CheckPrepare, Down, Up, TestMiss, TestHit, Copy, Put, PfdTypeOK
  <2>2. holders' \in [Metas -> SUBSET Readers]
    <3>1. CASE holders' = holders
      BY <3>1 DEF PfdTypeOK
    <3>2. CASE holders' = [holders EXCEPT ![m] = @ \ {r}]
      BY <3>2, <1>0 DEF PfdTypeOK
    <3> QED BY <1>0, <3>1, <3>2, ReaderFrame
  <2> QED BY <1>0, <2>1, <2>2, ReaderFrame DEF PfdTypeOK
<1>2. HoldersHold'
  <2>1. CASE holders' = holders /\ reader'[r].pc \in Holding
    BY <1>0, <1>a, <2>1, ReaderFrame DEF HoldersHold
  <2>2. CASE /\ holders' = [holders EXCEPT ![m] = @ \ {r}]
             /\ reader'[r].pc \notin Holding
    <3>1. /\ holders'[m] = holders[m] \ {r}
          /\ \A n \in Metas \ {m} : holders'[n] = holders[n]
      BY <1>0, <2>2 DEF PfdTypeOK
    <3> QED BY <1>0, <1>a, <2>2, <3>1, ReaderFrame DEF HoldersHold
  <2> QED BY <1>0, <2>1, <2>2, ReaderFrame
<1>3. HeldBlock'
  BY <1>0, <1>a, ReaderFrame DEF HeldBlock
<1>4. ValidData' /\ FillingBlock' /\ OneFiller'
  BY <1>0, ReaderFrame DEF ValidData, FillingBlock, OneFiller, Fillers
<1> QED BY <1>1, <1>2, <1>3, <1>4

(* An entry that nobody holds or fills is taken for another block.         *)
LEMMA SetupInv ==
  ASSUME PfdIInv, NEW p \in Prefetchers, NEW d \in Dbns, Setup(p, d)
  PROVE  PfdIInv'
<1> USE DEF PfdIInv
<1> DEFINE m == IndexOf[d]
<1>0. m \in Metas /\ status[m] # "prepare" /\ holders[m] = {}
  BY IndexType DEF Setup, Busy
<1>1. PfdTypeOK'
  BY <1>0 DEF Setup, PfdTypeOK
<1>2. HoldersHold'
  BY DEF Setup, HoldersHold
<1>3. HeldBlock'
  BY <1>0 DEF Setup, PfdTypeOK, HoldersHold, HeldBlock
<1>4. ValidData' /\ FillingBlock'
  BY <1>0 DEF Setup, PfdTypeOK, ValidData, FillingBlock
<1>5. OneFiller'
  <2>1. io[m] = NoIo /\ Fillers(m) = {}
    BY <1>0 DEF OneFiller
  <2>2. Fillers(m)' = {p} /\ status'[m] = "prepare" /\ io' = io
    BY <1>0, <2>1 DEF Setup, Fillers, PfdTypeOK
  <2>3. \A n \in Metas \ {m} : Fillers(n)' = Fillers(n) /\ status'[n] = status[n] /\ dbn_of'[n] = dbn_of[n]
    BY <1>0 DEF Setup, Fillers, PfdTypeOK
  <2> QED BY <1>0, <2>1, <2>2, <2>3 DEF OneFiller
<1> QED BY <1>1, <1>2, <1>3, <1>4, <1>5

(* A thread that has taken an entry keeps it until it has sent the I/O, or *)
(* failed to.                                                              *)
LEMMA PrefetchFrame ==
  ASSUME PfdTypeOK, NEW p \in Prefetchers, PrefetchStep(p)
  PROVE  /\ prefetcher' \in [Prefetchers -> [pc : {"idle", "setup", "dispatch"},
                                             dbn : Dbns \cup {NoBlock}]]
         /\ \A q \in Prefetchers \ {p} : prefetcher'[q] = prefetcher[q]
         /\ prefetcher[p].pc # "idle"
         /\ UNCHANGED <<dbn_of, holders, callback, reader, resetting>>
         /\ \/ /\ prefetcher'[p].pc # "idle" /\ prefetcher'[p].dbn = prefetcher[p].dbn
               /\ UNCHANGED <<status, prepare_lock, data, io>>
            \/ prefetcher'[p].pc = "idle" /\ (Dispatch(p) \/ DispatchFails(p))
<1>1. CASE \E s \in Slots : UseSsd(p, s)
  BY <1>1 DEF UseSsd, PfdTypeOK
<1>2. CASE UseDisk(p)
  BY <1>2 DEF UseDisk, PfdTypeOK
<1>3. CASE Dispatch(p)
  BY <1>3 DEF Dispatch, PfdTypeOK
<1>4. CASE DispatchFails(p)
  BY <1>4 DEF DispatchFails, PfdTypeOK
<1> QED BY <1>1, <1>2, <1>3, <1>4 DEF PrefetchStep

(* A thread that has taken an entry chooses a device and sends the I/O, or *)
(* gives the entry up.                                                     *)
LEMMA PrefetchInv ==
  ASSUME PfdIInv, NEW p \in Prefetchers, PrefetchStep(p)
  PROVE  PfdIInv'
<1> USE DEF PfdIInv
<1>d. prefetcher[p].dbn \in Dbns
  BY PrefetchFrame DEF FillingBlock
<1>m. PICK m \in Metas : m = IndexOf[prefetcher[p].dbn]
  BY <1>d, IndexType
<1>0. m \in Metas /\ m = IndexOf[prefetcher[p].dbn] /\ p \in Fillers(m)
  BY <1>m, PrefetchFrame DEF Fillers
<1>a. status[m] = "prepare" /\ io[m] = NoIo /\ Fillers(m) = {p} /\ dbn_of[m] \in Dbns
  BY <1>0 DEF OneFiller, ValidData
<1>b. \A n \in Metas \ {m} : Fillers(n)' = Fillers(n)
  <2> SUFFICES ASSUME NEW n \in Metas \ {m}, NEW q \in Prefetchers
               PROVE  q \in Fillers(n)' <=> q \in Fillers(n)
    BY DEF Fillers
  <2>1. CASE q = p
    BY <1>0, <2>1, PrefetchFrame DEF Fillers, PrefetchStep, Dispatch, DispatchFails
  <2>2. CASE q # p
    BY <2>2, PrefetchFrame DEF Fillers
  <2> QED BY <2>1, <2>2
<1>c. FillingBlock'
  BY PrefetchFrame DEF FillingBlock
<1>1. CASE /\ prefetcher'[p].pc # "idle" /\ prefetcher'[p].dbn = prefetcher[p].dbn
           /\ UNCHANGED <<status, prepare_lock, data, io>>
  <2>1. ssd_index' \in [Metas -> Slots \cup {NoBlock}]
    BY <1>0 DEF PrefetchStep, UseSsd, UseDisk, Dispatch, DispatchFails, PfdTypeOK
  <2>2. PfdTypeOK'
    BY <1>1, <2>1, PrefetchFrame DEF PfdTypeOK
  <2>3. HoldersHold' /\ HeldBlock' /\ ValidData'
    BY <1>1, PrefetchFrame DEF HoldersHold, HeldBlock, ValidData
  <2>4. Fillers(m)' = {p}
    <3>1. \A q \in Prefetchers : q \in Fillers(m)' <=> q \in Fillers(m)
      BY <1>0, <1>1, PrefetchFrame DEF Fillers
    <3> QED BY <1>a, <3>1 DEF Fillers
  <2>5. OneFiller'
    <3> SUFFICES ASSUME NEW n \in Metas PROVE OneFiller!(n)'
      BY DEF OneFiller
    <3>1. CASE n = m
      BY <3>1, <1>a, <1>1, <2>4
    <3>2. CASE n # m
      BY <3>2, <1>b, <1>1, PrefetchFrame DEF OneFiller
    <3> QED BY <3>1, <3>2
  <2> QED BY <1>c, <2>2, <2>3, <2>5
<1>2. ASSUME prefetcher'[p].pc = "idle"
      PROVE  Fillers(m)' = {}
  <2>1. \A q \in Prefetchers : q # p => q \notin Fillers(m)
    BY <1>a
  <2>2. \A q \in Prefetchers : q \notin Fillers(m)'
    BY <1>0, <1>2, <2>1, PrefetchFrame DEF Fillers
  <2> QED BY <2>2 DEF Fillers
<1>3. CASE prefetcher'[p].pc = "idle" /\ Dispatch(p)
  <2>1. PfdTypeOK'
    BY <1>0, <1>a, <1>3 DEF Dispatch, PfdTypeOK
  <2>2. HoldersHold' /\ HeldBlock' /\ ValidData'
    BY <1>0, <1>a, <1>3 DEF Dispatch, PfdTypeOK, HoldersHold, HeldBlock, ValidData
  <2>3. /\ io'[m].dbn = dbn_of[m] /\ io'[m] # NoIo
        /\ \A n \in Metas \ {m} : io'[n] = io[n]
        /\ status' = status /\ dbn_of' = dbn_of
    BY <1>0, <1>a, <1>3, PfdAssumption DEF Dispatch, PfdTypeOK
  <2>4. OneFiller'
    <3> SUFFICES ASSUME NEW n \in Metas PROVE OneFiller!(n)'
      BY DEF OneFiller
    <3>1. CASE n = m
      BY <3>1, <1>0, <1>a, <1>2, <1>3, <2>3 DEF OneFiller
    <3>2. CASE n # m
      BY <3>2, <1>b, <2>3 DEF OneFiller
    <3> QED BY <3>1, <3>2
  <2> QED BY <1>c, <2>1, <2>2, <2>4
<1>4. CASE prefetcher'[p].pc = "idle" /\ DispatchFails(p)
  <2>1. PfdTypeOK'
    BY <1>0, <1>4 DEF DispatchFails, PfdTypeOK
  <2>2. HoldersHold' /\ ValidData' /\ HeldBlock'
    BY <1>0, <1>a, <1>4 DEF DispatchFails, PfdTypeOK, HoldersHold, ValidData, HeldBlock
  <2>3. /\ status'[m] = "empty" /\ io' = io /\ dbn_of' = dbn_of
        /\ \A n \in Metas \ {m} : status'[n] = status[n]
    BY <1>0, <1>4 DEF DispatchFails, PfdTypeOK
  <2>4. OneFiller'
    <3> SUFFICES ASSUME NEW n \in Metas PROVE OneFiller!(n)'
      BY DEF OneFiller
    <3>1. CASE n = m
      BY <3>1, <1>0, <1>a, <1>2, <1>4, <2>3 DEF OneFiller
    <3>2. CASE n # m
      BY <3>2, <1>b, <2>3 DEF OneFiller
    <3> QED BY <3>1, <3>2
  <2> QED BY <1>c, <2>1, <2>2, <2>4
<1> QED BY <1>1, <1>3, <1>4, PrefetchFrame

(* The I/O of an entry ends.                                               *)
LEMMA CallbackInv ==
  ASSUME PfdIInv, NEW m \in Metas, CallbackStep(m)
  PROVE  PfdIInv'
<1> USE DEF PfdIInv
<1>1. CASE CallbackStatus(m, io[m].dbn)
  <2>0. /\ status[m] = "prepare" /\ Fillers(m) = {} /\ io[m].dbn = dbn_of[m]
        /\ dbn_of[m] \in Dbns /\ io[m].dbn \in Data
    BY <1>1, PfdAssumption DEF CallbackStatus, OneFiller, ValidData
  <2>1. PfdTypeOK'
    BY <1>1, <2>0 DEF CallbackStatus, PfdTypeOK
  <2>2. HoldersHold' /\ FillingBlock'
    BY <1>1 DEF CallbackStatus, HoldersHold, FillingBlock
  <2>3. /\ status'[m] \in {"empty", "valid"} /\ io'[m] = NoIo
        /\ status'[m] = "valid" => data'[m] = dbn_of[m]
        /\ \A n \in Metas \ {m} : status'[n] = status[n] /\ data'[n] = data[n] /\ io'[n] = io[n]
        /\ UNCHANGED <<dbn_of, reader, prefetcher>>
    BY <1>1, <2>0 DEF CallbackStatus, PfdTypeOK
  <2>4. HeldBlock'
    BY <2>0, <2>3, IndexType DEF HeldBlock
  <2>5. ValidData'
    BY <2>0, <2>3 DEF ValidData
  <2>6. OneFiller'
    <3> SUFFICES ASSUME NEW n \in Metas PROVE OneFiller!(n)'
      BY DEF OneFiller
    <3>1. Fillers(n)' = Fillers(n)
      BY <2>3 DEF Fillers
    <3>2. CASE n = m
      BY <3>1, <3>2, <2>0, <2>3
    <3>3. CASE n # m
      BY <3>1, <3>3, <2>3 DEF OneFiller
    <3> QED BY <3>2, <3>3
  <2> QED BY <2>1, <2>2, <2>4, <2>5, <2>6
<1>2. CASE CallbackUp(m) \/ CallbackRelease(m)
  <2>1. PfdTypeOK'
    <3>1. CASE CallbackUp(m)
      BY <3>1 DEF CallbackUp, PfdTypeOK
    <3>2. CASE CallbackRelease(m)
      BY <3>2 DEF CallbackRelease, PfdTypeOK
    <3> QED BY <1>2, <3>1, <3>2
  <2>2. HoldersHold' /\ FillingBlock' /\ HeldBlock' /\ ValidData' /\ OneFiller'
    BY <1>2 DEF CallbackUp, CallbackRelease, HoldersHold, FillingBlock, HeldBlock, ValidData, OneFiller, Fillers
  <2> QED BY <2>1, <2>2
<1> QED BY <1>1, <1>2 DEF CallbackStep

(* A reset empties entries that are idle.                                  *)
LEMMA ResetInv ==
  ASSUME PfdIInv, ResetStarts \/ \E m \in Metas : ResetMeta(m)
  PROVE  PfdIInv'
<1> USE DEF PfdIInv
<1>1. CASE ResetStarts
  BY <1>1 DEF ResetStarts, PfdTypeOK, HoldersHold, HeldBlock, ValidData, FillingBlock, OneFiller, Fillers
<1>2. ASSUME NEW m \in Metas, ResetMeta(m) PROVE PfdIInv'
  <2>1. PfdTypeOK'
    BY <1>2 DEF ResetMeta, PfdTypeOK
  <2>2. HoldersHold' /\ FillingBlock' /\ ValidData'
    BY <1>2 DEF ResetMeta, PfdTypeOK, HoldersHold, FillingBlock, ValidData
  <2>3. HeldBlock'
    BY <1>2, IndexType DEF ResetMeta, Busy, PfdTypeOK, HoldersHold, HeldBlock
  <2>4. OneFiller'
    BY <1>2 DEF ResetMeta, Busy, PfdTypeOK, OneFiller, Fillers
  <2> QED BY <2>1, <2>2, <2>3, <2>4
<1> QED BY <1>1, <1>2

(* PfdIInv is inductive.                                                   *)
LEMMA PfdStepInv == PfdIInv /\ [PfdNext]_pfdVars => PfdIInv'
<1> SUFFICES ASSUME PfdIInv, [PfdNext]_pfdVars PROVE PfdIInv'
  OBVIOUS
<1>1. CASE UNCHANGED pfdVars
  BY <1>1 DEF pfdVars, PfdIInv, PfdTypeOK, HoldersHold, HeldBlock, ValidData, FillingBlock, OneFiller, Fillers
<1>2. CASE PfdNext
  BY <1>2, LookupInv, ReaderInv, SetupInv, PrefetchInv, CallbackInv, ResetInv DEF PfdNext
<1> QED BY <1>1, <1>2

(* The inductive invariant holds for every number of entries, blocks,      *)
(* readers and threads, with failing I/O, interrupted waits and resets.    *)
THEOREM PfdInductive == PfdSpec => []PfdIInv
  BY PfdInitInv, PfdStepInv, PTL DEF PfdSpec

(* Two prefetches never fill the same entry, and none fills a valid one.   *)
THEOREM EntriesHaveOneFiller == PfdSpec => []OneFiller
<1>1. PfdIInv => OneFiller
  BY DEF PfdIInv
<1> QED BY <1>1, PfdInductive, PTL

(* A reader only copies memory that holds its block and that no I/O        *)
(* writes.                                                                 *)
THEOREM ReadersCopyTheirBlock == PfdSpec => []CopiesItsBlock
<1>1. PfdIInv => CopiesItsBlock
  BY IndexType, PfdAssumption DEF PfdIInv, CopiesItsBlock, HeldBlock, Holding, ValidData, OneFiller
<1> QED BY <1>1, PfdInductive, PTL

(* An entry that is held keeps its block, and stays valid once it is.      *)
THEOREM HeldEntriesStay == PfdSpec => HeldStaysPut
<1> DEFINE Stays == \A m \in Metas : holders[m] # {} =>
                      /\ dbn_of'[m] = dbn_of[m]
                      /\ status[m] = "valid" => status'[m] = "valid"
<1>1. PfdIInv /\ [PfdNext]_pfdVars => [Stays]_pfdVars
  <2> SUFFICES ASSUME PfdIInv, PfdNext PROVE Stays
    BY DEF pfdVars
  <2> USE DEF PfdIInv
  <2>1. CASE \E r \in Readers, d \in Dbns : LookupHit(r, d) \/ LookupMiss(r, d)
    BY <2>1 DEF LookupHit, LookupMiss
  <2>2. CASE \E r \in Readers : ReaderStep(r) \/ DownInterrupted(r)
    BY <2>2 DEF ReaderStep, DownInterrupted, CheckPrepare, Down, Up, TestMiss, TestHit, Copy, Put
  <2>3. ASSUME NEW p \in Prefetchers, NEW d \in Dbns, Setup(p, d) PROVE Stays
    BY <2>3, IndexType DEF Setup, Busy, PfdTypeOK
  <2>4. ASSUME NEW p \in Prefetchers, PrefetchStep(p) PROVE Stays
    <3>1. CASE DispatchFails(p)
      <4>1. prefetcher[p].dbn \in Dbns /\ IndexOf[prefetcher[p].dbn] \in Metas
        BY <3>1, IndexType DEF DispatchFails, FillingBlock
      <4>2. status[IndexOf[prefetcher[p].dbn]] = "prepare"
        BY <3>1, <4>1 DEF DispatchFails, OneFiller, Fillers
      <4> QED BY <3>1, <4>1, <4>2 DEF DispatchFails, PfdTypeOK
    <3>2. CASE ~DispatchFails(p)
      BY <2>4, <3>2 DEF PrefetchStep, UseSsd, UseDisk, Dispatch
    <3> QED BY <3>1, <3>2
  <2>5. ASSUME NEW m \in Metas, CallbackStep(m) PROVE Stays
    <3>1. CASE CallbackStatus(m, io[m].dbn)
      <4>1. status[m] = "prepare"
        BY <3>1 DEF CallbackStatus, OneFiller
      <4> QED BY <3>1, <4>1 DEF CallbackStatus, PfdTypeOK
    <3>2. CASE CallbackUp(m) \/ CallbackRelease(m)
      BY <3>2 DEF CallbackUp, CallbackRelease
    <3> QED BY <2>5, <3>1, <3>2 DEF CallbackStep
  <2>6. CASE ResetStarts
    BY <2>6 DEF ResetStarts
  <2>7. ASSUME NEW m \in Metas, ResetMeta(m) PROVE Stays
    BY <2>7 DEF ResetMeta, Busy, PfdTypeOK
  <2> QED BY <2>1, <2>2, <2>3, <2>4, <2>5, <2>6, <2>7 DEF PfdNext
<1> QED BY <1>1, PfdInductive, PTL DEF PfdSpec, HeldStaysPut
=============================================================================
