------------------------- MODULE FlashcacheWtProofs -------------------------
(***************************************************************************)
(* Three invariants of FlashcacheWt for every size of the cache and every  *)
(* finite number of bios.  A slot in use has one owner, and nr_jobs counts *)
(* the jobs, so that nothing but the wake_up of a last job outlives its    *)
(* context: neither is inductive alone, for that a slot which can be       *)
(* claimed has no owner, and that a context with nr_jobs = 0 has no job,   *)
(* come from both.  And when the bios to a block are kept apart the cache  *)
(* is current, which rests on both.                                        *)
(***************************************************************************)
EXTENDS FlashcacheWt, FiniteSetTheorems, TLAPS

(* What the use of a job says of it.                                       *)
JobShape ==
  \A b \in Bios :
    /\ bio[b].rw \in Uses => bio[b].index \in Slots
    /\ ~Out(b) => bio[b].io = "new"

WtIInv == OneOwner /\ OnlyWakeUpsRemain /\ JobShape

(* Out only names two values of rw.                                        *)
USE DEF Out

-----------------------------------------------------------------------------
(* The arithmetic of the sets                                              *)

LEMMA SlotFacts ==
  /\ Slots \subseteq Int
  /\ \A d \in Dbns : SetOfDbn(d) \in Sets
  /\ None \notin Dbns /\ -1 \notin Slots
  BY WtAssumption DEF Slots

(* Quotient and remainder are unique.                                      *)
LEMMA Quotient ==
  ASSUME NEW a \in Int, a > 0, NEW q \in Int, NEW r \in Int, 0 <= r, r < a
  PROVE  /\ (a * q + r) \div a = q
         /\ (a * q + r) % a = r
<1> DEFINE n == a * q + r
           p == n \div a
           s == n % a
<1>1. n \in Int /\ p \in Int /\ s \in Int /\ n = a * p + s /\ 0 <= s /\ s < a
  OBVIOUS
<1>2. a * (p - q) = r - s /\ -a < r - s /\ r - s < a
  BY <1>1
<1>3. p - q = 0
  <2> DEFINE z == p - q
  <2>1. z \in Int /\ a * z < a /\ -a < a * z
    BY <1>1, <1>2
  <2> HIDE DEF z
  <2>2. ~(z >= 1)
    BY <2>1
  <2>3. ~(z <= -1)
    BY <2>1
  <2> QED BY <2>1, <2>2, <2>3 DEF z
<1> QED BY <1>1, <1>3

(* The sweep of reclaim stays in its set.                                  *)
LEMMA AfterInSet ==
  ASSUME NEW t \in Sets, NEW i \in SlotsOf(t)
  PROVE  After(i) \in SlotsOf(t)
<1> DEFINE q == i \div Assoc
           r == i % Assoc
           k == Size \div Assoc
<1>1. /\ i \in Int /\ 0 <= i /\ i < Size /\ Assoc \in Int /\ Assoc > 0
      /\ Size \in Int /\ Size % Assoc = 0 /\ t = q
  BY WtAssumption DEF SlotsOf, Slots, SetOf
<1>2. q \in Int /\ r \in Int /\ i = Assoc * q + r /\ 0 <= r /\ r < Assoc
  BY <1>1
<1>3. k \in Int /\ Size = Assoc * k
  BY <1>1
<1> HIDE DEF q, r, k
<1>4. q >= 0 /\ q < k
  <2>1. ~(q <= -1)
    BY <1>1, <1>2
  <2>2. ~(q >= k)
    BY <1>1, <1>2, <1>3
  <2> QED BY <1>2, <1>3, <2>1, <2>2
<1>5. CASE r + 1 = Assoc
  <2>1. i + 1 = Assoc * (q + 1) + 0 /\ i + 1 - Assoc = Assoc * q + 0
    BY <1>1, <1>2, <1>5
  <2>2. (i + 1) % Assoc = 0 /\ (i + 1 - Assoc) \div Assoc = q
    BY <1>1, <1>2, <2>1, Quotient
  <2>3. i + 1 - Assoc >= 0
    BY <1>1, <1>2, <1>4, <2>1
  <2> QED BY <1>1, <2>2, <2>3 DEF After, SlotsOf, Slots, SetOf
<1>6. CASE r + 1 < Assoc
  <2>1. i + 1 = Assoc * q + (r + 1) /\ r + 1 \in Int /\ 0 <= r + 1
    BY <1>1, <1>2
  <2>2. (i + 1) % Assoc = r + 1 /\ (i + 1) \div Assoc = q
    BY <1>1, <1>2, <1>6, <2>1, Quotient
  <2>3. i + 1 < Size
    BY <1>1, <1>2, <1>3, <1>4, <1>6, <2>1
  <2> QED BY <1>1, <1>2, <2>2, <2>3 DEF After, SlotsOf, Slots, SetOf
<1> QED BY <1>1, <1>2, <1>5, <1>6

(* The sweep starts at the first slot of a set.                            *)
LEMMA FirstInSet ==
  ASSUME NEW t \in Sets
  PROVE  t * Assoc \in SlotsOf(t)
<1>1. PICK i \in Slots : t = SetOf(i)
  BY DEF Sets
<1> DEFINE q == i \div Assoc
           r == i % Assoc
<1>2. /\ i \in Int /\ 0 <= i /\ i < Size /\ Assoc \in Int /\ Assoc > 0
      /\ Size \in Int /\ t = q
  BY <1>1, WtAssumption DEF Slots, SetOf
<1>3. q \in Int /\ r \in Int /\ i = Assoc * q + r /\ 0 <= r /\ r < Assoc
  BY <1>2
<1> HIDE DEF q, r
<1>4. q >= 0
  <2>1. ~(q <= -1)
    BY <1>2, <1>3
  <2> QED BY <1>3, <2>1
<1>5. q * Assoc = Assoc * q + 0 /\ q * Assoc \in Int /\ q * Assoc >= 0 /\ q * Assoc < Size
  BY <1>2, <1>3, <1>4
<1>6. (q * Assoc) \div Assoc = q
  BY <1>2, <1>3, <1>5, Quotient
<1> QED BY <1>2, <1>5, <1>6 DEF SlotsOf, Slots, SetOf

-----------------------------------------------------------------------------
(* The count of the jobs, when only the bio of b changes.                  *)
LEMMA JobCount ==
  ASSUME nr_jobs = Cardinality(Jobs), NEW b \in Bios,
         \A c \in Bios \ {b} : c \in Jobs' <=> c \in Jobs
  PROVE  /\ b \in Jobs /\ b \notin Jobs' => Cardinality(Jobs') = nr_jobs - 1
         /\ b \notin Jobs /\ b \in Jobs' => Cardinality(Jobs') = nr_jobs + 1
         /\ (b \in Jobs <=> b \in Jobs') => Cardinality(Jobs') = nr_jobs
         /\ nr_jobs \in Nat
         /\ Jobs # {} => nr_jobs > 0
<1>1. Jobs \subseteq Bios /\ Jobs' \subseteq Bios
  BY DEF Jobs
<1>2. IsFiniteSet(Jobs) /\ IsFiniteSet(Jobs')
  BY <1>1, WtAssumption, FS_Subset
<1>3. nr_jobs \in Nat
  BY <1>2, FS_CardinalityType
<1>4. ASSUME b \in Jobs, b \notin Jobs' PROVE Cardinality(Jobs') = nr_jobs - 1
  <2>1. Jobs' = Jobs \ {b}
    BY <1>1, <1>4
  <2> QED BY <1>2, <1>4, <2>1, FS_RemoveElement
<1>5. ASSUME b \notin Jobs, b \in Jobs' PROVE Cardinality(Jobs') = nr_jobs + 1
  <2>1. Jobs' = Jobs \cup {b}
    BY <1>1, <1>5
  <2> QED BY <1>2, <1>5, <2>1, FS_AddElement
<1>6. ASSUME b \in Jobs <=> b \in Jobs' PROVE Cardinality(Jobs') = nr_jobs
  <2>1. Jobs' = Jobs
    BY <1>1, <1>6
  <2> QED BY <2>1
<1>7. ASSUME Jobs # {} PROVE nr_jobs > 0
  BY <1>2, <1>3, <1>7, FS_EmptySet
<1> QED BY <1>3, <1>4, <1>5, <1>6, <1>7

(* What an invalidation leaves of each slot.                               *)
LEMMA InvalidatedSlot ==
  ASSUME WtTypeOK, NEW d, NEW i \in Slots
  PROVE  /\ Invalidated(cache, d)[i] \in SlotType
         /\ cache[i].state \in {"INVALID", "VALID"}
              => Invalidated(cache, d)[i].state \in {"INVALID", "VALID"}
         /\ cache[i].state \notin {"INVALID", "VALID"}
              => Invalidated(cache, d)[i].state \in {cache[i].state, "INPROG_INVALID"}
  BY DEF WtTypeOK, SlotType, BioType, Invalidated, FindValid, In, Empty, States, Usable, SlotsOf

LEMMA InvalidatedType ==
  ASSUME WtTypeOK, NEW d
  PROVE  Invalidated(cache, d) \in [Slots -> SlotType]
<1>1. \A i \in Slots : Invalidated(cache, d)[i] \in SlotType
  BY InvalidatedSlot
<1> QED BY <1>1 DEF Invalidated

(* At first nothing is in use.                                             *)
LEMMA InitInv == Init => WtIInv
<1> SUFFICES ASSUME Init PROVE WtIInv
  OBVIOUS
<1>1. WtTypeOK
  <2>1. set_lru_next \in Sweeps
    BY FirstInSet DEF Init, Sweeps, SlotsOf
  <2> QED BY <2>1 DEF Init, WtTypeOK, SlotType, BioType, Empty, NoBio, States
<1>2. OneOwner
  BY <1>1 DEF Init, OneOwner, Holders, Empty, NoBio, Uses, Source
<1>3. Jobs = {}
  BY DEF Init, Jobs, NoBio
<1>4. OnlyWakeUpsRemain
  BY <1>3, FS_EmptySet DEF Init, OnlyWakeUpsRemain, NoBio
<1>5. JobShape
  BY DEF Init, JobShape, NoBio, Uses, Source
<1> QED BY <1>2, <1>4, <1>5 DEF WtIInv

-----------------------------------------------------------------------------
(* Ownership across a step: slot i may change its data, or be marked       *)
(* INPROG_INVALID, whoever owns it.                                        *)
Free == {"INVALID", "VALID"}
Kept(i) ==
  IF cache[i].state \in Free THEN cache'[i].state \in Free
  ELSE cache'[i].state \in {cache[i].state, "INPROG_INVALID"}

OthersKept(b) ==
  \A c \in Bios \ {b} : bio'[c].rw = bio[c].rw /\ bio'[c].index = bio[c].index

Reading == {"READCACHE", "READCACHE_DONE"}
Filling == Source \cup {"WRITECACHE"}

(* A bio that owns nothing gets nothing.                                   *)
LEMMA OwnerUnchanged ==
  ASSUME OneOwner, JobShape, WtTypeOK', NEW b \in Bios, OthersKept(b),
         bio[b].rw \notin Uses, bio'[b].rw \notin Uses,
         \A i \in Slots : Kept(i)
  PROVE  OneOwner'
<1>1. \A i \in Slots : Holders(i)' = Holders(i)
  BY DEF OthersKept, Holders
<1>2. \A c \in Bios : bio'[c].rw \in Uses => bio[c].rw = bio'[c].rw /\ bio[c].index = bio'[c].index
  BY DEF OthersKept
<1>3. \A c \in Bios : bio[c].rw \in Uses => bio[c].index \in Slots
  BY DEF JobShape
<1> QED
  BY <1>1, <1>2, <1>3 DEF OneOwner, Kept, Free, Uses, Source, State

(* The owner of a slot goes on with it.                                    *)
LEMMA OwnerStays ==
  ASSUME OneOwner, JobShape, WtTypeOK', NEW b \in Bios, OthersKept(b),
         bio'[b].index = bio[b].index,
         \/ bio[b].rw \in Reading /\ bio'[b].rw \in Reading
         \/ bio[b].rw \in Filling /\ bio'[b].rw \in Filling,
         \A i \in Slots : Kept(i)
  PROVE  OneOwner'
<1>1. \A c \in Bios : bio'[c].rw \in Uses <=> bio[c].rw \in Uses
  BY DEF OthersKept, Reading, Filling, Uses
<1>2. \A c \in Bios : bio'[c].index = bio[c].index
  BY DEF OthersKept
<1>3. \A i \in Slots : Holders(i)' = Holders(i)
  BY <1>1, <1>2 DEF Holders
<1>4. \A c \in Bios : bio[c].rw \in Uses => bio[c].index \in Slots
  BY DEF JobShape
<1>5. \A c \in Bios :
        /\ bio'[c].rw \in Reading => bio[c].rw \in Reading
        /\ bio'[c].rw \in Filling => bio[c].rw \in Filling
  BY DEF OthersKept, Reading, Filling, Source
<1>6. \A c \in Bios :
        /\ bio[c].rw \in Reading => State(c) \in {"CACHEREADINPROG", "INPROG_INVALID"}
        /\ bio[c].rw \in Filling => State(c) \in {"INPROG", "INPROG_INVALID"}
  BY DEF OneOwner, Reading, Filling
<1>7. \A c \in Bios :
        /\ bio'[c].rw \in Reading => State(c)' \in {"CACHEREADINPROG", "INPROG_INVALID"}
        /\ bio'[c].rw \in Filling => State(c)' \in {"INPROG", "INPROG_INVALID"}
  BY <1>2, <1>4, <1>5, <1>6 DEF State, Kept, Free, Uses, Reading, Filling
<1> QED
  BY <1>3, <1>7 DEF OneOwner, Kept, Free, Reading, Filling

(* A bio takes slot i, which has no owner.                                 *)
LEMMA OwnerComes ==
  ASSUME OneOwner, JobShape, WtTypeOK', NEW b \in Bios, OthersKept(b), NEW i \in Slots,
         bio[b].rw \notin Uses, cache[i].state \in Free, bio'[b].index = i,
         \/ bio'[b].rw \in Reading /\ cache'[i].state = "CACHEREADINPROG"
         \/ bio'[b].rw \in Filling /\ cache'[i].state = "INPROG",
         \A j \in Slots \ {i} : Kept(j)
  PROVE  OneOwner'
<1>1. Holders(i) = {}
  BY DEF OneOwner, Free
<1>2. Holders(i)' = {b}
  BY <1>1 DEF OthersKept, Holders, Uses, Reading, Filling
<1>3. \A j \in Slots \ {i} : Holders(j)' = Holders(j)
  BY DEF OthersKept, Holders
<1>4. \A c \in Bios \ {b} : bio[c].rw \in Uses => bio[c].index \in Slots \ {i}
  BY <1>1 DEF JobShape, Holders
<1>5. \A j \in Slots :
        /\ cache'[j].state \notin {"INVALID", "VALID"} <=> Holders(j)' # {}
        /\ \A c, e \in Holders(j)' : c = e
  BY <1>2, <1>3 DEF OneOwner, Kept, Free
<1>6. \A c \in Bios \ {b} :
        /\ bio'[c].rw \in Reading => State(c)' \in {"CACHEREADINPROG", "INPROG_INVALID"}
        /\ bio'[c].rw \in Filling => State(c)' \in {"INPROG", "INPROG_INVALID"}
  BY <1>4 DEF OneOwner, OthersKept, State, Kept, Free, Uses, Reading, Filling
<1>7. /\ bio'[b].rw \in Reading => State(b)' \in {"CACHEREADINPROG", "INPROG_INVALID"}
      /\ bio'[b].rw \in Filling => State(b)' \in {"INPROG", "INPROG_INVALID"}
  BY DEF State, Reading, Filling, Source
<1> QED
  BY <1>5, <1>6, <1>7 DEF OneOwner, Reading, Filling

(* The owner of slot i releases it.                                        *)
LEMMA OwnerGoes ==
  ASSUME OneOwner, JobShape, WtTypeOK', NEW b \in Bios, OthersKept(b), NEW i \in Slots,
         bio[b].rw \in Uses, bio[b].index = i, bio'[b].rw \notin Uses,
         cache'[i].state \in Free,
         \A j \in Slots \ {i} : Kept(j)
  PROVE  OneOwner'
<1>1. Holders(i) = {b}
  BY DEF OneOwner, Holders
<1>2. Holders(i)' = {}
  BY <1>1 DEF OthersKept, Holders
<1>3. \A j \in Slots \ {i} : Holders(j)' = Holders(j)
  BY DEF OthersKept, Holders
<1>4. \A c \in Bios \ {b} : bio[c].rw \in Uses => bio[c].index \in Slots \ {i}
  BY <1>1 DEF JobShape, Holders
<1>5. \A j \in Slots :
        /\ cache'[j].state \notin {"INVALID", "VALID"} <=> Holders(j)' # {}
        /\ \A c, e \in Holders(j)' : c = e
  BY <1>2, <1>3 DEF OneOwner, Kept, Free
<1>6. \A c \in Bios \ {b} :
        /\ bio'[c].rw \in Reading => State(c)' \in {"CACHEREADINPROG", "INPROG_INVALID"}
        /\ bio'[c].rw \in Filling => State(c)' \in {"INPROG", "INPROG_INVALID"}
  BY <1>4 DEF OneOwner, OthersKept, State, Kept, Free, Uses, Reading, Filling
<1>7. bio'[b].rw \notin Reading \cup Filling
  BY DEF Uses, Reading, Filling
<1> QED
  BY <1>5, <1>6, <1>7 DEF OneOwner, Reading, Filling

-----------------------------------------------------------------------------
(* A bio arrives                                                           *)

LEMMA InvalidatedKept ==
  ASSUME WtTypeOK, NEW d, cache' = Invalidated(cache, d)
  PROVE  \A i \in Slots : Kept(i)
  BY InvalidatedSlot DEF Kept, Free

(* ... and goes to the disk; the copies of its block are invalidated, or   *)
(* (there being none in use) not even that.                                *)
LEMMA UncachedInv ==
  ASSUME WtIInv, NEW b \in Bios, NEW d \in Dbns, NEW w \in BOOLEAN,
         bio[b].rw = "none", Uncached(b, Arriving(d, w)), alive' = alive, apart' = apart,
         cache' = Invalidated(cache, d) \/ cache' = cache,
         alive, nr_jobs' = nr_jobs,
         set_lru_next' \in Sweeps
  PROVE  WtIInv'
<1> USE DEF WtIInv
<1>1. WtTypeOK
  BY DEF OneOwner
<1>2. bio' = [bio EXCEPT ![b] = [Arriving(d, w) EXCEPT !.rw = "UNCACHED"]]
  BY DEF Uncached
<1>3. bio'[b] = [Arriving(d, w) EXCEPT !.rw = "UNCACHED"]
  BY <1>1, <1>2 DEF WtTypeOK, SlotType, BioType
<1>4. /\ bio'[b].rw = "UNCACHED" /\ bio'[b].io = "new"
      /\ \A c \in Bios \ {b} : bio'[c] = bio[c]
  BY <1>1, <1>2, <1>3 DEF WtTypeOK, SlotType, BioType, Arriving, NoBio
<1>5. WtTypeOK'
  <2>1. cache' \in [Slots -> SlotType]
    BY <1>1, InvalidatedType DEF WtTypeOK
  <2>2. [Arriving(d, w) EXCEPT !.rw = "UNCACHED"] \in BioType
    BY DEF Arriving, NoBio, BioType
  <2>3. bio' \in [Bios -> BioType]
    BY <1>1, <1>2, <2>2 DEF WtTypeOK
  <2> QED BY <1>1, <2>1, <2>3 DEF WtTypeOK
<1>6. \A i \in Slots : Kept(i)
  BY <1>1, InvalidatedKept DEF Kept, WtTypeOK, SlotType, BioType, States, Free
<1>7. OneOwner'
  BY <1>4, <1>5, <1>6, OwnerUnchanged DEF OthersKept, Uses, Source
<1>8. OnlyWakeUpsRemain'
  BY <1>4, JobCount DEF OnlyWakeUpsRemain, Jobs, JobShape
<1>9. JobShape'
  BY <1>4 DEF JobShape, Uses, Source
<1> QED BY <1>7, <1>8, <1>9

(* ... and takes a slot that nobody has.                                   *)
LEMMA ClaimedInv ==
  ASSUME WtIInv, NEW b \in Bios, NEW d \in Dbns, NEW w \in BOOLEAN, NEW i \in Slots,
         NEW rw \in Source \cup {"READCACHE"},
         bio[b].rw = "none", bio' = [bio EXCEPT ![b] = [Arriving(d, w) EXCEPT !.rw = rw, !.index = i]],
         cache' \in [Slots -> SlotType],
         cache[i].state \in Free,
         cache'[i].state = IF rw = "READCACHE" THEN "CACHEREADINPROG" ELSE "INPROG",
         \A j \in Slots \ {i} : Kept(j),
         alive' = alive, apart' = apart, alive, nr_jobs' = nr_jobs,
         set_lru_next' \in Sweeps
  PROVE  WtIInv'
<1> USE DEF WtIInv
<1>1. WtTypeOK
  BY DEF OneOwner
<1>2. bio'[b] = [Arriving(d, w) EXCEPT !.rw = rw, !.index = i]
  BY <1>1 DEF WtTypeOK, SlotType, BioType
<1>3. /\ bio'[b].rw = rw /\ bio'[b].io = "new" /\ bio'[b].index = i
      /\ \A c \in Bios \ {b} : bio'[c] = bio[c]
  BY <1>1, <1>2 DEF WtTypeOK, SlotType, BioType, Arriving, NoBio
<1>4. WtTypeOK'
  BY <1>1 DEF WtTypeOK, SlotType, BioType, Arriving, NoBio, Uses, Source
<1>5. OneOwner'
  BY <1>3, <1>4, OwnerComes DEF OthersKept, Uses, Source, Reading, Filling
<1>6. OnlyWakeUpsRemain'
  BY <1>3, JobCount DEF OnlyWakeUpsRemain, Jobs, JobShape, Source
<1>7. JobShape'
  BY <1>3 DEF JobShape, Uses, Source
<1> QED BY <1>5, <1>6, <1>7

(* The choice of a slot for a block that missed.                           *)
LEMMA ClaimInv ==
  ASSUME WtIInv, NEW b \in Bios, NEW d \in Dbns, NEW w \in BOOLEAN,
         NEW C, C = cache \/ C = Invalidated(cache, d), NEW rw \in Source,
         bio[b].rw = "none", Claim(b, Arriving(d, w), C, rw),
         alive' = alive, apart' = apart, alive, nr_jobs' = nr_jobs
  PROVE  WtIInv'
<1> DEFINE t == SetOfDbn(d)
           Claimed(i) ==
             /\ cache' = [C EXCEPT ![i] = [Empty EXCEPT !.dbn = d, !.state = "INPROG"]]
             /\ bio' = [bio EXCEPT ![b] = [Arriving(d, w) EXCEPT !.rw = rw, !.index = i]]
<1>1. WtTypeOK
  BY DEF WtIInv, OneOwner
<1>2. t \in Sets /\ Arriving(d, w).dbn = d
  BY SlotFacts DEF Arriving, NoBio
<1>3. C \in [Slots -> SlotType]
  BY <1>1, InvalidatedType DEF WtTypeOK
<1>4. \A i \in Slots : C[i].state \in Free => cache[i].state \in Free
  BY <1>1, InvalidatedSlot DEF WtTypeOK, SlotType, BioType, Free, States
<1>5. \A i \in Slots : IF cache[i].state \in Free THEN C[i].state \in Free
                       ELSE C[i].state \in {cache[i].state, "INPROG_INVALID"}
  BY <1>1, InvalidatedSlot DEF WtTypeOK, SlotType, BioType, Free, States
<1>6. ASSUME NEW i \in SlotsOf(t), C[i].state \in Free, Claimed(i),
             set_lru_next' \in Sweeps
      PROVE  WtIInv'
  <2>1. i \in Slots
    BY DEF SlotsOf
  <2>2. cache' \in [Slots -> SlotType]
    BY <1>3, <1>6, <2>1 DEF Empty, States, SlotType
  <2>3. cache'[i].state = "INPROG" /\ \A j \in Slots \ {i} : cache'[j] = C[j]
    BY <1>3, <1>6, <2>1 DEF Empty
  <2>4. \A j \in Slots \ {i} : Kept(j)
    BY <1>5, <2>3 DEF Kept
  <2>5. cache[i].state \in Free
    BY <1>4, <1>6, <2>1
  <2>6. rw # "READCACHE" /\ rw \in Source \cup {"READCACHE"}
    BY DEF Source
  <2>7. bio' = [bio EXCEPT ![b] = [Arriving(d, w) EXCEPT !.rw = rw, !.index = i]]
    BY <1>6
  <2>8. set_lru_next' \in Sweeps
    BY <1>6
  <2>9. cache'[i].state = IF rw = "READCACHE" THEN "CACHEREADINPROG" ELSE "INPROG"
    BY <2>3, <2>6
  <2> HIDE DEF Claimed, t
  <2> QED BY <2>1, <2>2, <2>4, <2>5, <2>6, <2>7, <2>8, <2>9, ClaimedInv
<1>7. set_lru_next[t] \in SlotsOf(t) /\ set_lru_next \in Sweeps
  BY <1>1, <1>2 DEF WtTypeOK, SlotType, BioType, Sweeps
<1>8. CASE \E i \in FindInvalid(C, t) : Claimed(i) /\ UNCHANGED set_lru_next
  <2>1. PICK i \in FindInvalid(C, t) : Claimed(i) /\ UNCHANGED set_lru_next
    BY <1>8
  <2>2. i \in SlotsOf(t) /\ C[i].state \in Free
    BY DEF FindInvalid, In, Free
  <2> QED BY <1>6, <1>7, <2>1, <2>2
<1>9. CASE \E i \in FindReclaim(C, t) :
             Claimed(i) /\ set_lru_next' = [set_lru_next EXCEPT ![t] = After(i)]
  <2>1. PICK i \in FindReclaim(C, t) :
               Claimed(i) /\ set_lru_next' = [set_lru_next EXCEPT ![t] = After(i)]
    BY <1>9
  <2>2. i \in SlotsOf(t) /\ C[i].state \in Free
    BY DEF FindReclaim, In, Free
  <2>3. After(i) \in SlotsOf(t)
    BY <1>2, <2>2, AfterInSet
  <2>4. set_lru_next' \in Sweeps
    BY <1>1, <1>2, <1>7, <2>1, <2>3 DEF WtTypeOK, SlotType, BioType, Sweeps, SlotsOf
  <2> QED BY <1>6, <2>1, <2>2, <2>4
<1>10. CASE /\ set_lru_next' = [set_lru_next EXCEPT ![t] = After(@)]
            /\ Uncached(b, Arriving(d, w)) /\ cache' = C
  <2>1. After(set_lru_next[t]) \in SlotsOf(t)
    BY <1>2, <1>7, AfterInSet
  <2>2. set_lru_next' \in Sweeps
    BY <1>1, <1>2, <1>7, <1>10, <2>1 DEF WtTypeOK, SlotType, BioType, Sweeps, SlotsOf
  <2> QED BY <1>10, <2>2, UncachedInv
<1> QED
  BY <1>2, <1>8, <1>9, <1>10 DEF Claim

LEMMA MapInv ==
  ASSUME WtIInv, NEW b \in Bios, NEW d \in Dbns, Map(b, d)
  PROVE  WtIInv'
<1>1. WtTypeOK
  BY DEF WtIInv, OneOwner
<1>2. PICK write \in BOOLEAN, whole \in BOOLEAN :
        LET arrived == Arriving(d, write) IN
        IF ~whole \/ (write /\ write_around_mode) THEN PassAround(b, arrived)
        ELSE IF write THEN CacheWrite(b, arrived)
        ELSE ReadHit(b, arrived) \/ ReadMiss(b, arrived)
  BY DEF Map
<1> DEFINE arrived == Arriving(d, write)
<1>3. alive /\ alive' = alive /\ apart' = apart /\ nr_jobs' = nr_jobs
  BY DEF Map, Arrives, context
<1>4. bio[b].rw = "none"
  BY DEF Map, Arrives
<1>5. bio[b].rw \notin Uses /\ b \notin Jobs
  BY <1>4 DEF WtIInv, JobShape, Jobs, Uses, Source
<1>6. arrived.dbn = d
  BY DEF Arriving, NoBio
<1>7. CASE Uncached(b, arrived) /\ UNCHANGED set_lru_next
           /\ (cache' = Invalidated(cache, d) \/ cache' = cache)
  BY <1>1, <1>3, <1>4, <1>5, <1>7, UncachedInv DEF WtTypeOK, SlotType, BioType
<1>8. ASSUME NEW C, C = cache \/ C = Invalidated(cache, d), NEW rw \in Source,
             Claim(b, arrived, C, rw)
      PROVE  WtIInv'
  BY <1>3, <1>4, <1>8, ClaimInv
<1>9. CASE ReadHit(b, arrived)
  <2>1. PICK i \in FindValid(cache, d) :
          /\ cache[i].state = "VALID"
          /\ cache' = [cache EXCEPT ![i].state = "CACHEREADINPROG"]
          /\ bio' = [bio EXCEPT ![b] = [arrived EXCEPT !.rw = "READCACHE", !.index = i]]
          /\ UNCHANGED set_lru_next
    BY <1>6, <1>9 DEF ReadHit
  <2>2. i \in Slots
    BY DEF FindValid, In, SlotsOf
  <2>3. cache' \in [Slots -> SlotType]
    <3>1. cache \in [Slots -> SlotType] /\ cache[i] \in SlotType
      BY <1>1, <2>2 DEF WtTypeOK
    <3>2. [cache[i] EXCEPT !.state = "CACHEREADINPROG"] \in SlotType
      BY <3>1 DEF SlotType, States
    <3> QED BY <2>1, <2>2, <3>1, <3>2
  <2>4. cache'[i].state = "CACHEREADINPROG" /\ \A j \in Slots \ {i} : cache'[j] = cache[j]
    BY <1>1, <2>1, <2>2 DEF WtTypeOK, SlotType, BioType
  <2>5. cache[i].state \in Free /\ \A j \in Slots \ {i} : Kept(j)
    BY <2>1, <2>4 DEF Free, Kept
  <2>6. set_lru_next' \in Sweeps
    BY <1>1, <2>1 DEF WtTypeOK, SlotType, BioType
  <2> QED BY <1>3, <1>4, <2>1, <2>2, <2>3, <2>4, <2>5, <2>6, ClaimedInv
<1>10. CASE ReadMiss(b, arrived)
  BY <1>6, <1>7, <1>8, <1>10 DEF ReadMiss, Source
<1>11. CASE CacheWrite(b, arrived)
  BY <1>6, <1>7, <1>8, <1>11 DEF CacheWrite, Source
<1>12. CASE PassAround(b, arrived)
  BY <1>6, <1>7, <1>12 DEF PassAround
<1> QED BY <1>2, <1>9, <1>10, <1>11, <1>12

-----------------------------------------------------------------------------
(* Jobs                                                                    *)

(* A job goes on, and only its bio changes; it is counted when it starts.  *)
LEMMA GoesOnInv ==
  ASSUME WtIInv, NEW b \in Bios,
         bio' \in [Bios -> BioType],
         \A c \in Bios \ {b} : /\ bio'[c].rw = bio[c].rw
                               /\ bio'[c].index = bio[c].index
                               /\ bio'[c].io = bio[c].io,
         bio'[b].index = bio[b].index,
         \/ bio[b].rw \in Reading /\ bio'[b].rw \in Reading
         \/ bio[b].rw \in Filling /\ bio'[b].rw \in Filling
         \/ bio[b].rw = "UNCACHED" /\ bio'[b].rw = "UNCACHED",
         cache' \in [Slots -> SlotType],
         \A i \in Slots : Kept(i),
         b \in Jobs',
         nr_jobs' = IF b \in Jobs THEN nr_jobs ELSE nr_jobs + 1,
         alive' = alive, apart' = apart, set_lru_next' = set_lru_next
  PROVE  WtIInv'
<1> USE DEF WtIInv
<1>1. WtTypeOK
  BY DEF OneOwner
<1>2. \A c \in Bios \ {b} : c \in Jobs' <=> c \in Jobs
  BY DEF Jobs
<1>3. nr_jobs = Cardinality(Jobs)
  BY DEF OnlyWakeUpsRemain
<1>4. nr_jobs' = Cardinality(Jobs') /\ nr_jobs' \in Nat
  BY <1>2, <1>3, JobCount
<1>5. WtTypeOK'
  BY <1>1, <1>4 DEF WtTypeOK, SlotType, BioType
<1>6. OneOwner'
  <2>1. CASE bio[b].rw = "UNCACHED" /\ bio'[b].rw = "UNCACHED"
    BY <1>5, <2>1, OwnerUnchanged DEF OthersKept, Uses, Source
  <2> QED BY <1>5, <2>1, OwnerStays DEF OthersKept
<1>7. alive
  BY DEF OnlyWakeUpsRemain, Reading, Filling, Source
<1>8. OnlyWakeUpsRemain'
  BY <1>4, <1>7 DEF OnlyWakeUpsRemain
<1>9. JobShape'
  BY DEF JobShape, Uses, Reading, Filling, Source
<1> QED BY <1>6, <1>8, <1>9

(* A job ends: its slot is released, and it is not counted any more; a     *)
(* bounced read goes on without it.                                        *)
LEMMA EndsInv ==
  ASSUME WtIInv, NEW b \in Bios,
         NEW r \in {NoBio, Waking} \cup {[Arriving(d, FALSE) EXCEPT !.rw = "UNCACHED"] : d \in Dbns \cup {None}},
         bio' = [bio EXCEPT ![b] = r],
         \/ bio[b].rw = "UNCACHED" /\ cache' = cache
         \/ bio[b].rw \in Uses /\ \E st \in Free : Released(bio[b].index, st),
         nr_jobs' = IF b \in Jobs THEN nr_jobs - 1 ELSE nr_jobs,
         alive' = alive, apart' = apart, set_lru_next' = set_lru_next
  PROVE  WtIInv'
<1> USE DEF WtIInv
<1>1. WtTypeOK
  BY DEF OneOwner
<1>2. /\ r.rw \in {"none", "WAKEUP", "UNCACHED"} /\ r.io = "new"
      /\ r \in BioType
  <2>1. CASE r = NoBio
    BY <2>1 DEF NoBio, BioType
  <2>2. CASE \E d \in Dbns \cup {None} : r = [Arriving(d, FALSE) EXCEPT !.rw = "UNCACHED"]
    BY <2>2 DEF Arriving, NoBio, BioType
  <2>3. CASE r = Waking
    BY <2>3 DEF Waking, NoBio, BioType
  <2> QED BY <2>1, <2>2, <2>3
<1>3. bio'[b] = r /\ \A c \in Bios \ {b} : bio'[c] = bio[c]
  BY <1>1 DEF WtTypeOK, SlotType, BioType
<1>4. b \notin Jobs' /\ \A c \in Bios \ {b} : c \in Jobs' <=> c \in Jobs
  BY <1>2, <1>3 DEF Jobs
<1>5. nr_jobs' = Cardinality(Jobs') /\ nr_jobs' \in Nat
  BY <1>4, JobCount DEF OnlyWakeUpsRemain
<1>6. bio' \in [Bios -> BioType]
  BY <1>1, <1>2 DEF WtTypeOK, SlotType, BioType
<1>7. OneOwner'
  <2>1. CASE bio[b].rw = "UNCACHED" /\ cache' = cache
    <3>1. WtTypeOK'
      BY <1>1, <1>5, <1>6, <2>1 DEF WtTypeOK, SlotType, BioType
    <3>2. \A i \in Slots : Kept(i)
      BY <2>1 DEF Kept, Free
    <3> QED BY <1>2, <1>3, <2>1, <3>1, <3>2, OwnerUnchanged DEF OthersKept, Uses, Source
  <2>2. CASE bio[b].rw \in Uses /\ \E st \in Free : Released(bio[b].index, st)
    <3> DEFINE i == bio[b].index
    <3>1. PICK st \in Free : Released(i, st)
      BY <2>2
    <3>2. i \in Slots
      BY <2>2 DEF JobShape
    <3>3. /\ cache'[i] = IF st = "INVALID" THEN Empty ELSE [cache[i] EXCEPT !.state = st]
          /\ \A j \in Slots \ {i} : cache'[j] = cache[j]
          /\ cache' \in [Slots -> SlotType]
      BY <1>1, <3>1, <3>2 DEF WtTypeOK, SlotType, BioType, Released, Free, States, Empty
    <3>4. cache'[i].state \in Free /\ \A j \in Slots \ {i} : Kept(j)
      BY <1>1, <3>2, <3>3 DEF Kept, Free, Empty, WtTypeOK, SlotType, BioType
    <3>5. WtTypeOK'
      BY <1>1, <1>5, <1>6, <3>3 DEF WtTypeOK, SlotType, BioType
    <3> QED BY <1>2, <1>3, <2>2, <3>2, <3>4, <3>5, OwnerGoes DEF OthersKept, Uses, Source
  <2> QED BY <2>1, <2>2
<1>8. OnlyWakeUpsRemain'
  <2>1. alive
    BY DEF OnlyWakeUpsRemain, Uses, Source
  <2> QED BY <1>5, <2>1 DEF OnlyWakeUpsRemain
<1>9. JobShape'
  BY <1>2, <1>3 DEF JobShape, Uses, Source
<1> QED BY <1>7, <1>8, <1>9

(* What a device makes of a bio and of a slot.                             *)
LEMMA Updates ==
  ASSUME NEW e \in BOOLEAN, NEW f \in BOOLEAN
  PROVE  /\ \A x \in BioType :
              /\ [x EXCEPT !.io = "served", !.err = e, !.fresh = f] \in BioType
              /\ [x EXCEPT !.io = "served", !.err = e] \in BioType
              /\ [x EXCEPT !.fresh = f] \in BioType
         /\ \A y \in SlotType :
              /\ [y EXCEPT !.fresh = f] \in SlotType
              /\ [y EXCEPT !.fresh = f].state = y.state
  BY DEF BioType, SlotType

(* Every step of a job is of one of these two kinds.                       *)
LEMMA StepInv ==
  ASSUME WtIInv, NEW b \in Bios, Step(b)
  PROVE  WtIInv'
<1> USE DEF context, At
<1>1. WtTypeOK
  BY DEF WtIInv, OneOwner
<1>2. bio[b] \in BioType
  BY <1>1 DEF WtTypeOK, SlotType, BioType
<1>3. bio[b].rw \in Uses => bio[b].index \in Slots
  BY DEF WtIInv, JobShape
<1>4. cache' = cache => \A i \in Slots : Kept(i)
  BY DEF Kept, Free
<1>5. CASE NoJob(b)
  <2>1. b \notin Jobs
    BY <1>5 DEF NoJob, Jobs
  <2>2. bio' = [bio EXCEPT ![b] = NoBio] /\ nr_jobs' = nr_jobs
        /\ alive' = alive /\ apart' = apart /\ set_lru_next' = set_lru_next
    BY <1>5 DEF NoJob, Gone
  <2>3. \/ bio[b].rw = "UNCACHED" /\ cache' = cache
        \/ bio[b].rw \in Uses /\ \E st \in Free : Released(bio[b].index, st)
    BY <1>5 DEF NoJob, Uses, Source, Free
  <2> QED BY <2>1, <2>2, <2>3, EndsInv
<1>6. CASE DiskReads(b)
  <2>1. PICK err \in Errors("disk") :
          bio' = [bio EXCEPT ![b].io = "served", ![b].err = err, ![b].fresh = ~err]
    BY <1>6 DEF DiskReads
  <2>2. err \in BOOLEAN
    BY DEF Errors
  <2>3. bio[b].rw \in {"READSOURCE", "UNCACHED"} /\ bio[b].io = "new"
    BY <1>6 DEF DiskReads
  <2>4. b \notin Jobs /\ b \in Jobs'
    BY <1>1, <2>1, <2>3 DEF Jobs, WtTypeOK, SlotType, BioType
  <2>5. cache' \in [Slots -> SlotType] /\ cache' = cache
    BY <1>1, <1>6 DEF DiskReads, WtTypeOK
  <2>6. bio' = [bio EXCEPT ![b] = [bio[b] EXCEPT !.io = "served", !.err = err, !.fresh = ~err]]
    BY <1>1, <2>1 DEF WtTypeOK
  <2>7. bio' \in [Bios -> BioType]
    BY <1>1, <1>2, <2>2, <2>6, Updates DEF WtTypeOK
  <2>8. bio'[b].rw = bio[b].rw /\ bio'[b].index = bio[b].index
        /\ \A c \in Bios \ {b} : bio'[c] = bio[c]
    BY <1>1, <1>2, <2>6 DEF WtTypeOK, BioType
  <2> QED BY <1>4, <1>6, <2>3, <2>4, <2>5, <2>7, <2>8, GoesOnInv
          DEF DiskReads, Filling, Source
<1>7. CASE DiskWrites(b)
  <2>1. PICK err \in Errors("disk"), lands \in BOOLEAN :
       /\ err \/ lands
       /\ bio' = [c \in Bios |->
            IF c = b THEN [bio[b] EXCEPT !.io = "served", !.err = err, !.fresh = lands]
            ELSE IF lands /\ bio[c].dbn = bio[b].dbn THEN [bio[c] EXCEPT !.fresh = FALSE]
            ELSE bio[c]]
       /\ cache' = [i \in Slots |->
            IF lands /\ cache[i].dbn = bio[b].dbn THEN [cache[i] EXCEPT !.fresh = FALSE]
            ELSE cache[i]]
    BY <1>7 DEF DiskWrites
  <2>2. err \in BOOLEAN
    BY DEF Errors
  <2>3. bio[b].rw \in {"WRITESOURCE", "UNCACHED"} /\ bio[b].io = "new"
    BY <1>7 DEF DiskWrites
  <2>4. \A c \in Bios \ {b} : /\ bio'[c].rw = bio[c].rw
                              /\ bio'[c].index = bio[c].index
                              /\ bio'[c].io = bio[c].io
    BY <1>1, <2>1 DEF WtTypeOK, SlotType, BioType
  <2>5. bio'[b].rw = bio[b].rw /\ bio'[b].index = bio[b].index /\ bio'[b].io = "served"
    BY <1>2, <2>1 DEF BioType
  <2>6. b \notin Jobs /\ b \in Jobs'
    BY <2>3, <2>5 DEF Jobs
  <2>7. bio' \in [Bios -> BioType]
    BY <1>1, <1>2, <2>1, <2>2, Updates DEF WtTypeOK
  <2>8. /\ cache' \in [Slots -> SlotType]
        /\ \A i \in Slots : cache'[i].state = cache[i].state
    BY <1>1, <2>1, Updates DEF WtTypeOK
  <2>9. \A i \in Slots : Kept(i)
    BY <2>8 DEF Kept, Free
  <2> QED BY <1>7, <2>3, <2>4, <2>5, <2>6, <2>7, <2>8, <2>9, GoesOnInv
          DEF DiskWrites, Filling, Source
<1>8. CASE FlashReads(b)
  <2>1. PICK err \in Errors("ssd") :
          bio' = [bio EXCEPT ![b].io = "served", ![b].err = err,
                             ![b].fresh = ~err /\ cache[bio[b].index].fresh]
    BY <1>8 DEF FlashReads
  <2>2. err \in BOOLEAN
    BY DEF Errors
  <2>3. bio[b].rw = "READCACHE" /\ bio[b].io = "new"
    BY <1>8 DEF FlashReads
  <2>4. b \notin Jobs /\ b \in Jobs'
    BY <1>1, <2>1, <2>3 DEF Jobs, WtTypeOK, SlotType, BioType
  <2>5. (~err /\ cache[bio[b].index].fresh) \in BOOLEAN
    BY <2>2
  <2>6. cache' \in [Slots -> SlotType]
    BY <1>1, <1>8 DEF FlashReads, WtTypeOK, SlotType, BioType
  <2>7. bio' \in [Bios -> BioType]
    <3>1. bio' = [bio EXCEPT ![b] = [bio[b] EXCEPT !.io = "served", !.err = err,
                                     !.fresh = ~err /\ cache[bio[b].index].fresh]]
      BY <1>1, <2>1 DEF WtTypeOK
    <3> QED BY <1>1, <1>2, <2>2, <2>5, <3>1, Updates DEF WtTypeOK
  <2>8. bio'[b].rw = "READCACHE" /\ bio'[b].index = bio[b].index
        /\ \A c \in Bios \ {b} : bio'[c] = bio[c]
    BY <1>1, <2>1, <2>3 DEF WtTypeOK, SlotType, BioType
  <2> QED BY <1>4, <1>8, <2>3, <2>4, <2>6, <2>7, <2>8, GoesOnInv
          DEF FlashReads, Reading
<1>9. CASE FlashWrites(b)
  <2>1. PICK err \in Errors("ssd") :
       /\ bio' = [bio EXCEPT ![b].io = "served", ![b].err = err]
       /\ cache' = [cache EXCEPT ![bio[b].index].fresh = bio[b].fresh /\ ~err]
    BY <1>9 DEF FlashWrites
  <2>2. err \in BOOLEAN
    BY DEF Errors
  <2>3. bio[b].rw = "WRITECACHE"
    BY <1>9 DEF FlashWrites
  <2>4. b \in Jobs /\ b \in Jobs'
    BY <1>1, <2>1, <2>3 DEF Jobs, WtTypeOK, SlotType, BioType
  <2>5. (bio[b].fresh /\ ~err) \in BOOLEAN
    BY <1>2, <2>2
  <2>6. bio[b].index \in Slots
    BY <1>3, <2>3 DEF Uses
  <2>7. /\ cache' \in [Slots -> SlotType]
        /\ \A i \in Slots : cache'[i].state = cache[i].state
    <3>1. cache' = [cache EXCEPT ![bio[b].index] =
                      [cache[bio[b].index] EXCEPT !.fresh = bio[b].fresh /\ ~err]]
      BY <1>1, <2>1, <2>6 DEF WtTypeOK
    <3> QED BY <1>1, <2>5, <2>6, <3>1, Updates DEF WtTypeOK
  <2>8. \A i \in Slots : Kept(i)
    BY <2>7 DEF Kept, Free
  <2>9. bio' = [bio EXCEPT ![b] = [bio[b] EXCEPT !.io = "served", !.err = err]]
    BY <1>1, <2>1 DEF WtTypeOK
  <2>10. bio' \in [Bios -> BioType]
    BY <1>1, <1>2, <2>2, <2>9, Updates DEF WtTypeOK
  <2>11. bio'[b].rw = "WRITECACHE" /\ bio'[b].index = bio[b].index
         /\ \A c \in Bios \ {b} : bio'[c] = bio[c]
    BY <1>1, <1>2, <2>3, <2>9 DEF WtTypeOK, BioType
  <2> QED BY <1>9, <2>3, <2>4, <2>7, <2>8, <2>10, <2>11, GoesOnInv
          DEF FlashWrites, Filling
<1>10. CASE SourceDone(b) \/ ReadCacheDone(b) \/ WriteCacheDone(b) \/ UncachedDone(b)
  <2>1. \/ bio[b].rw \in Source /\ bio'[b].rw \in Source \cup {"WRITECACHE"}
        \/ bio[b].rw = "READCACHE" /\ bio'[b].rw \in Reading
        \/ bio[b].rw = "WRITECACHE" /\ bio'[b].rw = "WRITECACHE"
        \/ bio[b].rw = "UNCACHED" /\ bio'[b].rw = "UNCACHED"
    BY <1>1, <1>10 DEF SourceDone, ReadCacheDone, WriteCacheDone, UncachedDone, WtTypeOK, SlotType, BioType, Reading
  <2>2. b \in Jobs
    BY <1>10 DEF SourceDone, ReadCacheDone, WriteCacheDone, UncachedDone, Jobs
  <2>3. bio'[b].rw = "WRITECACHE" \/ bio'[b].io # "new"
    BY <1>1, <1>10 DEF SourceDone, ReadCacheDone, WriteCacheDone, UncachedDone, WtTypeOK, SlotType, BioType
  <2>4. /\ bio'[b].index = bio[b].index
        /\ \A c \in Bios \ {b} : bio'[c] = bio[c]
    BY <1>1, <1>10 DEF SourceDone, ReadCacheDone, WriteCacheDone, UncachedDone, WtTypeOK, SlotType, BioType
  <2>5. bio' \in [Bios -> BioType]
    BY <1>1, <1>10 DEF SourceDone, ReadCacheDone, WriteCacheDone, UncachedDone, WtTypeOK, SlotType, BioType, Uses
  <2>6. /\ cache' \in [Slots -> SlotType]
        /\ \A i \in Slots : Kept(i)
    <3>1. CASE cache' = cache
      BY <1>1, <1>4, <3>1 DEF WtTypeOK, SlotType, BioType
    <3>2. CASE cache' = Invalidated(cache, bio[b].dbn)
      BY <1>1, <3>2, InvalidatedKept, InvalidatedType
    <3> QED BY <1>10, <3>1, <3>2 DEF SourceDone, ReadCacheDone, WriteCacheDone, UncachedDone
  <2>7. b \in Jobs'
    BY <2>3 DEF Jobs
  <2>8. nr_jobs' = nr_jobs /\ alive' = alive /\ apart' = apart /\ set_lru_next' = set_lru_next
    BY <1>10 DEF SourceDone, ReadCacheDone, WriteCacheDone, UncachedDone
  <2>9. \/ bio[b].rw \in Reading /\ bio'[b].rw \in Reading
        \/ bio[b].rw \in Filling /\ bio'[b].rw \in Filling
        \/ bio[b].rw = "UNCACHED" /\ bio'[b].rw = "UNCACHED"
    BY <2>1 DEF Reading, Filling, Source
  <2> QED BY <2>2, <2>4, <2>5, <2>6, <2>7, <2>8, <2>9, GoesOnInv
<1>11. CASE Release(b) \/ DoComplete(b) \/ UncachedRelease(b)
  <2>1. b \in Jobs
    BY <1>11 DEF Release, DoComplete, UncachedRelease, Jobs
  <2>2. \/ bio[b].rw = "UNCACHED" /\ cache' = cache
        \/ bio[b].rw \in Uses /\ \E st \in Free : Released(bio[b].index, st)
    BY <1>11 DEF Release, DoComplete, UncachedRelease, Uses, Source, Free
  <2>3. \E r \in {NoBio, Waking} \cup {[Arriving(d, FALSE) EXCEPT !.rw = "UNCACHED"] : d \in Dbns \cup {None}} :
          bio' = [bio EXCEPT ![b] = r]
    BY <1>2, <1>11 DEF Release, DoComplete, UncachedRelease, CountGivenUp, Uncached, BioType
  <2>4. /\ nr_jobs' = nr_jobs - 1
        /\ alive' = alive /\ apart' = apart /\ set_lru_next' = set_lru_next
    BY <1>11 DEF Release, DoComplete, UncachedRelease, CountGivenUp
  <2> QED BY <2>1, <2>2, <2>3, <2>4, EndsInv
<1>12. CASE WakeUp(b)
  <2>1. bio' = [bio EXCEPT ![b] = NoBio] /\ UNCHANGED <<alive, apart, cache, set_lru_next, nr_jobs>>
    BY <1>12 DEF WakeUp, Gone
  <2>2. bio[b].rw = "WAKEUP" /\ bio[b].io = "new"
    BY <1>12 DEF WakeUp, WtIInv, JobShape
  <2>3. /\ bio'[b] = NoBio /\ \A c \in Bios \ {b} : bio'[c] = bio[c]
        /\ NoBio.rw = "none" /\ NoBio.io = "new"
    BY <1>1, <2>1 DEF WtTypeOK, NoBio
  <2>4. WtTypeOK'
    BY <1>1, <2>1 DEF WtTypeOK, BioType, NoBio
  <2>5. OneOwner'
    BY <1>4, <2>1, <2>2, <2>3, <2>4, OwnerUnchanged DEF WtIInv, OthersKept, Uses, Source
  <2>6. \A c \in Bios : c \in Jobs' <=> c \in Jobs
    BY <2>2, <2>3 DEF Jobs
  <2>7. OnlyWakeUpsRemain'
    BY <2>1, <2>3, <2>6, JobCount DEF WtIInv, OnlyWakeUpsRemain
  <2>8. JobShape'
    BY <2>3 DEF WtIInv, JobShape, Uses, Source
  <2> QED BY <2>5, <2>7, <2>8 DEF WtIInv
<1> QED
  BY <1>5, <1>6, <1>7, <1>8, <1>9, <1>10, <1>11, <1>12 DEF Step

-----------------------------------------------------------------------------
(* The cache comes and goes                                                *)

LEMMA ConstructInv ==
  ASSUME WtIInv, Construct
  PROVE  WtIInv'
<1>1. WtTypeOK /\ \A b \in Bios : ~Out(b) /\ bio[b].io = "new"
  BY DEF Construct, WtIInv, OneOwner, OnlyWakeUpsRemain, JobShape
<1>2. WtTypeOK'
  <2>1. set_lru_next' \in Sweeps
    BY FirstInSet DEF Construct, Sweeps, SlotsOf
  <2> QED BY <1>1, <2>1 DEF Construct, WtTypeOK, Empty, SlotType, States
<1>3. OneOwner'
  BY <1>1, <1>2 DEF Construct, OneOwner, Holders, Empty, Uses, Source
<1>4. Jobs' = {}
  BY <1>1 DEF Construct, Jobs
<1>5. OnlyWakeUpsRemain'
  BY <1>4, FS_EmptySet DEF Construct, OnlyWakeUpsRemain
<1>6. JobShape'
  BY <1>1 DEF Construct, JobShape, Uses, Source
<1> QED BY <1>3, <1>5, <1>6 DEF WtIInv

LEMMA DestroyInv ==
  ASSUME WtIInv, Destroy
  PROVE  WtIInv'
<1>1. Jobs = {}
  <2>1. Jobs \subseteq Bios
    BY DEF Jobs
  <2>2. IsFiniteSet(Jobs)
    BY <2>1, WtAssumption, FS_Subset
  <2> QED BY <2>2, FS_EmptySet DEF Destroy, WtIInv, OnlyWakeUpsRemain
<1>2. \A b \in Bios : ~Out(b)
  BY <1>1 DEF Destroy, Jobs
<1>3. OneOwner'
  <2>1. WtTypeOK'
    BY DEF Destroy, WtIInv, OneOwner, WtTypeOK, context
  <2>2. UNCHANGED <<cache, bio>>
    BY DEF Destroy
  <2> QED BY <2>1, <2>2 DEF WtIInv, OneOwner, Holders, State
<1>4. Jobs' = Jobs
  BY DEF Destroy, Jobs
<1>5. OnlyWakeUpsRemain'
  BY <1>2, <1>4 DEF Destroy, WtIInv, OnlyWakeUpsRemain
<1>6. JobShape'
  BY DEF Destroy, WtIInv, JobShape
<1> QED BY <1>3, <1>5, <1>6 DEF WtIInv

LEMMA NextInv == WtIInv /\ [Next]_vars => WtIInv'
<1> SUFFICES ASSUME WtIInv, [Next]_vars PROVE WtIInv'
  OBVIOUS
<1>1. CASE UNCHANGED vars
  <2>1. Jobs' = Jobs
    BY <1>1 DEF vars, Jobs
  <2> QED BY <1>1, <2>1 DEF vars, WtIInv, OneOwner, WtTypeOK, Holders, State,
             OnlyWakeUpsRemain, JobShape
<1>2. CASE Construct
  BY <1>2, ConstructInv
<1>3. CASE Destroy
  BY <1>3, DestroyInv
<1>4. ASSUME NEW b \in Bios, NEW d \in Dbns, Map(b, d) PROVE WtIInv'
  BY <1>4, MapInv
<1>5. ASSUME NEW b \in Bios, Step(b) PROVE WtIInv'
  BY <1>5, StepInv
<1> QED BY <1>1, <1>2, <1>3, <1>4, <1>5 DEF Next

(* Whatever the sizes and however many bios there are: two jobs never work *)
(* on one slot, a slot in use is released by the job that uses it, and the *)
(* sweep of a set never leaves it.                                         *)
THEOREM SlotsHaveOneOwner == Spec => []OneOwner
<1>1. WtIInv => OneOwner
  BY DEF WtIInv
<1> QED BY InitInv, NextInv, <1>1, PTL DEF Spec

(* cache_dtr, which waits for nr_jobs alone, frees the context when no job *)
(* has an I/O, a slot or a count left; only the wake_up of the callback    *)
(* that found its job the last may come after it.                          *)
THEOREM OnlyWakeUpsOutliveTheContext == Spec => []OnlyWakeUpsRemain
<1>1. WtIInv => OnlyWakeUpsRemain
  BY DEF WtIInv
<1> QED BY InitInv, NextInv, <1>1, PTL DEF Spec

-----------------------------------------------------------------------------
(* Bios that are kept apart                                                *)

Occupied(i) == cache[i].state # "INVALID"

(* One bio to a block, and one slot; and no bio marks the slot of another. *)
BlocksApart ==
  /\ \A b \in Bios : Out(b) => bio[b].dbn \in Dbns
  /\ \A b, c \in Bios :
       Out(b) /\ Out(c) /\ bio[b].dbn = bio[c].dbn => b = c
  /\ \A i \in Slots : Occupied(i) =>
       /\ cache[i].dbn \in Dbns /\ SetOf(i) = SetOfDbn(cache[i].dbn)
       /\ cache[i].state # "INPROG_INVALID"
  /\ \A i, j \in Slots : Occupied(i) /\ Occupied(j) /\ cache[i].dbn = cache[j].dbn => i = j

(* A bio uses the slot of its block, and while it passes the cache around  *)
(* its block has none.                                                     *)
UsesApart ==
  \A b \in Bios :
    /\ bio[b].rw \in Uses => cache[bio[b].index].dbn = bio[b].dbn
    /\ bio[b].rw = "UNCACHED" => \A i \in Slots : Occupied(i) => cache[i].dbn # bio[b].dbn

(* What the bio holds is current as soon as the disk has served it, and    *)
(* so is what it has put into its slot.                                    *)
BioCurrent(b) ==
  /\ bio[b].rw \in Source /\ bio[b].io = "served" => bio[b].err \/ bio[b].fresh
  /\ bio[b].rw \in Source /\ bio[b].io = "ended" => bio[b].err
  /\ bio[b].rw = "WRITECACHE" =>
       /\ bio[b].fresh
       /\ bio[b].io # "new" => bio[b].err \/ cache[bio[b].index].fresh
  /\ bio[b].rw \in {"READCACHE", "UNCACHED"} /\ bio[b].io # "new" =>
       bio[b].write \/ bio[b].err \/ bio[b].fresh
  /\ bio[b].rw = "READCACHE_DONE" => bio[b].io = "served"

DataApart ==
  /\ \A i \in Slots : cache[i].state \in {"VALID", "CACHEREADINPROG"} => cache[i].fresh
  /\ \A b \in Bios : BioCurrent(b)

ApartInv == apart => BlocksApart /\ UsesApart /\ DataApart

(* What a step of bio b may make of slot j without dropping it.            *)
SlotAllowed(b, j) ==
  /\ cache'[j].dbn \in Dbns /\ SetOf(j) = SetOfDbn(cache'[j].dbn)
  /\ cache'[j].state # "INPROG_INVALID"
  /\ \A k \in Slots \ {j} : cache'[k].state # "INVALID" => cache'[k].dbn # cache'[j].dbn
  /\ cache'[j].state \in {"VALID", "CACHEREADINPROG"} => cache'[j].fresh
  /\ \A c \in Bios \ {b} :
       /\ bio[c].rw = "UNCACHED" => bio[c].dbn # cache'[j].dbn
       /\ bio[c].rw \in Uses => bio[c].index # j

LEMMA ApartStep ==
  ASSUME WtIInv, WtIInv', BlocksApart, UsesApart, DataApart, NEW b \in Bios,
         \A c \in Bios \ {b} : \/ bio'[c] = bio[c]
                               \/ ~Out(c) /\ ~Out(c)',
         \A j \in Slots : \/ cache'[j] = cache[j]
                          \/ cache'[j].state = "INVALID"
                          \/ SlotAllowed(b, j),
         Out(b)' =>
           /\ bio'[b].dbn \in Dbns
           /\ \A c \in Bios \ {b} : Out(c) => bio[c].dbn # bio'[b].dbn,
         bio'[b].rw \in Uses => cache'[bio'[b].index].dbn = bio'[b].dbn,
         bio'[b].rw = "UNCACHED" =>
           \A j \in Slots : cache'[j].state # "INVALID" => cache'[j].dbn # bio'[b].dbn,
         BioCurrent(b)'
  PROVE  BlocksApart' /\ UsesApart' /\ DataApart'
<1>1. BlocksApart'
  <2>1. \A c \in Bios : Out(c)' => bio'[c].dbn \in Dbns
    BY DEF BlocksApart
  <2>2. ASSUME NEW c \in Bios, NEW e \in Bios, Out(c)', Out(e)',
               bio'[c].dbn = bio'[e].dbn
        PROVE  c = e
    BY <2>2 DEF BlocksApart
  <2>3. \A i \in Slots : cache'[i].state # "INVALID" =>
          /\ cache'[i].dbn \in Dbns /\ SetOf(i) = SetOfDbn(cache'[i].dbn)
          /\ cache'[i].state # "INPROG_INVALID"
    BY DEF BlocksApart, Occupied, SlotAllowed
  <2>4. ASSUME NEW i \in Slots, NEW j \in Slots, cache'[i].state # "INVALID",
               cache'[j].state # "INVALID", cache'[i].dbn = cache'[j].dbn
        PROVE  i = j
    BY <2>4 DEF BlocksApart, Occupied, SlotAllowed
  <2> QED BY <2>1, <2>2, <2>3, <2>4 DEF BlocksApart, Occupied
<1>2. ASSUME NEW c \in Bios \ {b}, bio'[c].rw \in Uses
      PROVE  /\ bio'[c] = bio[c] /\ bio[c].rw \in Uses /\ bio[c].index \in Slots
             /\ cache'[bio[c].index] = cache[bio[c].index]
  <2>1. bio'[c] = bio[c]
    BY <1>2 DEF Uses, Source
  <2>2. bio[c].rw \in Uses /\ bio[c].index \in Slots
    BY <1>2, <2>1 DEF WtIInv, JobShape
  <2> PICK i \in Slots : i = bio[c].index
    BY <2>2
  <2>3. c \in Holders(i)'
    BY <1>2, <2>1 DEF Holders
  <2>4. cache'[i].state # "INVALID"
    BY <2>3 DEF WtIInv, OneOwner
  <2>5. ~SlotAllowed(b, bio[c].index)
    BY <2>2 DEF SlotAllowed
  <2> QED BY <2>1, <2>2, <2>4, <2>5
<1>3. UsesApart'
  <2>1. \A c \in Bios : bio'[c].rw \in Uses => cache'[bio'[c].index].dbn = bio'[c].dbn
    BY <1>2 DEF UsesApart
  <2>2. ASSUME NEW c \in Bios \ {b}, bio'[c].rw = "UNCACHED",
               NEW i \in Slots, cache'[i].state # "INVALID"
        PROVE  cache'[i].dbn # bio'[c].dbn
    <3>1. bio'[c] = bio[c]
      BY <2>2
    <3> QED BY <2>2, <3>1 DEF UsesApart, Occupied, SlotAllowed
  <2> QED BY <2>1, <2>2 DEF UsesApart, Occupied
<1>4. DataApart'
  <2>1. \A i \in Slots : cache'[i].state \in {"VALID", "CACHEREADINPROG"} => cache'[i].fresh
    BY DEF DataApart, SlotAllowed
  <2>2. ASSUME NEW c \in Bios \ {b} PROVE BioCurrent(c)'
    <3>1. CASE bio'[c] = bio[c]
      <4>1. BioCurrent(c)
        BY DEF DataApart
      <4>2. bio[c].rw \in Uses => cache'[bio[c].index] = cache[bio[c].index]
        BY <1>2, <3>1
      <4> QED BY <3>1, <4>1, <4>2 DEF BioCurrent, Uses
    <3>2. CASE ~Out(c)'
      BY <3>2 DEF BioCurrent, Source
    <3> QED BY <3>1, <3>2
  <2> QED BY <2>1, <2>2 DEF DataApart
<1> QED BY <1>1, <1>3, <1>4

(* The block of a bio that arrives is in use by nobody.                    *)
LEMMA Arrival ==
  ASSUME WtIInv, BlocksApart, UsesApart, apart, NEW b \in Bios, NEW d \in Dbns, Arrives(b, d)
  PROVE  /\ bio[b].rw = "none" /\ \A c \in Bios : Out(c) => bio[c].dbn # d
         /\ \A i \in Slots : i \in FindValid(cache, d) <=> Occupied(i) /\ cache[i].dbn = d
         /\ \A i \in FindValid(cache, d) : i \in Slots /\ cache[i].state = "VALID"
         /\ ~InUse(cache, d)
<1>1. bio[b].rw = "none" /\ \A c \in Bios : Out(c) => bio[c].dbn # d
  BY DEF Arrives
<1>2. \A i \in Slots : cache[i].state \in States
  BY DEF WtIInv, OneOwner, WtTypeOK, SlotType
<1>3. \A i \in Slots : i \in FindValid(cache, d) <=> Occupied(i) /\ cache[i].dbn = d
  BY <1>2 DEF FindValid, In, SlotsOf, Usable, States, Occupied, BlocksApart
<1>4. ASSUME NEW i \in FindValid(cache, d) PROVE i \in Slots /\ cache[i].state = "VALID"
  <2>1. i \in Slots /\ Occupied(i) /\ cache[i].dbn = d
    BY <1>3 DEF FindValid, In, SlotsOf
  <2>2. Holders(i) = {}
    <3> SUFFICES ASSUME NEW c \in Holders(i) PROVE FALSE
      OBVIOUS
    <3>1. bio[c].rw \in Uses /\ bio[c].index = i
      BY DEF Holders
    <3>2. bio[c].dbn = d
      BY <2>1, <3>1 DEF UsesApart, Holders
    <3> QED BY <1>1, <3>1, <3>2 DEF Holders, Uses, Source
  <2> QED BY <2>1, <2>2 DEF WtIInv, OneOwner, Occupied
<1> QED BY <1>1, <1>3, <1>4 DEF InUse

(* C is the cache without its copies of block d.                           *)
Without(C, d) ==
  \A i \in Slots : \/ C[i] = Empty
                   \/ C[i] = cache[i] /\ (Occupied(i) => cache[i].dbn # d)

LEMMA InvalidatedWithout ==
  ASSUME WtIInv, BlocksApart, UsesApart, apart, NEW b \in Bios, NEW d \in Dbns, Arrives(b, d)
  PROVE  /\ Without(Invalidated(cache, d), d)
         /\ FindValid(cache, d) = {} => Without(cache, d)
  BY Arrival DEF Without, Invalidated

LEMMA PassesApart ==
  ASSUME WtIInv, WtIInv', BlocksApart, UsesApart, DataApart, apart,
         NEW b \in Bios, NEW d \in Dbns, NEW w \in BOOLEAN, Arrives(b, d),
         Uncached(b, Arriving(d, w)), Without(cache', d)
  PROVE  BlocksApart' /\ UsesApart' /\ DataApart'
<1> DEFINE x == [Arriving(d, w) EXCEPT !.rw = "UNCACHED"]
<1>1. bio' = [bio EXCEPT ![b] = x] /\ bio \in [Bios -> BioType]
  BY DEF Uncached, WtIInv, OneOwner, WtTypeOK
<1>2. x.rw = "UNCACHED" /\ x.io = "new" /\ x.dbn = d
  BY DEF Arriving, NoBio
<1> HIDE DEF x
<1>3. bio'[b] = x /\ \A c \in Bios \ {b} : bio'[c] = bio[c]
  BY <1>1
<1>4. BioCurrent(b)'
  BY <1>2, <1>3 DEF BioCurrent, Source
<1>5. \A j \in Slots : /\ cache'[j] = cache[j] \/ cache'[j].state = "INVALID"
                       /\ cache'[j].state # "INVALID" => cache'[j].dbn # d
  BY DEF Without, Empty, Occupied
<1>6. \A c \in Bios \ {b} : Out(c) => bio[c].dbn # d
  BY Arrival
<1>7. bio'[b].rw \notin Uses
  BY <1>2, <1>3 DEF Uses, Source
<1> QED BY <1>2, <1>3, <1>4, <1>5, <1>6, <1>7, ApartStep

LEMMA ClaimsApart ==
  ASSUME WtIInv, WtIInv', BlocksApart, UsesApart, DataApart, apart,
         NEW b \in Bios, NEW d \in Dbns, NEW w \in BOOLEAN, Arrives(b, d),
         NEW C, C = cache \/ C = Invalidated(cache, d), Without(C, d),
         NEW rw \in Source, Claim(b, Arriving(d, w), C, rw)
  PROVE  BlocksApart' /\ UsesApart' /\ DataApart'
<1> DEFINE t == SetOfDbn(d)
           Claimed(i) ==
             /\ cache' = [C EXCEPT ![i] = [Empty EXCEPT !.dbn = d, !.state = "INPROG"]]
             /\ bio' = [bio EXCEPT ![b] = [Arriving(d, w) EXCEPT !.rw = rw, !.index = i]]
<1>1. WtTypeOK
  BY DEF WtIInv, OneOwner
<1>2. C \in [Slots -> SlotType]
  BY <1>1, InvalidatedType DEF WtTypeOK
<1>3. Arriving(d, w).dbn = d
  BY DEF Arriving, NoBio
<1>4. \/ \E i \in SlotsOf(t) : C[i].state \in Free /\ Claimed(i)
      \/ Uncached(b, Arriving(d, w)) /\ cache' = C
  BY <1>3 DEF Claim, FindInvalid, FindReclaim, In, Free
<1>5. ASSUME NEW i \in SlotsOf(t), C[i].state \in Free, Claimed(i)
      PROVE  BlocksApart' /\ UsesApart' /\ DataApart'
  <2> DEFINE x == [Arriving(d, w) EXCEPT !.rw = rw, !.index = i]
  <2>1. i \in Slots /\ SetOf(i) = SetOfDbn(d)
    BY DEF SlotsOf
  <2>2. x.rw = rw /\ x.io = "new" /\ x.dbn = d /\ x.index = i
    BY DEF Arriving, NoBio
  <2>3. bio' = [bio EXCEPT ![b] = x]
    BY <1>5
  <2> HIDE DEF x
  <2>4. bio'[b] = x /\ \A c \in Bios \ {b} : bio'[c] = bio[c]
    BY <1>1, <2>3 DEF WtTypeOK
  <2>5. /\ cache'[i].dbn = d /\ cache'[i].state = "INPROG"
        /\ \A j \in Slots \ {i} : cache'[j] = C[j]
    BY <1>2, <1>5, <2>1 DEF Empty
  <2>6. BioCurrent(b)'
    BY <2>2, <2>4 DEF BioCurrent, Source
  <2>7. \A j \in Slots \ {i} : /\ cache'[j] = cache[j] \/ cache'[j].state = "INVALID"
                               /\ cache'[j].state # "INVALID" => cache'[j].dbn # d
    BY <2>5 DEF Without, Empty, Occupied
  <2>8. \A c \in Bios \ {b} : Out(c) => bio[c].dbn # d
    BY Arrival
  <2>9. \A c \in Bios \ {b} : bio[c].rw \in Uses => bio[c].index # i
    <3>1. cache[i].state \in Free
      BY <1>1, <1>5, <2>1, InvalidatedSlot DEF WtTypeOK, SlotType, States, Free
    <3>2. Holders(i) = {}
      BY <2>1, <3>1 DEF WtIInv, OneOwner, Free
    <3> QED BY <3>2 DEF Holders
  <2>10. SlotAllowed(b, i)
    BY <2>1, <2>5, <2>7, <2>8, <2>9 DEF SlotAllowed
  <2>11. bio'[b].rw \in Source /\ "UNCACHED" \notin Source
    BY <2>2, <2>4 DEF Source
  <2> QED BY <2>1, <2>2, <2>4, <2>5, <2>6, <2>7, <2>8, <2>10, <2>11, ApartStep
<1>6. CASE Uncached(b, Arriving(d, w)) /\ cache' = C
  BY <1>6, PassesApart
<1> QED BY <1>4, <1>5, <1>6

LEMMA MapApart ==
  ASSUME WtIInv, WtIInv', BlocksApart, UsesApart, DataApart, apart,
         NEW b \in Bios, NEW d \in Dbns, Map(b, d)
  PROVE  BlocksApart' /\ UsesApart' /\ DataApart'
<1>1. Arrives(b, d)
  BY DEF Map
<1>2. PICK write \in BOOLEAN, whole \in BOOLEAN :
        LET arrived == Arriving(d, write) IN
        IF ~whole \/ (write /\ write_around_mode) THEN PassAround(b, arrived)
        ELSE IF write THEN CacheWrite(b, arrived)
        ELSE ReadHit(b, arrived) \/ ReadMiss(b, arrived)
  BY DEF Map
<1> DEFINE arrived == Arriving(d, write)
<1>3. arrived.dbn = d
  BY DEF Arriving, NoBio
<1>4. ~InUse(cache, d) /\ Without(Invalidated(cache, d), d)
  BY <1>1, Arrival, InvalidatedWithout
<1>5. CASE PassAround(b, arrived)
  BY <1>1, <1>3, <1>4, <1>5, PassesApart DEF PassAround
<1>6. CASE CacheWrite(b, arrived)
  <2>1. Claim(b, arrived, Invalidated(cache, d), "WRITESOURCE")
    BY <1>3, <1>4, <1>6 DEF CacheWrite
  <2> QED BY <1>1, <1>4, <2>1, ClaimsApart DEF Source
<1>7. CASE ReadMiss(b, arrived)
  <2>1. /\ Claim(b, arrived, cache, "READSOURCE")
        /\ \A i \in FindValid(cache, d) : cache[i].state # "VALID"
    BY <1>3, <1>4, <1>7 DEF ReadMiss
  <2>2. FindValid(cache, d) = {}
    BY <1>1, <2>1, Arrival
  <2>3. Without(cache, d)
    BY <1>1, <2>2, InvalidatedWithout
  <2> QED BY <1>1, <2>1, <2>3, ClaimsApart DEF Source
<1>8. CASE ReadHit(b, arrived)
  <2>1. PICK i \in FindValid(cache, d) :
          /\ cache[i].state = "VALID"
          /\ cache' = [cache EXCEPT ![i].state = "CACHEREADINPROG"]
          /\ bio' = [bio EXCEPT ![b] = [arrived EXCEPT !.rw = "READCACHE", !.index = i]]
    BY <1>3, <1>8 DEF ReadHit
  <2> DEFINE x == [arrived EXCEPT !.rw = "READCACHE", !.index = i]
  <2>2. x.rw = "READCACHE" /\ x.io = "new" /\ x.dbn = d /\ x.index = i
    BY DEF Arriving, NoBio
  <2>3. bio' = [bio EXCEPT ![b] = x]
    BY <2>1
  <2> HIDE DEF x
  <2>4. bio'[b] = x /\ \A c \in Bios \ {b} : bio'[c] = bio[c]
    BY <2>3 DEF WtIInv, OneOwner, WtTypeOK
  <2>5. i \in Slots /\ Occupied(i) /\ cache[i].dbn = d
    BY <1>1, Arrival
  <2>6. /\ cache'[i].dbn = d /\ cache'[i].state = "CACHEREADINPROG"
        /\ cache'[i].fresh = cache[i].fresh
        /\ \A j \in Slots \ {i} : cache'[j] = cache[j]
    BY <2>1, <2>5 DEF WtIInv, OneOwner, WtTypeOK, SlotType
  <2>7. \A c \in Bios \ {b} : Out(c) => bio[c].dbn # d
    BY <1>1, Arrival
  <2>8. \A c \in Bios \ {b} : bio[c].rw \in Uses => bio[c].index # i
    <3>1. Holders(i) = {}
      BY <2>1, <2>5 DEF WtIInv, OneOwner
    <3> QED BY <3>1 DEF Holders
  <2>9. SlotAllowed(b, i)
    <3>1. \A k \in Slots \ {i} : cache'[k].state # "INVALID" => cache'[k].dbn # d
      BY <2>5, <2>6 DEF BlocksApart, Occupied
    <3>2. SetOf(i) = SetOfDbn(d) /\ cache[i].fresh
      BY <2>1, <2>5 DEF BlocksApart, DataApart
    <3> QED BY <2>6, <2>7, <2>8, <3>1, <3>2 DEF SlotAllowed
  <2>10. BioCurrent(b)'
    BY <2>2, <2>4 DEF BioCurrent, Source
  <2> QED BY <2>2, <2>4, <2>6, <2>7, <2>9, <2>10, <2>5, ApartStep
<1> QED BY <1>2, <1>5, <1>6, <1>7, <1>8

(* The slot that a bio uses.                                               *)
LEMMA OwnSlot ==
  ASSUME WtIInv, BlocksApart, UsesApart, NEW b \in Bios, bio[b].rw \in Uses
  PROVE  /\ bio[b].index \in Slots /\ Occupied(bio[b].index)
         /\ cache[bio[b].index].dbn = bio[b].dbn
         /\ cache[bio[b].index].state
              = IF bio[b].rw \in Reading THEN "CACHEREADINPROG" ELSE "INPROG"
         /\ \A c \in Bios \ {b} : bio[c].rw \in Uses => bio[c].index # bio[b].index
         /\ \A c \in Bios \ {b} : Out(c) => bio[c].dbn # bio[b].dbn
<1> PICK i \in Slots : i = bio[b].index
  BY DEF WtIInv, JobShape
<1>1. b \in Holders(i) /\ \A c \in Holders(i) : c = b
  BY DEF Holders, WtIInv, OneOwner
<1>2. Occupied(i)
  BY <1>1 DEF WtIInv, OneOwner, Occupied
<1>3. cache[i].state # "INPROG_INVALID"
  BY <1>2 DEF BlocksApart
<1>4. cache[i].state = IF bio[b].rw \in Reading THEN "CACHEREADINPROG" ELSE "INPROG"
  BY <1>3 DEF WtIInv, OneOwner, Reading, Uses, Source, State
<1>5. \A c \in Bios \ {b} : bio[c].rw \in Uses => bio[c].index # i
  BY <1>1 DEF Holders
<1>6. Out(b)
  BY DEF Uses, Source
<1>7. \A c \in Bios \ {b} : Out(c) => bio[c].dbn # bio[b].dbn
  BY <1>6 DEF BlocksApart
<1> QED BY <1>2, <1>4, <1>5, <1>7 DEF UsesApart

LEMMA OwnSlotAllowed ==
  ASSUME WtIInv, BlocksApart, UsesApart, NEW b \in Bios, bio[b].rw \in Uses,
         NEW i \in Slots, i = bio[b].index, cache'[i].dbn = cache[i].dbn,
         cache'[i].state # "INPROG_INVALID",
         cache'[i].state \in {"VALID", "CACHEREADINPROG"} => cache'[i].fresh,
         \A k \in Slots \ {i} : cache'[k].dbn = cache[k].dbn /\ cache'[k].state = cache[k].state
  PROVE  SlotAllowed(b, i)
<1>1. /\ Occupied(i) /\ cache[i].dbn = bio[b].dbn
      /\ \A c \in Bios \ {b} : bio[c].rw \in Uses => bio[c].index # i
      /\ \A c \in Bios \ {b} : Out(c) => bio[c].dbn # bio[b].dbn
  BY OwnSlot
<1>2. cache[i].dbn \in Dbns /\ SetOf(i) = SetOfDbn(cache[i].dbn)
  BY <1>1 DEF BlocksApart
<1>3. \A k \in Slots \ {i} : cache'[k].state # "INVALID" => cache'[k].dbn # cache'[i].dbn
  BY <1>1 DEF BlocksApart, Occupied
<1>4. \A c \in Bios \ {b} : bio[c].rw = "UNCACHED" => bio[c].dbn # cache'[i].dbn
  BY <1>1
<1> QED BY <1>1, <1>2, <1>3, <1>4 DEF SlotAllowed

(* Only the bio changes.                                                   *)
LEMMA BioApart ==
  ASSUME WtIInv, WtIInv', BlocksApart, UsesApart, DataApart, NEW b \in Bios, NEW x,
         bio' = [bio EXCEPT ![b] = x], cache' = cache, Out(b),
         x.dbn = bio[b].dbn, x.index = bio[b].index,
         x.rw \in Uses => bio[b].rw \in Uses,
         x.rw = "UNCACHED" => bio[b].rw = "UNCACHED",
         BioCurrent(b)'
  PROVE  BlocksApart' /\ UsesApart' /\ DataApart'
<1>1. bio'[b] = x /\ \A c \in Bios \ {b} : bio'[c] = bio[c]
  BY DEF WtIInv, OneOwner, WtTypeOK
<1>2. /\ x.dbn \in Dbns
      /\ \A c \in Bios \ {b} : Out(c) => bio[c].dbn # x.dbn
  BY DEF BlocksApart
<1>3. x.rw \in Uses => cache'[x.index].dbn = x.dbn
  BY DEF UsesApart
<1>4. x.rw = "UNCACHED" => \A j \in Slots : cache'[j].state # "INVALID" => cache'[j].dbn # x.dbn
  BY DEF UsesApart, Occupied
<1> QED BY <1>1, <1>2, <1>3, <1>4, ApartStep

(* The bio ends, or goes uncached, and gives up its slot.                  *)
LEMMA EndsApart ==
  ASSUME WtIInv, WtIInv', BlocksApart, UsesApart, DataApart, NEW b \in Bios,
         bio[b].rw \in Uses, NEW st \in Free, Released(bio[b].index, st),
         st = "VALID" => cache[bio[b].index].fresh,
         \/ Gone(b) \/ CountGivenUp(b)
         \/ st = "INVALID" /\ Uncached(b, Arriving(bio[b].dbn, FALSE))
  PROVE  BlocksApart' /\ UsesApart' /\ DataApart'
<1> PICK i \in Slots : i = bio[b].index
  BY OwnSlot
<1>1. /\ cache'[i] = IF st = "INVALID" THEN Empty ELSE [cache[i] EXCEPT !.state = st]
      /\ \A k \in Slots \ {i} : cache'[k] = cache[k]
      /\ cache[i] \in SlotType
  BY DEF Released, WtIInv, OneOwner, WtTypeOK
<1>2. /\ Occupied(i) /\ cache[i].dbn = bio[b].dbn
      /\ \A c \in Bios \ {b} : Out(c) => bio[c].dbn # bio[b].dbn
  BY OwnSlot
<1>3. cache'[i].state = "INVALID" \/ SlotAllowed(b, i)
  <2>1. CASE st = "INVALID"
    BY <1>1, <2>1 DEF Empty
  <2>2. CASE st = "VALID"
    <3>1. cache'[i].state = "VALID" /\ cache'[i].dbn = cache[i].dbn /\ cache'[i].fresh
      BY <1>1, <2>2 DEF SlotType
    <3> QED BY <1>1, <3>1, OwnSlotAllowed
  <2> QED BY <2>1, <2>2 DEF Free
<1>4. CASE Gone(b) \/ CountGivenUp(b)
  <2>1. /\ ~Out(b)' /\ \A c \in Bios \ {b} : bio'[c] = bio[c]
    BY <1>4 DEF Gone, CountGivenUp, Waking, NoBio, WtIInv, OneOwner, WtTypeOK
  <2>2. BioCurrent(b)' /\ bio'[b].rw \notin Uses
    BY <2>1 DEF BioCurrent, Source, Uses
  <2> QED BY <1>1, <1>3, <2>1, <2>2, ApartStep
<1>5. CASE st = "INVALID" /\ Uncached(b, Arriving(bio[b].dbn, FALSE))
  <2> DEFINE x == [Arriving(bio[b].dbn, FALSE) EXCEPT !.rw = "UNCACHED"]
  <2>1. bio' = [bio EXCEPT ![b] = x]
    BY <1>5 DEF Uncached
  <2>2. x.rw = "UNCACHED" /\ x.io = "new" /\ x.dbn = bio[b].dbn
    BY DEF Arriving, NoBio
  <2> HIDE DEF x
  <2>3. bio'[b] = x /\ \A c \in Bios \ {b} : bio'[c] = bio[c]
    BY <2>1 DEF WtIInv, OneOwner, WtTypeOK
  <2>4. BioCurrent(b)' /\ bio'[b].rw \notin Uses
    BY <2>2, <2>3 DEF BioCurrent, Source, Uses
  <2>5. x.dbn \in Dbns
    BY <1>2, <2>2 DEF BlocksApart
  <2>6. \A j \in Slots : cache'[j].state # "INVALID" => cache'[j].dbn # x.dbn
    BY <1>1, <1>2, <1>5, <2>2 DEF BlocksApart, Occupied, Empty
  <2> QED BY <1>1, <1>2, <1>3, <2>2, <2>3, <2>4, <2>5, <2>6, ApartStep
<1> QED BY <1>4, <1>5

(* The disk is written: every other copy of the block would be old.        *)
LEMMA DiskWritesApart ==
  ASSUME WtIInv, WtIInv', BlocksApart, UsesApart, DataApart, NEW b \in Bios, DiskWrites(b)
  PROVE  BlocksApart' /\ UsesApart' /\ DataApart'
<1>1. PICK err \in Errors("disk"), lands \in BOOLEAN :
       /\ err \/ lands
       /\ bio' = [c \in Bios |->
            IF c = b THEN [bio[b] EXCEPT !.io = "served", !.err = err, !.fresh = lands]
            ELSE IF lands /\ bio[c].dbn = bio[b].dbn THEN [bio[c] EXCEPT !.fresh = FALSE]
            ELSE bio[c]]
       /\ cache' = [i \in Slots |->
            IF lands /\ cache[i].dbn = bio[b].dbn THEN [cache[i] EXCEPT !.fresh = FALSE]
            ELSE cache[i]]
  BY DEF DiskWrites
<1>2. bio[b].rw \in {"WRITESOURCE", "UNCACHED"} /\ bio[b].io = "new" /\ bio[b].write
  BY DEF DiskWrites, At
<1>3. /\ bio \in [Bios -> BioType] /\ cache \in [Slots -> SlotType]
  BY DEF WtIInv, OneOwner, WtTypeOK
<1>4. /\ bio'[b].rw = bio[b].rw /\ bio'[b].io = "served" /\ bio'[b].write = bio[b].write
      /\ bio'[b].dbn = bio[b].dbn /\ bio'[b].index = bio[b].index
      /\ bio'[b].err = err /\ bio'[b].fresh = lands
  BY <1>1, <1>3 DEF BioType
<1>5. \A c \in Bios \ {b} : Out(c) => bio[c].dbn # bio[b].dbn
  BY <1>2 DEF BlocksApart
<1>6. \A c \in Bios \ {b} : \/ bio'[c] = bio[c]
                            \/ ~Out(c) /\ ~Out(c)'
  <2> TAKE c \in Bios \ {b}
  <2>1. CASE ~Out(c)
    BY <1>1, <1>3, <2>1 DEF BioType
  <2>2. CASE Out(c)
    <3>1. bio[c].dbn # bio[b].dbn
      BY <1>5, <2>2
    <3>2. bio'[c] = bio[c]
      BY <1>1, <3>1
    <3> QED BY <3>2
  <2> QED BY <2>1, <2>2
<1>7. \A j \in Slots : /\ cache'[j].state = cache[j].state /\ cache'[j].dbn = cache[j].dbn
                       /\ cache[j].dbn # bio[b].dbn => cache'[j] = cache[j]
  BY <1>1, <1>3 DEF SlotType
<1>8. BioCurrent(b)'
  BY <1>1, <1>2, <1>4 DEF BioCurrent, Source
<1>9. bio'[b].dbn \in Dbns
  BY <1>2, <1>4 DEF BlocksApart
<1>10. CASE bio[b].rw = "WRITESOURCE"
  <2>1. bio[b].rw \in Uses /\ bio[b].rw \notin Reading
    BY <1>10 DEF Uses, Source, Reading
  <2> PICK i \in Slots : i = bio[b].index
    BY <2>1, OwnSlot
  <2>2. Occupied(i) /\ cache[i].dbn = bio[b].dbn /\ cache[i].state = "INPROG"
    BY <2>1, OwnSlot
  <2>3. SlotAllowed(b, i)
    BY <1>7, <2>1, <2>2, OwnSlotAllowed
  <2>4. \A j \in Slots \ {i} : cache'[j] = cache[j] \/ cache'[j].state = "INVALID"
    BY <1>7, <2>2 DEF BlocksApart, Occupied
  <2>5. cache'[bio'[b].index].dbn = bio'[b].dbn /\ bio'[b].rw # "UNCACHED"
    BY <1>4, <1>7, <1>10, <2>2
  <2> QED BY <1>4, <1>5, <1>6, <1>8, <1>9, <2>3, <2>4, <2>5, ApartStep
<1>11. CASE bio[b].rw = "UNCACHED"
  <2>1. \A j \in Slots : cache[j].state # "INVALID" => cache[j].dbn # bio[b].dbn
    BY <1>11 DEF UsesApart, Occupied
  <2>2. \A j \in Slots : cache'[j] = cache[j] \/ cache'[j].state = "INVALID"
    BY <1>7, <2>1
  <2>3. \A j \in Slots : cache'[j].state # "INVALID" => cache'[j].dbn # bio'[b].dbn
    BY <1>4, <1>7, <2>1
  <2>4. bio'[b].rw \notin Uses
    BY <1>4, <1>11 DEF Uses, Source
  <2> QED BY <1>4, <1>5, <1>6, <1>8, <1>9, <2>2, <2>3, <2>4, ApartStep
<1> QED BY <1>2, <1>10, <1>11

(* The flash is written: the slot holds what the bio has, or nothing good. *)
LEMMA FlashWritesApart ==
  ASSUME WtIInv, WtIInv', BlocksApart, UsesApart, DataApart, NEW b \in Bios, FlashWrites(b)
  PROVE  BlocksApart' /\ UsesApart' /\ DataApart'
<1>1. PICK err \in Errors("ssd") :
       /\ bio' = [bio EXCEPT ![b].io = "served", ![b].err = err]
       /\ cache' = [cache EXCEPT ![bio[b].index].fresh = bio[b].fresh /\ ~err]
  BY DEF FlashWrites
<1>2. bio[b].rw = "WRITECACHE" /\ bio[b].rw \in Uses /\ bio[b].rw \notin Reading
  BY DEF FlashWrites, At, Uses, Reading
<1>3. /\ bio \in [Bios -> BioType] /\ cache \in [Slots -> SlotType] /\ err \in BOOLEAN
  BY DEF WtIInv, OneOwner, WtTypeOK, Errors
<1> PICK i \in Slots : i = bio[b].index
  BY <1>2, OwnSlot
<1>4. /\ bio'[b].rw = bio[b].rw /\ bio'[b].io = "served" /\ bio'[b].err = err
      /\ bio'[b].dbn = bio[b].dbn /\ bio'[b].index = bio[b].index /\ bio'[b].fresh = bio[b].fresh
      /\ \A c \in Bios \ {b} : bio'[c] = bio[c]
  BY <1>1, <1>3 DEF BioType
<1>5. /\ cache'[i].state = cache[i].state /\ cache'[i].dbn = cache[i].dbn
      /\ cache'[i].fresh = (bio[b].fresh /\ ~err)
      /\ \A k \in Slots \ {i} : cache'[k] = cache[k]
  <2>1. cache' = [cache EXCEPT ![i] = [cache[i] EXCEPT !.fresh = bio[b].fresh /\ ~err]]
    BY <1>1, <1>3
  <2> QED BY <1>3, <2>1 DEF SlotType
<1>6. cache[i].state = "INPROG" /\ cache[i].dbn = bio[b].dbn
  BY <1>2, OwnSlot
<1>7. SlotAllowed(b, i)
  BY <1>2, <1>5, <1>6, OwnSlotAllowed
<1>8. bio[b].fresh
  BY <1>2 DEF DataApart, BioCurrent
<1>9. BioCurrent(b)'
  BY <1>2, <1>4, <1>5, <1>8 DEF BioCurrent, Source
<1>10. /\ bio'[b].dbn \in Dbns
       /\ \A c \in Bios \ {b} : Out(c) => bio[c].dbn # bio'[b].dbn
  BY <1>2, <1>4 DEF BlocksApart
<1>11. cache'[bio'[b].index].dbn = bio'[b].dbn /\ bio'[b].rw # "UNCACHED"
  BY <1>2, <1>4, <1>5, <1>6
<1> QED BY <1>4, <1>5, <1>7, <1>9, <1>10, <1>11, ApartStep

(* The steps that leave the slots alone.                                   *)
LEMMA BioStepsApart ==
  ASSUME WtIInv, WtIInv', BlocksApart, UsesApart, DataApart, NEW b \in Bios,
         \/ DiskReads(b) \/ FlashReads(b) \/ SourceDone(b) \/ ReadCacheDone(b)
         \/ WriteCacheDone(b) \/ UncachedDone(b)
  PROVE  BlocksApart' /\ UsesApart' /\ DataApart'
<1> USE DEF At
<1>1. bio \in [Bios -> BioType] /\ cache \in [Slots -> SlotType] /\ bio[b] \in BioType
  BY DEF WtIInv, OneOwner, WtTypeOK
<1>2. BioCurrent(b)
  BY DEF DataApart
<1>3. CASE DiskReads(b)
  <2>1. PICK err \in Errors("disk") :
          bio' = [bio EXCEPT ![b].io = "served", ![b].err = err, ![b].fresh = ~err]
    BY <1>3 DEF DiskReads
  <2> DEFINE x == [bio[b] EXCEPT !.io = "served", !.err = err, !.fresh = ~err]
  <2>2. bio' = [bio EXCEPT ![b] = x]
    BY <1>1, <2>1
  <2>3. /\ x.rw = bio[b].rw /\ x.dbn = bio[b].dbn /\ x.index = bio[b].index
        /\ x.io = "served" /\ x.err = err /\ x.fresh = ~err
    BY <1>1 DEF BioType
  <2> HIDE DEF x
  <2>4. bio[b].rw \in {"READSOURCE", "UNCACHED"} /\ cache' = cache
    BY <1>3 DEF DiskReads
  <2>5. bio'[b] = x
    BY <1>1, <2>2
  <2>6. BioCurrent(b)'
    BY <2>3, <2>4, <2>5 DEF BioCurrent
  <2> QED BY <2>2, <2>3, <2>4, <2>6, BioApart
<1>4. CASE FlashReads(b)
  <2>1. PICK err \in Errors("ssd") :
          bio' = [bio EXCEPT ![b].io = "served", ![b].err = err,
                             ![b].fresh = ~err /\ cache[bio[b].index].fresh]
    BY <1>4 DEF FlashReads
  <2> DEFINE x == [bio[b] EXCEPT !.io = "served", !.err = err,
                                 !.fresh = ~err /\ cache[bio[b].index].fresh]
  <2>2. bio' = [bio EXCEPT ![b] = x]
    BY <1>1, <2>1
  <2>3. /\ x.rw = bio[b].rw /\ x.dbn = bio[b].dbn /\ x.index = bio[b].index
        /\ x.io = "served" /\ x.err = err /\ x.fresh = (~err /\ cache[bio[b].index].fresh)
    BY <1>1 DEF BioType
  <2> HIDE DEF x
  <2>4. bio[b].rw = "READCACHE" /\ cache' = cache
    BY <1>4 DEF FlashReads
  <2>5. bio'[b] = x
    BY <1>1, <2>2
  <2>6. cache[bio[b].index].fresh
    <3>1. bio[b].rw \in Uses /\ bio[b].rw \in Reading
      BY <2>4 DEF Uses, Reading
    <3>2. bio[b].index \in Slots /\ cache[bio[b].index].state = "CACHEREADINPROG"
      BY <3>1, OwnSlot
    <3> QED BY <3>2 DEF DataApart
  <2>7. BioCurrent(b)'
    BY <2>3, <2>4, <2>5, <2>6 DEF BioCurrent, Source
  <2> QED BY <2>2, <2>3, <2>4, <2>7, BioApart
<1>5. CASE SourceDone(b)
  <2>1. bio[b].rw \in Source /\ bio[b].io = "served" /\ cache' = cache
    BY <1>5 DEF SourceDone
  <2>2. bio[b].err \/ bio[b].fresh
    BY <1>2, <2>1 DEF BioCurrent
  <2>3. bio[b].rw \in Uses /\ bio[b].rw \notin Reading
    BY <2>1 DEF Uses, Source, Reading
  <2>4. State(b) = "INPROG"
    BY <2>3, OwnSlot DEF State
  <2>5. CASE bio[b].err
    <3> DEFINE x == [bio[b] EXCEPT !.io = "ended"]
    <3>1. bio' = [bio EXCEPT ![b] = x]
      BY <1>1, <1>5, <2>5 DEF SourceDone
    <3>2. /\ x.rw = bio[b].rw /\ x.dbn = bio[b].dbn /\ x.index = bio[b].index
          /\ x.io = "ended" /\ x.err = bio[b].err
      BY <1>1 DEF BioType
    <3> HIDE DEF x
    <3>3. bio'[b] = x
      BY <1>1, <3>1
    <3>4. BioCurrent(b)'
      BY <2>1, <2>5, <3>2, <3>3 DEF BioCurrent, Source
    <3> QED BY <2>1, <2>3, <3>1, <3>2, <3>4, BioApart DEF Uses, Source
  <2>6. CASE ~bio[b].err
    <3> DEFINE x == [bio[b] EXCEPT !.rw = "WRITECACHE", !.io = "new"]
    <3>1. bio' = [bio EXCEPT ![b] = x]
      BY <1>1, <1>5, <2>4, <2>6 DEF SourceDone
    <3>2. /\ x.rw = "WRITECACHE" /\ x.dbn = bio[b].dbn /\ x.index = bio[b].index
          /\ x.io = "new" /\ x.fresh = bio[b].fresh
      BY <1>1 DEF BioType
    <3> HIDE DEF x
    <3>3. bio'[b] = x
      BY <1>1, <3>1
    <3>4. BioCurrent(b)'
      BY <2>2, <2>6, <3>2, <3>3 DEF BioCurrent, Source
    <3> QED BY <2>1, <2>3, <3>1, <3>2, <3>4, BioApart DEF Uses, Source
  <2> QED BY <2>5, <2>6
<1>6. CASE ReadCacheDone(b)
  <2>1. bio[b].rw = "READCACHE" /\ bio[b].io = "served" /\ cache' = cache
    BY <1>6 DEF ReadCacheDone
  <2>2. CASE bio' = [bio EXCEPT ![b].rw = "READCACHE_DONE"]
    <3> DEFINE x == [bio[b] EXCEPT !.rw = "READCACHE_DONE"]
    <3>1. bio' = [bio EXCEPT ![b] = x]
      BY <1>1, <2>2
    <3>2. /\ x.rw = "READCACHE_DONE" /\ x.dbn = bio[b].dbn /\ x.index = bio[b].index
          /\ x.io = "served"
      BY <1>1, <2>1 DEF BioType
    <3> HIDE DEF x
    <3>3. BioCurrent(b)'
      BY <1>1, <3>1, <3>2 DEF BioCurrent, Source
    <3> QED BY <2>1, <3>1, <3>2, <3>3, BioApart DEF Uses
  <2>3. CASE bio' = [bio EXCEPT ![b].io = "ended"]
    <3> DEFINE x == [bio[b] EXCEPT !.io = "ended"]
    <3>1. bio' = [bio EXCEPT ![b] = x]
      BY <1>1, <2>3
    <3>2. /\ x.rw = bio[b].rw /\ x.dbn = bio[b].dbn /\ x.index = bio[b].index
          /\ x.err = bio[b].err /\ x.fresh = bio[b].fresh /\ x.write = bio[b].write
      BY <1>1 DEF BioType
    <3> HIDE DEF x
    <3>3. BioCurrent(b)'
      BY <1>1, <1>2, <2>1, <3>1, <3>2 DEF BioCurrent, Source
    <3> QED BY <2>1, <3>1, <3>2, <3>3, BioApart
  <2> QED BY <1>6, <2>2, <2>3 DEF ReadCacheDone
<1>7. CASE WriteCacheDone(b) \/ UncachedDone(b)
  <2>1. bio[b].rw \in {"WRITECACHE", "UNCACHED"} /\ bio[b].io = "served"
    BY <1>7 DEF WriteCacheDone, UncachedDone
  <2>2. cache' = cache
    <3>1. CASE WriteCacheDone(b)
      BY <3>1 DEF WriteCacheDone
    <3>2. CASE UncachedDone(b)
      <4>1. bio[b].rw = "UNCACHED" /\ cache' = Invalidated(cache, bio[b].dbn)
        BY <3>2 DEF UncachedDone
      <4>2. FindValid(cache, bio[b].dbn) = {}
        BY <4>1 DEF FindValid, In, SlotsOf, Usable, UsesApart, Occupied
      <4> QED BY <1>1, <4>1, <4>2 DEF Invalidated
    <3> QED BY <1>7, <3>1, <3>2
  <2> DEFINE x == [bio[b] EXCEPT !.io = "ended"]
  <2>3. bio' = [bio EXCEPT ![b] = x]
    BY <1>1, <1>7 DEF WriteCacheDone, UncachedDone
  <2>4. /\ x.rw = bio[b].rw /\ x.dbn = bio[b].dbn /\ x.index = bio[b].index
        /\ x.io = "ended"
        /\ x.err = bio[b].err /\ x.fresh = bio[b].fresh /\ x.write = bio[b].write
    BY <1>1 DEF BioType
  <2> HIDE DEF x
  <2>5. bio'[b] = x
    BY <1>1, <2>3
  <2>6. BioCurrent(b)'
    BY <1>2, <2>1, <2>2, <2>4, <2>5 DEF BioCurrent, Source
  <2> QED BY <2>1, <2>2, <2>3, <2>4, <2>6, BioApart
<1> QED BY <1>3, <1>4, <1>5, <1>6, <1>7

LEMMA StepApart ==
  ASSUME WtIInv, WtIInv', BlocksApart, UsesApart, DataApart, NEW b \in Bios, Step(b)
  PROVE  BlocksApart' /\ UsesApart' /\ DataApart'
<1> USE DEF At
<1>1. CASE \/ NoJob(b) \/ Release(b) \/ DoComplete(b)
  <2>1. CASE NoJob(b) /\ bio[b].rw = "UNCACHED"
    <3>1. cache' = cache /\ ~Out(b)' /\ \A c \in Bios \ {b} : bio'[c] = bio[c]
      BY <2>1 DEF NoJob, Gone, NoBio, WtIInv, OneOwner, WtTypeOK
    <3>2. BioCurrent(b)' /\ bio'[b].rw \notin Uses
      BY <3>1 DEF BioCurrent, Source, Uses
    <3> QED BY <3>1, <3>2, ApartStep
  <2>2. CASE ~(NoJob(b) /\ bio[b].rw = "UNCACHED")
    <3>1. bio[b].rw \in Uses
      BY <1>1, <2>2 DEF NoJob, Release, DoComplete, Uses, Source
    <3>2. \E st \in Free :
            /\ Released(bio[b].index, st)
            /\ st = "VALID" => \/ bio[b].rw = "READCACHE"
                               \/ bio[b].rw = "WRITECACHE" /\ bio[b].io # "new" /\ ~bio[b].err
            /\ \/ Gone(b) \/ CountGivenUp(b)
               \/ st = "INVALID" /\ Uncached(b, Arriving(bio[b].dbn, FALSE))
      <4>1. CASE NoJob(b)
        BY <2>2, <4>1 DEF NoJob, Free
      <4>2. CASE Release(b)
        BY <4>2 DEF Release, Free
      <4>3. CASE DoComplete(b)
        BY <4>3 DEF DoComplete, Free
      <4> QED BY <1>1, <4>1, <4>2, <4>3
    <3>3. bio[b].rw = "READCACHE" => cache[bio[b].index].fresh
      BY <3>1, OwnSlot DEF DataApart, Reading
    <3>4. bio[b].rw = "WRITECACHE" /\ bio[b].io # "new" /\ ~bio[b].err => cache[bio[b].index].fresh
      BY DEF DataApart, BioCurrent
    <3> QED BY <3>1, <3>2, <3>3, <3>4, EndsApart
  <2> QED BY <2>1, <2>2
<1>2. CASE UncachedRelease(b) \/ WakeUp(b)
  <2>1. cache' = cache /\ ~Out(b)' /\ \A c \in Bios \ {b} : bio'[c] = bio[c]
    BY <1>2 DEF UncachedRelease, WakeUp, CountGivenUp, Gone, Waking, NoBio, WtIInv, OneOwner, WtTypeOK
  <2>2. BioCurrent(b)' /\ bio'[b].rw \notin Uses
    BY <2>1 DEF BioCurrent, Source, Uses
  <2> QED BY <2>1, <2>2, ApartStep
<1>3. CASE DiskWrites(b) \/ FlashWrites(b)
  BY <1>3, DiskWritesApart, FlashWritesApart
<1>4. CASE \/ DiskReads(b) \/ FlashReads(b) \/ SourceDone(b) \/ ReadCacheDone(b)
           \/ WriteCacheDone(b) \/ UncachedDone(b)
  BY <1>4, BioStepsApart
<1> QED BY <1>1, <1>2, <1>3, <1>4 DEF Step

LEMMA NextApart == WtIInv /\ ApartInv /\ [Next]_vars => ApartInv'
<1> SUFFICES ASSUME WtIInv, ApartInv, [Next]_vars, apart'
             PROVE  BlocksApart' /\ UsesApart' /\ DataApart'
  BY DEF ApartInv
<1> WtIInv'
  BY NextInv
<1>1. apart
  BY DEF Next, vars, Construct, Destroy, Map, Step, NoJob, DiskReads, DiskWrites, FlashReads,
         FlashWrites, SourceDone, ReadCacheDone, WriteCacheDone, Release, DoComplete,
         UncachedDone, UncachedRelease, WakeUp, context
<1>2. BlocksApart /\ UsesApart /\ DataApart
  BY <1>1 DEF ApartInv
<1>3. CASE Construct
  <2>1. \A b \in Bios : ~Out(b)
    BY <1>3 DEF Construct, WtIInv, OnlyWakeUpsRemain
  <2>2. bio' = bio /\ \A i \in Slots : cache'[i].state = "INVALID"
    BY <1>3 DEF Construct, Empty
  <2> QED BY <2>1, <2>2 DEF BlocksApart, UsesApart, DataApart, BioCurrent, Occupied, Uses, Source
<1>4. CASE Destroy \/ UNCHANGED vars
  <2>1. bio' = bio /\ cache' = cache
    BY <1>4 DEF Destroy, vars
  <2> QED BY <1>2, <2>1 DEF BlocksApart, UsesApart, DataApart, BioCurrent, Occupied
<1>5. ASSUME NEW b \in Bios, NEW d \in Dbns, Map(b, d)
      PROVE  BlocksApart' /\ UsesApart' /\ DataApart'
  BY <1>1, <1>2, <1>5, MapApart
<1>6. ASSUME NEW b \in Bios, Step(b)
      PROVE  BlocksApart' /\ UsesApart' /\ DataApart'
  BY <1>2, <1>6, StepApart
<1> QED BY <1>3, <1>4, <1>5, <1>6 DEF Next

(* When the bios to a block are kept apart, whatever else the bios to      *)
(* other blocks do and whatever fails, the cache is current and so is      *)
(* every read that ends well.                                              *)
THEOREM TheCacheIsCurrentIfApart == Spec => []CurrentIfApart
<1>1. Init => ApartInv
  BY DEF Init, ApartInv, BlocksApart, UsesApart, DataApart, BioCurrent, Occupied, Empty, NoBio,
         Uses, Source
<1>2. WtIInv /\ ApartInv => CurrentIfApart
  <2> SUFFICES ASSUME WtIInv, apart, BlocksApart, UsesApart, DataApart
               PROVE  CurrentIfApart
    BY DEF ApartInv, CurrentIfApart
  <2>1. ASSUME NEW i \in Slots, cache[i].state \in {"VALID", "CACHEREADINPROG"}
        PROVE  cache[i].fresh /\ FindValid(cache, cache[i].dbn) = {i}
    <3>1. cache[i].fresh /\ Occupied(i)
      BY <2>1 DEF DataApart, Occupied
    <3>2. i \in FindValid(cache, cache[i].dbn)
      BY <2>1, <3>1 DEF FindValid, In, SlotsOf, Usable, BlocksApart
    <3>3. ASSUME NEW j \in FindValid(cache, cache[i].dbn) PROVE j = i
      <4>1. j \in Slots /\ Occupied(j) /\ cache[j].dbn = cache[i].dbn
        BY DEF FindValid, In, SlotsOf, Usable, Occupied
      <4> QED BY <3>1, <4>1 DEF BlocksApart
    <3> QED BY <3>1, <3>2, <3>3
  <2>2. ASSUME NEW b \in Bios, bio[b].io = "ended", ~bio[b].write,
               bio[b].rw = "WRITECACHE" \/ ~bio[b].err
        PROVE  bio[b].fresh
    <3>1. bio[b].rw \in Uses \cup {"UNCACHED"}
      BY <2>2 DEF WtIInv, JobShape, OneOwner, WtTypeOK, BioType
    <3>2. BioCurrent(b)
      BY DEF DataApart
    <3> QED BY <2>2, <3>1, <3>2 DEF BioCurrent, Uses, Source
  <2> QED BY <2>1, <2>2 DEF CurrentIfApart
<1> QED BY InitInv, NextInv, NextApart, <1>1, <1>2, PTL DEF Spec
=============================================================================
