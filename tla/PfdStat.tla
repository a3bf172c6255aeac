------------------------------ MODULE PfdStat -------------------------------
(***************************************************************************)
(* The access-pattern detector of the prefetcher (src/pfd_stat.c): a short *)
(* queue of records, one for each process that reads a cache device, from  *)
(* which the next blocks of a sequential or strided reader are             *)
(* extrapolated.  Every read that reaches flashcache_read updates the      *)
(* record of its process under one lock, and the window of blocks to       *)
(* prefetch is computed from a copy of it.                                 *)
(***************************************************************************)
EXTENDS Integers, FiniteSets, SequencesExt

CONSTANTS
  Streams,        \* the pairs of a cache device and a pid that read
  None,           \* no stream: the record is unused
  STAT_COUNT,     \* PFD_STAT_COUNT, the records of the queue
  block_size,     \* the sectors of a block
  nr_sects,       \* the sectors of the disk
  THRESHOLD_STEP, \* PFD_CACHE_THRESHOLD_STEP
  MAX_STEP,       \* PFD_CACHE_MAX_STEP
  BLOCK_COUNT     \* PFD_CACHE_BLOCK_COUNT

ASSUME PfdStatAssumption ==
  /\ None \notin Streams
  /\ {STAT_COUNT, block_size, nr_sects, THRESHOLD_STEP, MAX_STEP, BLOCK_COUNT}
       \subseteq Nat \ {0}
  /\ MAX_STEP < BLOCK_COUNT

VARIABLES
  queue, \* main_queue: the records, the most recently used first
  read   \* ghost, read[s]: as much of what s has read last as its record claims

vars == <<queue, read>>

(* The sectors of the bios that reach flashcache_read: whole blocks, which *)
(* do_block_checks has found not to straddle a block boundary.             *)
Sectors == {n * block_size : n \in 0..(nr_sects \div block_size) - 1}

(* A run that is reset; the code clears its count, and nothing reads the   *)
(* start it leaves behind.                                                 *)
NoSeq == [start |-> 0, count |-> 0]

(* reset_pfd_stat, for a record that is given to stream s.                 *)
ResetStat(s) == [stream |-> s, stride |-> 0, stride_count |-> 0,
                 curr |-> NoSeq, prev |-> NoSeq]

Init ==
  /\ queue = [i \in 1..STAT_COUNT |-> ResetStat(None)]
  /\ read = [s \in Streams |-> <<>>]

-----------------------------------------------------------------------------
(* pfd_stat_update                                                         *)

Abs(n) == IF n < 0 THEN -n ELSE n

Begin(sector) == [start |-> sector, count |-> 1]

(* is_bio_fit_seq_stat.                                                    *)
Fits(seq, sector) == seq.start + seq.count * block_size = sector

(* The bio continues the current run.  A run that outgrows the one before  *)
(* it does not belong to a stride any more.                                *)
Continues(r) ==
  LET longer == [r EXCEPT !.curr.count = @ + 1] IN
  IF r.prev.count = 0 \/ longer.curr.count <= r.prev.count THEN longer
  ELSE [longer EXCEPT !.prev = NoSeq, !.stride = 0, !.stride_count = 0]

(* The first jump after a run: a stride, unless it is shorter than the run.*)
Jumps(r, sector) ==
  LET jump == sector - r.curr.start IN
  IF Abs(jump) \div block_size < r.curr.count
  THEN [r EXCEPT !.curr = Begin(sector), !.stride = 0, !.stride_count = 0]
  ELSE [r EXCEPT !.prev = r.curr, !.curr = Begin(sector),
                 !.stride = jump, !.stride_count = 1]

(* Refuted variant: the runs of a stride need not be of equal length.      *)
JumpsAgainShort(r, sector) ==
  IF sector - r.curr.start = r.stride
  THEN [r EXCEPT !.prev = r.curr, !.curr = Begin(sector), !.stride_count = @ + 1]
  ELSE [r EXCEPT !.prev = NoSeq, !.curr = Begin(sector),
                 !.stride = 0, !.stride_count = 0]

(* A further jump goes on with the stride, or ends it.                     *)
JumpsAgain(r, sector) ==
  IF r.prev.count = r.curr.count /\ sector - r.curr.start = r.stride
  THEN [r EXCEPT !.prev = r.curr, !.curr = Begin(sector), !.stride_count = @ + 1]
  ELSE [r EXCEPT !.prev = NoSeq, !.curr = Begin(sector),
                 !.stride = 0, !.stride_count = 0]

Updated(r, sector) ==
  IF r.curr.count = 0 THEN [r EXCEPT !.curr = Begin(sector)]
  ELSE IF Fits(r.curr, sector) THEN Continues(r)
  ELSE IF r.prev.count = 0 THEN Jumps(r, sector)
  ELSE JumpsAgain(r, sector)

(* The reads a record vouches for.                                         *)
Claimed(r) == r.stride_count * r.prev.count + r.curr.count

(* pfd_stat_queue_search, which gives up at the first unused record; the   *)
(* last record is reused when the stream has none.                         *)
Found(s) == SelectInSeq(queue, LAMBDA r : r.stream \in {s, None})

Newest(seq, n) == SubSeq(seq, Len(seq) - n + 1, Len(seq))

(* Refuted variant: the last record makes place for the one that moves.    *)
MovedDropsLast(i, u) == <<u>> \o RemoveAt(queue, STAT_COUNT)

(* pfd_stat_queue: the record goes to the front of the queue.              *)
Moved(i, u) == <<u>> \o RemoveAt(queue, i)

Update(s, sector) ==
  LET known == Found(s) # 0 /\ queue[Found(s)].stream = s
      i == IF known THEN Found(s) ELSE STAT_COUNT
      r == IF known THEN queue[i] ELSE ResetStat(s)
      u == Updated(r, sector)
      past == IF known THEN Append(read[s], sector) ELSE <<sector>>
  IN
  /\ queue' = Moved(i, u)
  /\ read' = [t \in Streams |->
                IF t = s
                THEN IF Claimed(u) <= Len(past) THEN Newest(past, Claimed(u)) ELSE past
                ELSE IF t = queue[i].stream THEN <<>> ELSE read[t]]

Next == \E s \in Streams, sector \in Sectors : Update(s, sector)

Spec == Init /\ [][Next]_vars

-----------------------------------------------------------------------------
(* pfd_stat_get_prefetch_dbns: the window, computed from a copy of the     *)
(* record (struct pfd_stat_info)                                           *)

MinOf(m, n) == IF m < n THEN m ELSE n

LastSect(r) == r.curr.start + (r.curr.count - 1) * block_size

(* No more steps than the record vouches for, and no more than have an     *)
(* entry of their own in the prefetch cache.                               *)
MaxStep(r) ==
  IF Claimed(r) < THRESHOLD_STEP THEN 0
  ELSE LET step == MinOf(Claimed(r), MAX_STEP) IN
       IF r.stride = 0 THEN step
       ELSE MinOf(step, (BLOCK_COUNT \div Abs(r.stride)) * r.prev.count)

(* The loops of the enumeration: the blocks of the window so far, the      *)
(* place in the run, the last block, and how much of the run was skipped.  *)
Loop(arr, j, dbn, skip) ==
  [arr |-> arr, j |-> j, dbn |-> dbn, skip |-> skip, done |-> FALSE]

(* Each block takes a step, and at most one more to begin its run.         *)
Iterate(Step(_), first, max) ==
  LET run[n \in 0..2 * max + 2] ==
        IF n = 0 THEN first
        ELSE LET l == run[n - 1] IN IF l.done THEN l ELSE Step(l)
  IN run[2 * max + 2].arr

(* Refuted variant: a run is taken to end one block later.                 *)
ForwardRunsOver(r, max) ==
  LET Step(l) ==
        LET next == l.dbn + block_size IN
        IF r.prev.count # 0 /\ l.j > r.prev.count
        THEN Loop(l.arr, 0, l.dbn + r.stride - r.prev.count * block_size, 0)
        ELSE IF Len(l.arr) >= max \/ next >= nr_sects THEN [l EXCEPT !.done = TRUE]
        ELSE Loop(Append(l.arr, next), l.j + 1, next, 0)
  IN Iterate(Step, Loop(<<>>, r.curr.count, LastSect(r), 0), max)

(* Refuted variant: the end of the disk is not looked for.                 *)
ForwardPastEnd(r, max) ==
  LET Step(l) ==
        LET next == l.dbn + block_size IN
        IF r.prev.count # 0 /\ l.j >= r.prev.count
        THEN Loop(l.arr, 0, l.dbn + r.stride - r.prev.count * block_size, 0)
        ELSE IF Len(l.arr) >= max THEN [l EXCEPT !.done = TRUE]
        ELSE Loop(Append(l.arr, next), l.j + 1, next, 0)
  IN Iterate(Step, Loop(<<>>, r.curr.count, LastSect(r), 0), max)

(* Forwards: the next blocks, each run followed by the next one, up to the *)
(* end of the disk.                                                        *)
Forward(r, max) ==
  LET Step(l) ==
        LET next == l.dbn + block_size IN
        IF r.prev.count # 0 /\ l.j >= r.prev.count
        THEN Loop(l.arr, 0, l.dbn + r.stride - r.prev.count * block_size, 0)
        ELSE IF Len(l.arr) >= max \/ next >= nr_sects THEN [l EXCEPT !.done = TRUE]
        ELSE Loop(Append(l.arr, next), l.j + 1, next, 0)
  IN Iterate(Step, Loop(<<>>, r.curr.count, LastSect(r), 0), max)

(* Backwards: the rest of this run from its end, then each earlier run     *)
(* from its end.  A run that crosses the beginning of the disk is dropped. *)
Backward(r, max) ==
  LET total == r.prev.count
      count == r.curr.count
      Step(l) ==
        LET next == l.dbn - block_size
            whole == IF Len(l.arr) < l.j THEN 0 ELSE Len(l.arr) - l.j
        IN IF l.j >= total
           THEN Loop(l.arr, 0, l.dbn + r.stride + (total - l.skip) * block_size, 0)
           ELSE IF Len(l.arr) >= max THEN [l EXCEPT !.done = TRUE]
           ELSE IF next < 0
           THEN [l EXCEPT !.done = TRUE, !.arr = SubSeq(@, 1, whole)]
           ELSE Loop(Append(l.arr, next), l.j + 1, next, l.skip)
      first == IF total = count
               THEN Loop(<<>>, 0, LastSect(r) + r.stride + block_size, 0)
               ELSE Loop(<<>>, count, LastSect(r) + (total - count + 1) * block_size, count)
  IN Iterate(Step, first, max)

(* The window of a record.  The code returns its length as a negative      *)
(* number when it runs backwards.                                          *)
Window(r) ==
  IF r.stride < 0 /\ r.prev.count # 0 THEN Backward(r, MaxStep(r)) ELSE Forward(r, MaxStep(r))

-----------------------------------------------------------------------------
(* Properties                                                              *)

Records == {queue[i] : i \in 1..STAT_COUNT} \ {ResetStat(None)}

(* The pattern of a record: the place of its read number n, counted from   *)
(* the start of the current run; n is negative for the runs before.        *)
Pattern(r, n) ==
  IF r.prev.count = 0 THEN r.curr.start + n * block_size
  ELSE r.curr.start + (n \div r.prev.count) * r.stride
                    + (n % r.prev.count) * block_size

TypeOK ==
  /\ Len(queue) = STAT_COUNT
  /\ \A r \in Records :
       /\ r.stream \in Streams
       /\ {r.curr.start, r.prev.start} \subseteq Sectors
       /\ r.curr.count \in Nat \ {0} /\ r.prev.count \in Nat

(* The queue never holds two records of a stream, and the unused records   *)
(* are at its end, where the search that stops at the first of them cannot *)
(* miss a record.                                                          *)
OneRecordPerStream ==
  /\ TypeOK
  /\ \A i, j \in 1..STAT_COUNT :
    i < j => /\ queue[i].stream = queue[j].stream => queue[i].stream = None
             /\ queue[i].stream = None => queue[j].stream = None

(* Everything a record vouches for has been read, in the order of its      *)
(* pattern, by the process it belongs to: the window is never longer than  *)
(* the evidence.                                                           *)
ClaimsAreBacked ==
  \A r \in Records :
    LET seen == read[r.stream] IN
    /\ Len(seen) = Claimed(r)
    /\ \A k \in 0..Len(seen) - 1 :
         seen[Len(seen) - k] = Pattern(r, r.curr.count - 1 - k)

(* The window goes on with the pattern where the reader stands: in its     *)
(* order when it runs forwards; run by run, each from its end, and without *)
(* a block twice, when it runs backwards.                                  *)
WindowFollowsPattern ==
  \A r \in Records :
    LET w == Window(r)
        Coming(k) == Pattern(r, r.curr.count - 1 + k)
    IN /\ Len(w) <= MinOf(Claimed(r), MAX_STEP)
       /\ IF r.stride >= 0
          THEN \A k \in DOMAIN w : w[k] = Coming(k)
          ELSE /\ IsInjective(w)
               /\ ToSet(w) \subseteq {Coming(k) : k \in 1..Len(w) + r.prev.count}

(* A window never leaves the disk, on either side, nor goes back to a      *)
(* block that the pattern has read.                                        *)
WindowIsAhead ==
  \A r \in Records :
    ToSet(Window(r)) \subseteq (0..nr_sects - 1) \ ToSet(read[r.stream])

=============================================================================
