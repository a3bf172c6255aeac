----------------------------- MODULE BlockLists -----------------------------
(***************************************************************************)
(* The lists of a cache set, link by link: the hot and warm LRU lists and  *)
(* the FIFO hand that choose the block to reclaim                          *)
(* (src/flashcache_reclaim.c), and the hash chains and the invalid list    *)
(* that share the same two links of a block (src/flashcache_subr.c).       *)
(* Everything here runs under the spinlock of the set, so that a lookup, a *)
(* reclaim, an invalidation is one action each; the order of the links is  *)
(* what makes it hard.  The I/O a block does between these steps is the    *)
(* subject of Flashcache; here a block is only in progress or not.         *)
(***************************************************************************)
EXTENDS Integers, FiniteSets, SequencesExt

CONSTANTS
  Assoc,         \* the number of blocks of the set
  Dbns,          \* the disk blocks that hash to the set
  Buckets,       \* the hash buckets of the set
  BucketOf,      \* the bucket of each disk block
  Null,          \* FLASHCACHE_NULL, and "no disk block"
  HotPcts,       \* the percentages lru_hot_pct may be given
  PromoteThresh, \* sysctl_lru_promote_thresh
  Policies       \* the reclaim policies the sysctl may be given

Slots == 0..Assoc - 1

ASSUME BlockListsAssumption ==
  /\ Assoc \in Nat \ {0}
  /\ Null \notin Slots \cup Dbns
  /\ BucketOf \in [Dbns -> Buckets]
  /\ HotPcts \subseteq 0..100 /\ HotPcts # {}
  /\ PromoteThresh \in Nat
  /\ Policies \subseteq {"FIFO", "LRU"} /\ Policies # {}

VARIABLES
  cache_state,    \* cache_state[s]: what the lists can tell of the state bits
  dbn,            \* dbn[s]: the disk block of slot s while it is hashed (the
                  \* code leaves the old one behind, where nothing reads it)
  lru,            \* the links and counts of the two LRU lists
  use_cnt,        \* use_cnt[s]: the accesses of a warm block since it came
  hash,           \* hash_prev and hash_next, the buckets and invalid_head
  set_fifo_next,  \* the FIFO hand
  reclaim_policy, \* sysctl_reclaim_policy
  hot_list_pct    \* the percentage the lists were last balanced for

vars == <<cache_state, dbn, lru, use_cnt, hash, set_fifo_next, reclaim_policy,
          hot_list_pct>>

-----------------------------------------------------------------------------
(* The two LRU lists                                                       *)

HotBlocks(pct) == (Assoc * pct) \div 100

(* Refuted variant: the back link of the next block is left alone.         *)
RemoveBlockNoBackLink(l, s) ==
  LET q == l.state[s]
      p == l.prev[s]
      n == l.next[s]
  IN [l EXCEPT !.next = IF p # Null THEN [@ EXCEPT ![p] = n] ELSE @,
               !.head[q] = IF p = Null THEN n ELSE @,
               !.tail[q] = IF n = Null THEN p ELSE @,
               !.blocks[q] = @ - 1]

(* flashcache_reclaim_remove_block_from_list.                              *)
RemoveBlock(l, s) ==
  LET q == l.state[s]
      p == l.prev[s]
      n == l.next[s]
      alone == p = Null /\ n = Null
  IN IF alone /\ l.head[q] = Null /\ l.tail[q] = Null THEN l ELSE
     [l EXCEPT !.next = IF p # Null THEN [@ EXCEPT ![p] = n] ELSE @,
               !.prev = IF n # Null THEN [@ EXCEPT ![n] = p] ELSE @,
               !.head[q] = IF p = Null THEN n ELSE @,
               !.tail[q] = IF n = Null THEN p ELSE @,
               !.blocks[q] = @ - 1]

(* flashcache_reclaim_add_block_to_list_mru, at the tail of its list.      *)
AddMru(l, s) ==
  LET q == l.state[s]
      t == l.tail[q]
      alone == [l.next EXCEPT ![s] = Null]
  IN [l EXCEPT !.next = IF t = Null THEN alone ELSE [alone EXCEPT ![t] = s],
               !.prev[s] = t,
               !.head[q] = IF t = Null THEN s ELSE @,
               !.tail[q] = s,
               !.blocks[q] = @ + 1]

(* flashcache_reclaim_add_block_to_list_lru, at the head of its list.      *)
AddLru(l, s) ==
  LET q == l.state[s]
      h == l.head[q]
      alone == [l.prev EXCEPT ![s] = Null]
  IN [l EXCEPT !.prev = IF h = Null THEN alone ELSE [alone EXCEPT ![h] = s],
               !.next[s] = h,
               !.tail[q] = IF h = Null THEN s ELSE @,
               !.head[q] = s,
               !.blocks[q] = @ + 1]

MoveToMru(l, s) == AddMru(RemoveBlock(l, s), s)

InList(l, s, q) == [l EXCEPT !.state[s] = q]

(* Refuted variant: the hot block is not swapped out.                      *)
PromoteBlockOnly(l, s) == AddLru(InList(RemoveBlock(l, s), s, "hot"), s)

(* flashcache_reclaim_promote_block: warm block s for the LRU hot block.   *)
PromoteBlock(l, s) ==
  LET h == l.head["hot"]
      out == RemoveBlock(RemoveBlock(l, s), h)
  IN AddMru(InList(AddLru(InList(out, s, "hot"), s), h, "warm"), h)

(* Refuted variant: the warm block goes to the MRU end of the hot list.    *)
DemoteBlockToMru(l, s) ==
  LET w == l.tail["warm"]
      out == RemoveBlock(RemoveBlock(l, s), w)
  IN AddMru(InList(AddMru(InList(out, s, "warm"), s), w, "hot"), w)

(* flashcache_reclaim_demote_block: hot block s for the MRU warm block.    *)
DemoteBlock(l, s) ==
  LET w == l.tail["warm"]
      out == RemoveBlock(RemoveBlock(l, s), w)
  IN AddLru(InList(AddMru(InList(out, s, "warm"), s), w, "hot"), w)

(* The blocks of a list, in the order a walk from its head finds them.     *)
Walk(head, next) ==
  LET from[n \in 0..Assoc] ==
        [p \in Slots \cup {Null} |->
           IF n = 0 \/ p = Null THEN <<>> ELSE <<p>> \o from[n - 1][next[p]]]
  IN from[Assoc][head]

ListOf(l, q) == Walk(l.head[q], l.next)

(* The links once k more blocks have been moved from list q to list r.     *)
Shift(l, q, r, k) ==
  LET moved[j \in 0..k] ==
        IF j = 0 THEN l
        ELSE LET m == moved[j - 1]
                 s == m.head[q]
             IN IF s = Null THEN m ELSE AddLru(InList(RemoveBlock(m, s), s, r), s)
  IN moved[k]

(* flashcache_reclaim_init_lru_lists: the first blocks are hot, and each   *)
(* block is added at the LRU end.                                          *)
InitLists(pct) ==
  LET none == [q \in {"hot", "warm"} |-> Null]
      empty == [next |-> [s \in Slots |-> Null], prev |-> [s \in Slots |-> Null],
                state |-> [s \in Slots |-> IF s < HotBlocks(pct) THEN "hot" ELSE "warm"],
                head |-> none, tail |-> none, blocks |-> [q \in {"hot", "warm"} |-> 0]]
      added[n \in 0..Assoc] == IF n = 0 THEN empty ELSE AddLru(added[n - 1], n - 1)
  IN added[Assoc]

-----------------------------------------------------------------------------
(* The hash chains and the invalid list                                    *)

(* The links of a block once it has been taken out of a chain; head is the *)
(* chain's head, or whatever is found where the chain should begin.        *)
Unlink(h, s) ==
  LET p == h.prev[s]
      n == h.next[s]
      next == IF p # Null THEN [h.next EXCEPT ![p] = n] ELSE h.next
      prev == IF n # Null THEN [h.prev EXCEPT ![n] = p] ELSE h.prev
  IN [h EXCEPT !.next = [next EXCEPT ![s] = Null], !.prev = [prev EXCEPT ![s] = Null]]

(* flashcache_invalid_insert and flashcache_invalid_remove.                *)
InvalidInsert(h, s) ==
  LET i == h.invalid IN
  [h EXCEPT !.next[s] = i,
            !.prev = IF i # Null THEN [@ EXCEPT ![i] = s] ELSE @,
            !.invalid = s]
InvalidRemove(h, s) ==
  [Unlink(h, s) EXCEPT !.invalid = IF h.prev[s] = Null THEN h.next[s] ELSE @]

(* Refuted variant: the head of the bucket is not updated.                 *)
HashRemoveKeepsHead(h, s, d) == Unlink(h, s)

(* flashcache_hash_insert and flashcache_hash_remove, for a block that     *)
(* holds d.                                                                *)
HashInsert(h, s, d) ==
  LET k == BucketOf[d]
      f == h.bucket[k]
  IN [h EXCEPT !.next[s] = f,
               !.prev = IF f # Null THEN [[@ EXCEPT ![s] = Null] EXCEPT ![f] = s]
                                    ELSE [@ EXCEPT ![s] = Null],
               !.bucket[k] = s]
HashRemove(h, s, d) ==
  [Unlink(h, s) EXCEPT !.bucket[BucketOf[d]] = IF h.prev[s] = Null THEN h.next[s] ELSE @]

ChainOf(h, k) == Walk(h.bucket[k], h.next)
FreeOf(h) == Walk(h.invalid, h.next)

(* flashcache_hash_lookup: the first block of the chain that holds d.      *)
HashLookup(d) ==
  LET c == ChainOf(hash, BucketOf[d])
      i == SelectInSeq(c, LAMBDA s : dbn[s] = d)
  IN IF i = 0 THEN Null ELSE c[i]

-----------------------------------------------------------------------------
(* The state                                                               *)

(* Exactly INVALID, exactly VALID, VALID and DIRTY, with an I/O in         *)
(* progress, or in limbo: INVALID, but still in progress.                  *)
Hashed == {s \in Slots : cache_state[s] \in {"VALID", "DIRTY", "INPROG"}}

TypeOK ==
  /\ cache_state \in [Slots -> {"INVALID", "VALID", "DIRTY", "INPROG", "LIMBO"}]
  /\ dbn \in [Slots -> Dbns \cup {Null}]
  /\ \A s \in Slots : dbn[s] = Null <=> s \notin Hashed
  /\ lru.state \in [Slots -> {"hot", "warm"}]
  /\ use_cnt \in [Slots -> 0..PromoteThresh]
  /\ set_fifo_next \in Slots
  /\ reclaim_policy \in Policies
  /\ hot_list_pct \in HotPcts

(* A new cache: every block has been put on the invalid list in turn.      *)
Init ==
  /\ cache_state = [s \in Slots |-> "INVALID"]
  /\ dbn = [s \in Slots |-> Null]
  /\ hot_list_pct \in HotPcts
  /\ lru = InitLists(hot_list_pct)
  /\ use_cnt = [s \in Slots |-> 0]
  /\ hash = [next |-> [s \in Slots |-> IF s = 0 THEN Null ELSE s - 1],
             prev |-> [s \in Slots |-> IF s = Assoc - 1 THEN Null ELSE s + 1],
             bucket |-> [k \in Buckets |-> Null],
             invalid |-> Assoc - 1]
  /\ set_fifo_next = 0
  /\ reclaim_policy \in Policies

-----------------------------------------------------------------------------
(* flashcache_lru_accessed                                                 *)

Counts(s) == lru.state[s] = "warm" /\ cache_state[s] # "INVALID"

Accessed(s) ==
  IF Counts(s) /\ use_cnt[s] + 1 >= PromoteThresh /\ lru.head["hot"] # Null
  THEN /\ lru' = PromoteBlock(lru, s)
       /\ use_cnt' = [use_cnt EXCEPT ![s] = 0, ![lru.head["hot"]] = 0]
  ELSE /\ lru' = MoveToMru(lru, s)
       /\ use_cnt' = IF Counts(s) /\ use_cnt[s] < PromoteThresh
                     THEN [use_cnt EXCEPT ![s] = @ + 1] ELSE use_cnt

AccessedIfLru(s) ==
  IF reclaim_policy = "LRU" THEN Accessed(s) ELSE UNCHANGED <<lru, use_cnt>>

-----------------------------------------------------------------------------
(* The block to reclaim                                                    *)

(* flashcache_reclaim_fifo_get_old_block: the slots from the hand on, and  *)
(* where in this order the first block that is exactly VALID stands.       *)
FromHand == [i \in 1..Assoc |-> (set_fifo_next + i - 1) % Assoc]
FirstValid(seq) == SelectInSeq(seq, LAMBDA s : cache_state[s] = "VALID")

FifoVictim ==
  LET i == FirstValid(FromHand) IN IF i = 0 THEN Null ELSE FromHand[i]

(* The hand moves past the victim, or by one when there is none.           *)
AdvanceHand ==
  set_fifo_next' = (1 + IF FifoVictim = Null THEN set_fifo_next ELSE FifoVictim) % Assoc

(* Refuted variant: the search goes from the most recently used end.       *)
LruVictimFromMru ==
  LET warm == Reverse(ListOf(lru, "warm"))
      hot == ListOf(lru, "hot")
      w == FirstValid(warm)
      h == FirstValid(hot)
  IN IF w # 0 THEN warm[w] ELSE IF h # 0 THEN hot[h] ELSE Null

(* flashcache_reclaim_lru_get_old_block: a warm block, or else a hot one.  *)
LruVictim ==
  LET warm == ListOf(lru, "warm")
      hot == ListOf(lru, "hot")
      w == FirstValid(warm)
      h == FirstValid(hot)
  IN IF w # 0 THEN warm[w] ELSE IF h # 0 THEN hot[h] ELSE Null

(* A warm victim is used again at once; a hot one is demoted if it can be. *)
LruReclaimed(v) ==
  LET w == lru.tail["warm"] IN
  IF lru.state[v] = "hot" /\ w # Null
  THEN /\ lru' = DemoteBlock(lru, v)
       /\ use_cnt' = [use_cnt EXCEPT ![v] = 0, ![w] = 0]
  ELSE /\ lru' = MoveToMru(lru, v)
       /\ use_cnt' = IF lru.state[v] = "warm" THEN [use_cnt EXCEPT ![v] = 0] ELSE use_cnt

-----------------------------------------------------------------------------
(* flashcache_lookup, and what the caller does with the block it returns   *)

(* A hit on an idle block starts an I/O on it; on a busy one the bio is    *)
(* queued, and nothing changes here.                                       *)
Hit(d) ==
  LET s == HashLookup(d) IN
  /\ s # Null
  /\ cache_state[s] \in {"VALID", "DIRTY"}
  /\ AccessedIfLru(s)
  /\ cache_state' = [cache_state EXCEPT ![s] = "INPROG"]
  /\ UNCHANGED <<dbn, hash, set_fifo_next, reclaim_policy, hot_list_pct>>

(* The caller claims s for d; a block that was reclaimed leaves its chain. *)
Claim(s, d, h) ==
  /\ hash' = HashInsert(IF cache_state[s] = "VALID" THEN HashRemove(h, s, dbn[s]) ELSE h,
                        s, d)
  /\ cache_state' = [cache_state EXCEPT ![s] = "INPROG"]
  /\ dbn' = [dbn EXCEPT ![s] = d]

(* ... or finds that the bio has to go to the disk, and a free block goes  *)
(* back to the list it came from.                                          *)
GiveBack(s, h) ==
  /\ hash' = IF cache_state[s] = "INVALID" THEN InvalidInsert(h, s) ELSE h
  /\ UNCHANGED <<cache_state, dbn>>

Caller(s, d, h) == Claim(s, d, h) \/ GiveBack(s, h)

MissFree(d) ==
  LET s == hash.invalid IN
  /\ HashLookup(d) = Null
  /\ s # Null
  /\ AccessedIfLru(s)
  /\ Caller(s, d, InvalidRemove(hash, s))
  /\ UNCHANGED <<set_fifo_next, reclaim_policy, hot_list_pct>>

MissFifo(d) ==
  /\ HashLookup(d) = Null
  /\ hash.invalid = Null
  /\ reclaim_policy = "FIFO"
  /\ AdvanceHand
  /\ IF FifoVictim = Null THEN UNCHANGED <<hash, cache_state, dbn>>
                          ELSE Caller(FifoVictim, d, hash)
  /\ UNCHANGED <<lru, use_cnt, reclaim_policy, hot_list_pct>>

MissLru(d) ==
  /\ HashLookup(d) = Null
  /\ hash.invalid = Null
  /\ reclaim_policy = "LRU"
  /\ LruVictim # Null
  /\ LruReclaimed(LruVictim)
  /\ Caller(LruVictim, d, hash)
  /\ UNCHANGED <<set_fifo_next, reclaim_policy, hot_list_pct>>

-----------------------------------------------------------------------------
(* What becomes of a cached block                                          *)

listVars == <<lru, use_cnt, set_fifo_next, reclaim_policy, hot_list_pct>>

(* An I/O ends well, and leaves the block clean or dirty.                  *)
IoEnds(s) ==
  /\ cache_state[s] = "INPROG"
  /\ \E st \in {"VALID", "DIRTY"} : cache_state' = [cache_state EXCEPT ![s] = st]
  /\ UNCHANGED <<dbn, hash, listVars>>

(* A dirty block is written back: its I/O is under way.                    *)
WriteBack(s) ==
  /\ cache_state[s] = "DIRTY"
  /\ cache_state' = [cache_state EXCEPT ![s] = "INPROG"]
  /\ UNCHANGED <<dbn, hash, listVars>>

(* An idle clean block is invalidated, or the I/O of a block fails.        *)
Invalidate(s) ==
  /\ cache_state[s] \in {"VALID", "INPROG"}
  /\ hash' = InvalidInsert(HashRemove(hash, s, dbn[s]), s)
  /\ cache_state' = [cache_state EXCEPT ![s] = "INVALID"]
  /\ dbn' = [dbn EXCEPT ![s] = Null]
  /\ UNCHANGED listVars

(* flashcache_do_pending_noerror: the block is in limbo while the lock is  *)
(* dropped to serve those that waited for it, and only then free.          *)
EnterLimbo(s) ==
  /\ cache_state[s] = "INPROG"
  /\ hash' = HashRemove(hash, s, dbn[s])
  /\ cache_state' = [cache_state EXCEPT ![s] = "LIMBO"]
  /\ dbn' = [dbn EXCEPT ![s] = Null]
  /\ UNCHANGED listVars

LeaveLimbo(s) ==
  /\ cache_state[s] = "LIMBO"
  /\ hash' = InvalidInsert(hash, s)
  /\ cache_state' = [cache_state EXCEPT ![s] = "INVALID"]
  /\ UNCHANGED <<dbn, listVars>>

-----------------------------------------------------------------------------
(* The sysctls                                                             *)

SetPolicy(p) ==
  /\ reclaim_policy' = p
  /\ UNCHANGED <<cache_state, dbn, lru, use_cnt, hash, set_fifo_next, hot_list_pct>>

(* flashcache_reclaim_rebalance_lru, by one writer of the sysctl at a time.*)
Rebalance(pct) ==
  LET new == HotBlocks(pct)
      old == HotBlocks(hot_list_pct)
  IN
  /\ lru' = IF new > old THEN Shift(lru, "warm", "hot", new - old)
                         ELSE Shift(lru, "hot", "warm", old - new)
  /\ use_cnt' = [s \in Slots |-> IF lru'.state[s] # lru.state[s] THEN 0 ELSE use_cnt[s]]
  /\ hot_list_pct' = pct
  /\ UNCHANGED <<cache_state, dbn, hash, set_fifo_next, reclaim_policy>>

Next ==
  \/ \E d \in Dbns : Hit(d) \/ MissFree(d) \/ MissFifo(d) \/ MissLru(d)
  \/ \E s \in Slots : IoEnds(s) \/ WriteBack(s) \/ Invalidate(s)
                     \/ EnterLimbo(s) \/ LeaveLimbo(s)
  \/ \E p \in Policies : SetPolicy(p)
  \/ \E pct \in HotPcts : Rebalance(pct)

Spec == Init /\ [][Next]_vars

-----------------------------------------------------------------------------
(* Properties                                                              *)

(* The links of a list are consistent: the walk from the head ends at the  *)
(* tail, meets no block twice, and the back links retrace it.              *)
Linked(seq, head, prev) ==
  /\ IsInjective(seq)
  /\ head = IF seq = <<>> THEN Null ELSE seq[1]
  /\ \A i \in DOMAIN seq : prev[seq[i]] = IF i = 1 THEN Null ELSE seq[i - 1]

(* Every block is on exactly one LRU list, the one its lru_state names,    *)
(* and the counts that flashcache_reclaim_remove_block_from_list verifies  *)
(* are the lengths of the lists.                                           *)
LruListsLinked ==
  /\ TypeOK
  /\ \A q \in {"hot", "warm"} :
    LET l == ListOf(lru, q) IN
    /\ Linked(l, lru.head[q], lru.prev)
    /\ lru.tail[q] = IF l = <<>> THEN Null ELSE Last(l)
    /\ ToSet(l) = {s \in Slots : lru.state[s] = q}
    /\ lru.blocks[q] = Len(l)

(* A lookup finds every block that is VALID, and only it; every block that *)
(* is INVALID, and no other, can be taken from the invalid list; a block   *)
(* in limbo is on neither and its links are clear, as invalid_insert       *)
(* verifies.                                                               *)
EveryBlockIsFound ==
  /\ Linked(FreeOf(hash), hash.invalid, hash.prev)
  /\ ToSet(FreeOf(hash)) = {s \in Slots : cache_state[s] = "INVALID"}
  /\ \A k \in Buckets :
       /\ Linked(ChainOf(hash, k), hash.bucket[k], hash.prev)
       /\ ToSet(ChainOf(hash, k)) = {s \in Hashed : BucketOf[dbn[s]] = k}
  /\ \A s \in Hashed : HashLookup(dbn[s]) = s
  /\ \A s \in Slots : cache_state[s] = "LIMBO" => hash.next[s] = Null /\ hash.prev[s] = Null

(* Promotions, demotions and reclaims leave the hot list as long as        *)
(* lru_hot_pct asks for.                                                   *)
HotListKeepsItsSize == lru.blocks["hot"] = HotBlocks(hot_list_pct)

(* Reclaim under LRU never takes a hot block, nor the block used last,     *)
(* while another block can be taken from the warm list.                    *)
WarmBlocksGoFirst ==
  [][\A s \in Slots :
       /\ cache_state[s] = "VALID" /\ cache_state'[s] = "INPROG" /\ dbn'[s] # dbn[s]
       /\ reclaim_policy = "LRU"
       /\ \E t \in Slots \ {s} : lru.state[t] = "warm" /\ cache_state[t] = "VALID"
       => lru.state[s] = "warm" /\ lru.tail["warm"] # s]_vars

(* The links implement the sequences of BlockOrder.                        *)
Order == INSTANCE BlockOrder WITH
  hot <- ListOf(lru, "hot"),
  warm <- ListOf(lru, "warm"),
  free <- FreeOf(hash),
  chain <- [k \in Buckets |-> ChainOf(hash, k)]

ImplementsBlockOrder == Order!Spec
=============================================================================
