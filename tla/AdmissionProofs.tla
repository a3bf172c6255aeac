--------------------------- MODULE AdmissionProofs ---------------------------
(***************************************************************************)
(* The invariants of Admission, for every limit, timeout and threshold and *)
(* any number of pids, threads, flows and blocks: the pid lists stay       *)
(* within their bound, a flow counts only blocks that were asked for, and  *)
(* a stream of consecutive blocks is skipped.                              *)
(***************************************************************************)
EXTENDS Admission, FiniteSetTheorems, FunctionTheorems, SequenceTheorems, TLAPS

Entry == [pid : Pids, left : 0..pid_expiry_secs]

(* A pid is on the list once, and what expires first is at the head.       *)
InOrder(entries) ==
  \A i, j \in DOMAIN entries :
    i < j => entries[i].pid # entries[j].pid /\ entries[i].left <= entries[j].left

ListsInv ==
  /\ DOMAIN list = Lists /\ num_pids \in [Lists -> Nat]
  /\ \A l \in Lists :
       /\ list[l] \in Seq(Entry) /\ InOrder(list[l])
       /\ num_pids[l] = Len(list[l]) /\ num_pids[l] <= max_pids + 1
  /\ pid_expire_check \in 0..pid_expiry_secs + 1 /\ postponed \in BOOLEAN

Flow == [sector : Blocks, count : Nat]

(* The flow at the head is the one of the last block, and has counted all  *)
(* of the run but perhaps its first block, which may have been repeated.   *)
TrackerInv ==
  /\ flows \in [1..Depth -> Flow] /\ verdict \in {"none", "cache", "skip"}
  /\ run \in Nat /\ touched \subseteq Blocks
  /\ FlowIsBacked /\ SequentialIsSkipped
  /\ run > 0 => run <= flows[1].sector + 1 /\ run <= flows[1].count + 1

AdmIInv == ListsInv /\ TrackerInv

-----------------------------------------------------------------------------
(* The operators on lists                                                  *)

(* What is taken off a list leaves the rest in order, and shortens the     *)
(* list by the number of those that were on it.                            *)
LEMMA WithoutProperties ==
  ASSUME NEW entries \in Seq(Entry), InOrder(entries), NEW S
  PROVE  /\ Without(entries, S) \in Seq(Entry) /\ InOrder(Without(entries, S))
         /\ Cardinality(S \cap PidsOf(entries)) \in Nat
         /\ Len(Without(entries, S)) = Len(entries) - Cardinality(S \cap PidsOf(entries))
<1> DEFINE n == Len(entries)
           kept == {i \in 1..n : entries[i].pid \notin S}
           Upto(i) == {j \in kept : j <= i}
           Rank(i) == Cardinality(Upto(i))
           size == Cardinality(kept)
           Nth(m) == CHOOSE i \in kept : Rank(i) = m
<1>1. n \in Nat /\ DOMAIN entries = 1..n /\ \A i \in 1..n : entries[i] \in Entry
  OBVIOUS
<1>2. IsFiniteSet(1..n) /\ Cardinality(1..n) = n
  <2>1. 1 \in Int /\ n \in Int
    BY <1>1
  <2>2. IsFiniteSet(1..n) /\ Cardinality(1..n) = IF 1 > n THEN 0 ELSE n - 1 + 1
    BY <2>1, FS_Interval
  <2> QED BY <1>1, <2>2
<1>3. IsFiniteSet(kept) /\ size \in Nat
  BY <1>2, FS_Subset, FS_CardinalityType
<1>4. ASSUME NEW i \in kept
      PROVE  IsFiniteSet(Upto(i)) /\ Rank(i) \in Nat /\ Rank(i) \in 1..size
  <2>1. IsFiniteSet(Upto(i)) /\ Rank(i) <= size
    BY <1>3, FS_Subset
  <2>2. i \in Upto(i)
    BY <1>1
  <2>3. Rank(i) \in Nat /\ Rank(i) # 0
    BY <2>1, <2>2, FS_CardinalityType, FS_EmptySet
  <2> QED BY <1>3, <2>1, <2>3
<1>5. ASSUME NEW i \in kept, NEW j \in kept, i < j
      PROVE  Rank(i) < Rank(j)
  <2>1. j \in Upto(j) /\ Upto(i) \subseteq Upto(j) \ {j}
    BY <1>1, <1>5
  <2>2. /\ IsFiniteSet(Upto(j) \ {j})
        /\ Cardinality(Upto(j) \ {j}) = Rank(j) - 1
    BY <1>4, <2>1, FS_RemoveElement
  <2>3. Rank(i) <= Rank(j) - 1
    BY <2>1, <2>2, FS_Subset
  <2>4. Rank(i) \in Nat /\ Rank(j) \in Nat
    BY <1>4
  <2> HIDE DEF Rank
  <2> QED BY <2>3, <2>4
<1> HIDE DEF Rank, size
<1>6. \A m \in 1..size : \E i \in kept : Rank(i) = m
  <2> DEFINE f == [i \in kept |-> Rank(i)]
  <2>1. f \in [kept -> 1..size]
    BY <1>4
  <2>2. ASSUME NEW i \in kept, NEW j \in kept, f[i] = f[j] PROVE i = j
    <3>1. Rank(i) = Rank(j)
      BY <2>2
    <3>2. i \in Nat /\ j \in Nat
      BY <1>1
    <3>3. Rank(i) \in Nat /\ Rank(j) \in Nat
      BY <1>4
    <3> QED BY <1>5, <3>1, <3>2, <3>3
  <2>3. f \in Injection(kept, 1..size)
    BY <2>1, <2>2, Fun_IsInj
  <2>4. IsFiniteSet(1..size) /\ Cardinality(1..size) = size
    BY <1>3, FS_Interval
  <2>5. Cardinality(kept) = size
    BY DEF size
  <2>6. f \in Surjection(kept, 1..size)
    BY <2>3, <2>4, <2>5, FS_Injection
  <2>7. \A m \in 1..size : \E i \in kept : f[i] = m
    <3> HIDE DEF f, kept
    <3> QED BY <2>6, Fun_SurjectionProperties
  <2> QED BY <2>7
<1>7. \A m \in 1..size : Nth(m) \in kept /\ Rank(Nth(m)) = m
  BY <1>6
<1> HIDE DEF Nth
<1>8. Without(entries, S) = [m \in 1..size |-> entries[Nth(m)]]
  BY <1>1 DEF Without, Nth, Rank, size
<1>9. Without(entries, S) \in Seq(Entry) /\ Len(Without(entries, S)) = size
  <2>1. [m \in 1..size |-> entries[Nth(m)]] \in [1..size -> Entry]
    BY <1>1, <1>7
  <2> QED BY <1>3, <1>8, <2>1, IsASeq, LenProperties
<1>10. InOrder(Without(entries, S))
  <2> SUFFICES ASSUME NEW a \in 1..size, NEW b \in 1..size, a < b
               PROVE  /\ entries[Nth(a)].pid # entries[Nth(b)].pid
                      /\ entries[Nth(a)].left <= entries[Nth(b)].left
    BY <1>3, <1>8 DEF InOrder
  <2>1. Nth(a) \in kept /\ Nth(b) \in kept /\ Rank(Nth(a)) = a /\ Rank(Nth(b)) = b
    BY <1>7
  <2>2. Nth(a) \in 1..n /\ Nth(b) \in 1..n
    BY <2>1
  <2>3. ~(Nth(b) < Nth(a)) /\ Nth(a) # Nth(b)
    BY <1>3, <1>5, <2>1
  <2>4. Nth(a) < Nth(b)
    BY <1>1, <2>2, <2>3
  <2> QED BY <1>1, <2>2, <2>4 DEF InOrder
<1>11. Cardinality(S \cap PidsOf(entries)) \in Nat /\ size = n - Cardinality(S \cap PidsOf(entries))
  <2> DEFINE gone == {i \in 1..n : entries[i].pid \in S}
             f == [i \in gone |-> entries[i].pid]
  <2>1. IsFiniteSet(gone) /\ Cardinality(gone) \in Nat
    BY <1>2, FS_Subset, FS_CardinalityType
  <2>2. f \in [gone -> S \cap PidsOf(entries)]
    BY <1>1 DEF PidsOf
  <2>3. ASSUME NEW i \in gone, NEW j \in gone, f[i] = f[j] PROVE i = j
    BY <1>1, <2>3 DEF InOrder
  <2>4. ASSUME NEW p \in S \cap PidsOf(entries) PROVE \E i \in gone : f[i] = p
    BY <1>1 DEF PidsOf
  <2>5. f \in Bijection(gone, S \cap PidsOf(entries))
    BY <2>2, <2>3, <2>4, Fun_IsBij
  <2>6. ExistsBijection(gone, S \cap PidsOf(entries))
    BY <2>5 DEF ExistsBijection
  <2>7. Cardinality(S \cap PidsOf(entries)) = Cardinality(gone)
    BY <2>1, <2>6, FS_Bijection
  <2>8. kept = (1..n) \ gone /\ (1..n) \cap gone = gone
    OBVIOUS
  <2>9. size = n - Cardinality(gone)
    <3>1. IsFiniteSet(1..n) /\ Cardinality(1..n) = n
      BY <1>2
    <3>2. Cardinality((1..n) \ gone) = Cardinality(1..n) - Cardinality((1..n) \cap gone)
      BY <3>1, FS_Difference
    <3> QED BY <2>8, <3>1, <3>2 DEF size
  <2> QED BY <2>1, <2>7, <2>9
<1> QED BY <1>9, <1>10, <1>11

(* A stretch of a list is in order.                                        *)
LEMMA Stretch ==
  ASSUME NEW entries \in Seq(Entry), InOrder(entries),
         NEW m \in 1..Len(entries) + 1, NEW n \in 0..Len(entries), m <= n + 1
  PROVE  /\ SubSeq(entries, m, n) \in Seq(Entry) /\ InOrder(SubSeq(entries, m, n))
         /\ Len(SubSeq(entries, m, n)) = n - m + 1
<1>1. /\ SubSeq(entries, m, n) \in Seq(Entry) /\ Len(SubSeq(entries, m, n)) = n - m + 1
      /\ \A i \in 1..n - m + 1 : SubSeq(entries, m, n)[i] = entries[m + i - 1]
  OBVIOUS
<1>2. \A i \in 1..n - m + 1 : m + i - 1 \in DOMAIN entries
  OBVIOUS
<1>3. DOMAIN SubSeq(entries, m, n) = 1..n - m + 1
  BY <1>1
<1>4. InOrder(SubSeq(entries, m, n))
  <2> SUFFICES ASSUME NEW i \in 1..n - m + 1, NEW j \in 1..n - m + 1, i < j
               PROVE  /\ entries[m + i - 1].pid # entries[m + j - 1].pid
                      /\ entries[m + i - 1].left <= entries[m + j - 1].left
    BY <1>1, <1>3 DEF InOrder
  <2>1. m + i - 1 < m + j - 1
    OBVIOUS
  <2> QED BY <1>2, <2>1 DEF InOrder
<1> QED BY <1>1, <1>4

(* What flashcache_drop_pids leaves.                                       *)
LEMMA DroppedProperties ==
  ASSUME ListsInv, NEW l \in Lists
  PROVE  /\ Dropped(l) \in Seq(Entry) /\ InOrder(Dropped(l))
         /\ Len(Dropped(l)) \in Nat /\ Len(Dropped(l)) <= max_pids
<1>1. list[l] \in Seq(Entry) /\ InOrder(list[l]) /\ num_pids[l] = Len(list[l])
  BY DEF ListsInv
<1>2. max_pids \in Nat /\ max_pids # 0
  BY AdmissionAssumption
<1>3. CASE num_pids[l] > max_pids
  <2>1. Dropped(l) = SubSeq(list[l], 1, max_pids - 1)
    BY <1>3 DEF Dropped
  <2>2. 1 \in 1..Len(list[l]) + 1 /\ max_pids - 1 \in 0..Len(list[l]) /\ 1 <= max_pids - 1 + 1
    BY <1>1, <1>2, <1>3
  <2>3. /\ SubSeq(list[l], 1, max_pids - 1) \in Seq(Entry)
        /\ InOrder(SubSeq(list[l], 1, max_pids - 1))
        /\ Len(SubSeq(list[l], 1, max_pids - 1)) = max_pids - 1 - 1 + 1
    BY <1>1, <2>2, Stretch
  <2> QED BY <1>2, <2>1, <2>3
<1>4. CASE ~(num_pids[l] > max_pids)
  BY <1>1, <1>2, <1>4 DEF Dropped
<1> QED BY <1>3, <1>4

-----------------------------------------------------------------------------
(* The pid lists                                                           *)

LEMMA AddLists ==
  ASSUME ListsInv, NEW l \in Lists, NEW p \in Pids, AddPid(l, p)
  PROVE  ListsInv'
<1> DEFINE kept == Dropped(l)
           new == p \notin PidsOf(kept)
           e == [pid |-> p, left |-> pid_expiry_secs]
<1>1. /\ list' = [list EXCEPT ![l] = IF new THEN Append(kept, e) ELSE kept]
      /\ num_pids' = [num_pids EXCEPT ![l] = Len(kept) + (IF new THEN 1 ELSE 0)]
      /\ pid_expire_check' = IF new THEN CheckAfter(kept) ELSE pid_expire_check
      /\ postponed' = (new /\ kept = <<>>)
  BY DEF AddPid
<1>2. kept \in Seq(Entry) /\ InOrder(kept) /\ Len(kept) \in Nat /\ Len(kept) <= max_pids
  BY DroppedProperties
<1>3. max_pids \in Nat /\ pid_expiry_secs \in Nat /\ e \in Entry
  BY AdmissionAssumption DEF Entry
<1>4. new => /\ Append(kept, e) \in Seq(Entry) /\ Len(Append(kept, e)) = Len(kept) + 1
             /\ InOrder(Append(kept, e))
  <2> HIDE DEF kept, e
  <2> SUFFICES ASSUME p \notin PidsOf(kept)
               PROVE  InOrder(Append(kept, e))
    BY <1>2, <1>3
  <2>1. DOMAIN Append(kept, e) = 1..Len(kept) + 1 /\ Append(kept, e)[Len(kept) + 1] = e
    BY <1>2, <1>3
  <2>2. \A i \in 1..Len(kept) : Append(kept, e)[i] = kept[i] /\ kept[i] \in Entry
    BY <1>2, <1>3
  <2>3. DOMAIN kept = 1..Len(kept)
    BY <1>2
  <2>4. \A i \in 1..Len(kept) : kept[i].pid # p /\ kept[i].left <= pid_expiry_secs
    BY <1>3, <2>2, <2>3 DEF PidsOf, Entry
  <2>5. e.pid = p /\ e.left = pid_expiry_secs
    BY DEF e
  <2> SUFFICES ASSUME NEW i \in 1..Len(kept) + 1, NEW j \in 1..Len(kept) + 1, i < j
               PROVE  /\ Append(kept, e)[i].pid # Append(kept, e)[j].pid
                      /\ Append(kept, e)[i].left <= Append(kept, e)[j].left
    BY <2>1 DEF InOrder
  <2>6. i \in 1..Len(kept)
    BY <1>2
  <2>7. CASE j = Len(kept) + 1
    BY <2>1, <2>2, <2>4, <2>5, <2>6, <2>7
  <2>8. CASE j \in 1..Len(kept)
    BY <1>2, <2>2, <2>3, <2>6, <2>8 DEF InOrder
  <2> QED BY <1>2, <2>7, <2>8
<1> DEFINE after == IF new THEN Append(kept, e) ELSE kept
<1>5. /\ after \in Seq(Entry) /\ InOrder(after)
      /\ Len(after) = Len(kept) + (IF new THEN 1 ELSE 0)
      /\ Len(after) \in Nat /\ Len(after) <= max_pids + 1
  BY <1>2, <1>3, <1>4
<1>6. /\ list'[l] = after /\ num_pids'[l] = Len(after)
      /\ \A k \in Lists \ {l} : list'[k] = list[k] /\ num_pids'[k] = num_pids[k]
      /\ DOMAIN list' = Lists /\ DOMAIN num_pids' = Lists
  <2> HIDE DEF kept, e
  <2> QED BY <1>1, <1>5 DEF ListsInv
<1>7. num_pids' \in [Lists -> Nat]
  BY <1>1, <1>2 DEF ListsInv
<1>8. pid_expire_check' \in 0..pid_expiry_secs + 1 /\ postponed' \in BOOLEAN
  BY <1>1, <1>3 DEF CheckAfter, ListsInv
<1> HIDE DEF after
<1> QED BY <1>5, <1>6, <1>7, <1>8 DEF ListsInv

LEMMA DelLists ==
  ASSUME ListsInv, NEW l \in Lists, NEW S, DelPids(l, S)
  PROVE  ListsInv'
<1>1. /\ Without(list[l], S) \in Seq(Entry) /\ InOrder(Without(list[l], S))
      /\ Cardinality(S \cap PidsOf(list[l])) \in Nat
      /\ Len(Without(list[l], S)) = Len(list[l]) - Cardinality(S \cap PidsOf(list[l]))
  BY WithoutProperties DEF ListsInv
<1>2. /\ list' = [list EXCEPT ![l] = Without(list[l], S)]
      /\ num_pids' = [num_pids EXCEPT ![l] =
                        num_pids[l] - Cardinality(S \cap PidsOf(list[l]))]
      /\ postponed' = FALSE /\ pid_expire_check' = pid_expire_check
  BY DEF DelPids
<1>3. Len(Without(list[l], S)) \in Nat
  BY <1>1
<1>4. /\ list'[l] = Without(list[l], S) /\ num_pids'[l] = Len(Without(list[l], S))
      /\ num_pids'[l] <= num_pids[l]
      /\ \A k \in Lists \ {l} : list'[k] = list[k] /\ num_pids'[k] = num_pids[k]
      /\ DOMAIN list' = Lists /\ num_pids' \in [Lists -> Nat]
  BY <1>1, <1>2, <1>3 DEF ListsInv
<1>5. max_pids \in Nat
  BY AdmissionAssumption
<1>6. num_pids'[l] <= max_pids + 1
  BY <1>4, <1>5 DEF ListsInv
<1>7. \A k \in Lists :
        /\ list'[k] \in Seq(Entry) /\ InOrder(list'[k])
        /\ num_pids'[k] = Len(list'[k]) /\ num_pids'[k] <= max_pids + 1
  BY <1>1, <1>4, <1>6 DEF ListsInv
<1> QED BY <1>2, <1>4, <1>7 DEF ListsInv

LEMMA ExpireLists ==
  ASSUME ListsInv, ExpireAll
  PROVE  ListsInv'
<1>1. postponed' = FALSE
  BY DEF ExpireAll
<1>2. CASE UNCHANGED lists
  BY <1>1, <1>2 DEF lists, ListsInv
<1>3. ASSUME NEW n \in [Lists -> 0..max_pids + 1],
             \A l \in Lists : n[l] \in Removable(l),
             list' = [l \in Lists |-> Shortened(l, n[l])],
             num_pids' = [l \in Lists |-> num_pids[l] - n[l]],
             pid_expire_check' = pid_expiry_secs + 1
      PROVE  ListsInv'
  <2>1. max_pids \in Nat /\ pid_expiry_secs \in Nat
    BY AdmissionAssumption
  <2>2. ASSUME NEW l \in Lists
        PROVE  /\ list'[l] \in Seq(Entry) /\ InOrder(list'[l])
               /\ num_pids'[l] \in Nat
               /\ num_pids'[l] = Len(list'[l]) /\ num_pids'[l] <= max_pids + 1
    <3>1. list[l] \in Seq(Entry) /\ InOrder(list[l]) /\ num_pids[l] = Len(list[l])
      BY DEF ListsInv
    <3>2. n[l] \in 0..Len(list[l])
      <4>1. Expired(list[l]) \subseteq 1..Len(list[l])
        BY <3>1 DEF Expired
      <4>2. IsFiniteSet(1..Len(list[l])) /\ Cardinality(1..Len(list[l])) = Len(list[l])
        <5> PICK size \in Nat : size = Len(list[l])
          BY <3>1
        <5>1. 1 \in Int /\ size \in Int
          OBVIOUS
        <5>2. IsFiniteSet(1..size) /\ Cardinality(1..size) = IF 1 > size THEN 0 ELSE size - 1 + 1
          BY <5>1, FS_Interval
        <5> QED BY <5>2
      <4>3. /\ Cardinality(Expired(list[l])) <= Len(list[l])
            /\ Cardinality(Expired(list[l])) \in Nat
        BY <4>1, <4>2, FS_Subset, FS_CardinalityType
      <4>4. n[l] \in Nat /\ n[l] \in Removable(l)
        BY <1>3, <2>1
      <4> QED BY <3>1, <4>3, <4>4 DEF Removable
    <3>3. list'[l] = SubSeq(list[l], n[l] + 1, Len(list[l])) /\ num_pids'[l] = num_pids[l] - n[l]
      BY <1>3 DEF Shortened
    <3>4. n[l] + 1 \in 1..Len(list[l]) + 1 /\ Len(list[l]) \in 0..Len(list[l])
      BY <3>1, <3>2
    <3>5. /\ SubSeq(list[l], n[l] + 1, Len(list[l])) \in Seq(Entry)
          /\ InOrder(SubSeq(list[l], n[l] + 1, Len(list[l])))
          /\ Len(SubSeq(list[l], n[l] + 1, Len(list[l]))) = Len(list[l]) - (n[l] + 1) + 1
      BY <3>1, <3>4, Stretch
    <3>6. Len(list[l]) \in Nat /\ Len(list[l]) <= max_pids + 1
      BY <3>1 DEF ListsInv
    <3> QED BY <2>1, <3>1, <3>2, <3>3, <3>5, <3>6
  <2>3. DOMAIN list' = Lists /\ DOMAIN num_pids' = Lists
    BY <1>3
  <2>4. num_pids' \in [Lists -> Nat]
    BY <1>3, <2>2
  <2>5. pid_expire_check' \in 0..pid_expiry_secs + 1
    BY <1>3, <2>1
  <2> QED BY <1>1, <2>2, <2>3, <2>4, <2>5 DEF ListsInv
<1> QED BY <1>2, <1>3 DEF ExpireAll

LEMMA TickLists ==
  ASSUME ListsInv, Tick
  PROVE  ListsInv'
<1>1. max_pids \in Nat /\ pid_expiry_secs \in Nat
  BY AdmissionAssumption
<1>2. ASSUME NEW l \in Lists
      PROVE  list'[l] \in Seq(Entry) /\ InOrder(list'[l]) /\ Len(list'[l]) = Len(list[l])
  <2>1. list[l] \in Seq(Entry) /\ InOrder(list[l])
    BY DEF ListsInv
  <2>2. list'[l] = [i \in 1..Len(list[l]) |-> [list[l][i] EXCEPT !.left = MinusOne(@)]]
    BY <2>1 DEF Tick
  <2>3. ASSUME NEW i \in 1..Len(list[l])
        PROVE  /\ list[l][i] \in Entry /\ list'[l][i] \in Entry
               /\ list'[l][i].pid = list[l][i].pid
               /\ list'[l][i].left = MinusOne(list[l][i].left)
    <3>1. list[l][i] \in Entry
      BY <2>1
    <3>2. list'[l][i] = [list[l][i] EXCEPT !.left = MinusOne(list[l][i].left)]
      BY <2>2
    <3>3. MinusOne(list[l][i].left) \in 0..pid_expiry_secs
      BY <1>1, <3>1 DEF MinusOne, Entry
    <3> QED BY <3>1, <3>2, <3>3 DEF Entry
  <2>4. list'[l] \in [1..Len(list[l]) -> Entry] /\ Len(list[l]) \in Nat
    <3> DEFINE next(i) == [list[l][i] EXCEPT !.left = MinusOne(@)]
    <3>1. list'[l] = [i \in 1..Len(list[l]) |-> next(i)]
      BY <2>2
    <3> HIDE DEF next
    <3>2. \A i \in 1..Len(list[l]) : next(i) \in Entry
      BY <2>3, <3>1
    <3> QED BY <2>1, <3>1, <3>2
  <2>5. list'[l] \in Seq(Entry) /\ Len(list'[l]) = Len(list[l]) /\ DOMAIN list'[l] = 1..Len(list[l])
    BY <2>4, IsASeq, LenProperties
  <2>6. InOrder(list'[l])
    <3> SUFFICES ASSUME NEW i \in 1..Len(list[l]), NEW j \in 1..Len(list[l]), i < j
                 PROVE  list'[l][i].pid # list'[l][j].pid /\ list'[l][i].left <= list'[l][j].left
      BY <2>5 DEF InOrder
    <3>1. list[l][i].pid # list[l][j].pid /\ list[l][i].left <= list[l][j].left
      BY <2>1 DEF InOrder
    <3>2. list[l][i].left \in Nat /\ list[l][j].left \in Nat
      BY <1>1, <2>3 DEF Entry
    <3> QED BY <2>3, <3>1, <3>2 DEF MinusOne
  <2> QED BY <2>5, <2>6
<1>3. num_pids' = num_pids /\ postponed' = FALSE /\ DOMAIN list' = Lists
  BY DEF Tick
<1>4. pid_expire_check' \in 0..pid_expiry_secs + 1
  BY <1>1 DEF Tick, MinusOne, ListsInv
<1> QED BY <1>2, <1>3, <1>4 DEF ListsInv

-----------------------------------------------------------------------------
(* The tracker                                                             *)

(* The flow that is moved to the head is there, and the others are others. *)
LEMMA MovedProperties ==
  ASSUME flows \in [1..Depth -> Flow], NEW i \in 1..Depth, NEW flow \in Flow
  PROVE  /\ MovedToHead(i, flow) \in [1..Depth -> Flow] /\ MovedToHead(i, flow)[1] = flow
         /\ \A j \in 1..Depth : \/ MovedToHead(i, flow)[j] = flow
                                \/ \E k \in 1..Depth : MovedToHead(i, flow)[j] = flows[k]
<1>1. Depth \in Nat \ {0}
  BY AdmissionAssumption
<1> DEFINE front == SubSeq(flows, 1, i - 1)
           back == SubSeq(flows, i + 1, Depth)
<1>2. flows \in Seq(Flow) /\ Len(flows) = Depth
  BY <1>1, IsASeq, LenProperties
<1>3. /\ front \in Seq(Flow) /\ Len(front) = i - 1
      /\ \A k \in 1..i - 1 : front[k] = flows[k]
  BY <1>1, <1>2
<1>4. /\ back \in Seq(Flow) /\ Len(back) = Depth - i
      /\ \A k \in 1..Depth - i : back[k] = flows[i + k]
  <2>1. back \in Seq(Flow) /\ Len(back) = Depth - (i + 1) + 1
    BY <1>1, <1>2
  <2>2. \A k \in 1..Depth - (i + 1) + 1 : back[k] = flows[i + 1 + k - 1]
    BY <1>1, <1>2
  <2> HIDE DEF back
  <2>3. Depth - (i + 1) + 1 = Depth - i /\ \A k \in Nat : i + 1 + k - 1 = i + k
    BY <1>1
  <2> QED BY <1>1, <2>1, <2>2, <2>3
<1> HIDE DEF front, back
<1> DEFINE m == <<flow>> \o front \o back
<1>5. MovedToHead(i, flow) = m
  BY DEF MovedToHead, front, back
<1>6. /\ <<flow>> \o front \in Seq(Flow) /\ Len(<<flow>> \o front) = i
      /\ (<<flow>> \o front)[1] = flow
      /\ \A k \in 2..i : (<<flow>> \o front)[k] = front[k - 1]
  BY <1>3
<1>7. /\ m \in Seq(Flow) /\ Len(m) = Depth
      /\ \A k \in 1..i : m[k] = (<<flow>> \o front)[k]
      /\ \A k \in i + 1..Depth : m[k] = back[k - i]
  <2> DEFINE head == <<flow>> \o front
  <2>1. head \in Seq(Flow) /\ Len(head) = i
    BY <1>6
  <2> HIDE DEF head
  <2>2. /\ head \o back \in Seq(Flow) /\ Len(head \o back) = i + (Depth - i)
        /\ \A k \in 1..i : (head \o back)[k] = head[k]
        /\ \A k \in i + 1..Depth : (head \o back)[k] = back[k - i]
    <3>1. /\ head \o back \in Seq(Flow) /\ Len(head \o back) = Len(head) + Len(back)
          /\ \A k \in 1..Len(head) + Len(back) :
               (head \o back)[k] = IF k <= Len(head) THEN head[k] ELSE back[k - Len(head)]
      BY <1>4, <2>1, ConcatProperties
    <3> HIDE DEF m
    <3> QED BY <1>1, <1>4, <2>1, <3>1
  <2>3. i + (Depth - i) = Depth
    BY <1>1
  <2> QED BY <2>2, <2>3 DEF head
<1> HIDE DEF m
<1>8. m[1] = flow
  BY <1>6, <1>7
<1>9. ASSUME NEW j \in 1..Depth
      PROVE  m[j] = flow \/ \E k \in 1..Depth : m[j] = flows[k]
  <2>1. CASE j = 1
    BY <1>8, <2>1
  <2>2. CASE j \in 2..i
    <3>1. m[j] = front[j - 1] /\ j - 1 \in 1..i - 1
      BY <1>6, <1>7, <2>2
    <3>2. m[j] = flows[j - 1] /\ j - 1 \in 1..Depth
      BY <1>1, <1>3, <3>1
    <3> QED BY <3>2
  <2>3. CASE j \in i + 1..Depth
    <3>1. m[j] = back[j - i] /\ j - i \in 1..Depth - i
      BY <1>1, <1>7, <2>3
    <3>2. m[j] = flows[i + (j - i)] /\ i + (j - i) = j
      BY <1>1, <1>4, <3>1
    <3> QED BY <3>2
  <2> QED BY <1>1, <2>1, <2>2, <2>3
<1>10. m \in [1..Depth -> Flow]
  BY <1>7, LenProperties, ElementOfSeq
<1> QED BY <1>5, <1>8, <1>9, <1>10

Backed(f, T) == \A k \in 0..f.count - 1 : f.sector - k \in T

(* A step that puts flow f, now at block b, at the head of the flows.      *)
LEMMA HeadMoves ==
  ASSUME TrackerInv, NEW i \in 1..Depth, NEW f \in Flow, f.sector \in Blocks,
         flows' = MovedToHead(i, f), Asked(f.sector), Backed(f, touched'),
         verdict' \in {"cache", "skip"},
         run > 0 /\ f.sector = flows[1].sector + 1 =>
           f.count = flows[1].count + 1 /\ (f.count > skip_seq_thresh => verdict' = "skip")
  PROVE  TrackerInv'
<1>1. /\ flows' \in [1..Depth -> Flow] /\ flows'[1] = f
      /\ \A j \in 1..Depth : flows'[j] = f \/ \E k \in 1..Depth : flows'[j] = flows[k]
  BY MovedProperties DEF TrackerInv
<1>2. 1 \in 1..Depth /\ skip_seq_thresh \in Nat
  BY AdmissionAssumption
<1>3. flows[1] \in Flow
  BY <1>2 DEF TrackerInv
<1>4. touched' = touched \cup {f.sector} /\ touched' \subseteq Blocks
  BY DEF Asked, TrackerInv
<1>5. FlowIsBacked'
  <2>1. \A j \in 1..Depth : Backed(flows[j], touched')
    BY <1>4 DEF TrackerInv, FlowIsBacked, Backed
  <2>2. \A j \in 1..Depth : Backed(flows'[j], touched')
    BY <1>1, <2>1
  <2> QED BY <2>2 DEF FlowIsBacked, Backed
<1>6. run' = IF run > 0 /\ f.sector = flows[1].sector + 1 THEN run + 1 ELSE 1
  BY DEF Asked
<1>7. run' \in Nat /\ run' <= f.sector + 1 /\ run' <= f.count + 1
  <2>1. f.sector \in Nat /\ f.count \in Nat /\ flows[1].sector \in Nat /\ flows[1].count \in Nat
    BY <1>3, AdmissionAssumption DEF Flow, Blocks
  <2> QED BY <1>6, <2>1 DEF TrackerInv
<1>8. SequentialIsSkipped'
  <2>1. f.count \in Nat
    BY DEF Flow
  <2> QED BY <1>2, <1>6, <1>7, <2>1 DEF SequentialIsSkipped
<1> QED BY <1>1, <1>4, <1>5, <1>7, <1>8 DEF TrackerInv

LEMMA SkipInv ==
  ASSUME TrackerInv, NEW b \in Blocks, SkipSequential(b)
  PROVE  TrackerInv'
<1>1. 1 \in 1..Depth /\ Depth \in 1..Depth /\ skip_seq_thresh \in Nat
  BY AdmissionAssumption
<1>2. \A i \in 1..Depth : flows[i] \in Flow
  BY DEF TrackerInv
<1>3. \A c \in Blocks : c \in Nat
  BY AdmissionAssumption DEF Blocks
<1>4. CASE UNCHANGED tracker
  BY <1>4 DEF tracker, TrackerInv, FlowIsBacked, SequentialIsSkipped
<1>5. ASSUME NEW i \in FlowOf(b), Repeats(b, i), Asked(b)
      PROVE  TrackerInv'
  <2>1. i \in 1..Depth
    BY DEF FlowOf, Follows
  <2>2. b = flows[i].sector /\ flows' = MovedToHead(i, flows[i]) /\ verdict' = "cache"
    BY <1>5 DEF Repeats
  <2>3. ~(run > 0 /\ b = flows[1].sector + 1)
    <3> SUFFICES ASSUME b = flows[1].sector + 1 PROVE FALSE
      OBVIOUS
    <3>1. 1 \in Follows(b)
      BY <1>1 DEF Follows
    <3>2. i = 1
      BY <1>1, <2>1, <3>1 DEF FlowOf
    <3> QED BY <1>1, <1>2, <1>3, <2>2, <3>2 DEF Flow
  <2>4. Backed(flows[i], touched')
    BY <1>5, <2>1 DEF TrackerInv, FlowIsBacked, Backed, Asked
  <2> QED BY <1>2, <1>5, <2>1, <2>2, <2>3, <2>4, HeadMoves
<1>6. ASSUME NEW i \in FlowOf(b), Continues(b, i), Asked(b)
      PROVE  TrackerInv'
  <2> DEFINE f == [sector |-> b, count |-> flows[i].count + 1]
  <2>1. i \in 1..Depth /\ flows[i] \in Flow
    BY <1>2 DEF FlowOf, Follows
  <2>2. /\ b = flows[i].sector + 1 /\ flows' = MovedToHead(i, f)
        /\ verdict' = IF flows[i].count + 1 > skip_seq_thresh THEN "skip" ELSE "cache"
    BY <1>6 DEF Continues
  <2>3. f \in Flow /\ f.sector = b /\ f.count = flows[i].count + 1
    BY <2>1 DEF Flow
  <2> HIDE DEF f
  <2>4. b = flows[1].sector + 1 => i = 1
    <3> HAVE b = flows[1].sector + 1
    <3>1. 1 \in Follows(b)
      BY <1>1 DEF Follows
    <3> QED BY <1>1, <2>1, <3>1 DEF FlowOf
  <2>5. Backed(f, touched')
    <3> SUFFICES ASSUME NEW k \in 0..f.count - 1 PROVE b - k \in touched'
      BY <2>3 DEF Backed
    <3>1. touched' = touched \cup {b}
      BY <1>6 DEF Asked
    <3>2. flows[i].count \in Nat /\ flows[i].sector \in Nat /\ b \in Nat
      BY <1>3, <2>1 DEF Flow
    <3>3. CASE k = 0
      BY <3>1, <3>2, <3>3
    <3>4. CASE k # 0
      <4>1. k - 1 \in 0..flows[i].count - 1 /\ b - k = flows[i].sector - (k - 1)
        BY <2>2, <2>3, <3>2, <3>4
      <4>2. flows[i].sector - (k - 1) \in touched
        BY <2>1, <4>1 DEF TrackerInv, FlowIsBacked
      <4> QED BY <3>1, <4>1, <4>2
    <3> QED BY <3>3, <3>4
  <2>6. verdict' \in {"cache", "skip"}
    BY <2>2
  <2> QED BY <1>6, <2>1, <2>2, <2>3, <2>4, <2>5, <2>6, HeadMoves
<1>7. ASSUME Starts(b), Asked(b)
      PROVE  TrackerInv'
  <2> DEFINE f == [sector |-> b, count |-> 1]
  <2>1. Follows(b) = {} /\ flows' = MovedToHead(Depth, f) /\ verdict' = "cache"
    BY <1>7 DEF Starts
  <2>2. f \in Flow /\ f.sector = b /\ f.count = 1
    BY DEF Flow
  <2> HIDE DEF f
  <2>3. b # flows[1].sector + 1
    BY <1>1, <2>1 DEF Follows
  <2>4. Backed(f, touched')
    BY <1>3, <1>7, <2>2 DEF Backed, Asked
  <2> QED BY <1>1, <1>7, <2>1, <2>2, <2>3, <2>4, HeadMoves
<1> QED BY <1>4, <1>5, <1>6, <1>7 DEF SkipSequential

LEMMA UncacheableInv ==
  ASSUME TrackerInv, NEW t, NEW b \in Blocks, NEW L, Uncacheable(t, b, L)
  PROVE  TrackerInv'
<1>1. CASE UNCHANGED tracker
  BY <1>1 DEF tracker, TrackerInv, FlowIsBacked, SequentialIsSkipped
<1>2. CASE SkipSequential(b)
  BY <1>2, SkipInv
<1> QED BY <1>1, <1>2 DEF Uncacheable

-----------------------------------------------------------------------------
(* The theorems                                                            *)

LEMMA InitInv == Init => AdmIInv
<1> SUFFICES ASSUME Init PROVE AdmIInv
  OBVIOUS
<1>1. max_pids \in Nat /\ pid_expiry_secs \in Nat /\ skip_seq_thresh \in Nat /\ Depth \in Nat
  BY AdmissionAssumption
<1>2. 0 \in Blocks /\ 0 \in 0..pid_expiry_secs + 1
  BY AdmissionAssumption DEF Blocks
<1>3. ListsInv
  <2>1. \A l \in Lists : list[l] = <<>> /\ num_pids[l] = 0
    BY DEF Init
  <2>2. <<>> \in Seq(Entry) /\ Len(<<>>) = 0 /\ DOMAIN <<>> = {}
    OBVIOUS
  <2>3. InOrder(<<>>)
    BY <2>2 DEF InOrder
  <2>4. /\ DOMAIN list = Lists /\ num_pids \in [Lists -> Nat]
        /\ pid_expire_check \in 0..pid_expiry_secs + 1 /\ postponed \in BOOLEAN
    BY <1>2 DEF Init
  <2>5. 0 <= max_pids + 1
    BY <1>1
  <2> QED BY <2>1, <2>2, <2>3, <2>4, <2>5 DEF ListsInv
<1>4. TrackerInv
  <2>1. flows \in [1..Depth -> Flow] /\ \A i \in 1..Depth : flows[i].count = 0
    BY <1>2 DEF Init, Flow
  <2> QED BY <1>1, <2>1 DEF Init, TrackerInv, FlowIsBacked, SequentialIsSkipped
<1> QED BY <1>3, <1>4 DEF AdmIInv

LEMMA NextInv == AdmIInv /\ [Next]_vars => AdmIInv'
<1> SUFFICES ASSUME ListsInv, TrackerInv, [Next]_vars PROVE ListsInv' /\ TrackerInv'
  BY DEF AdmIInv
<1>1. UNCHANGED tracker => TrackerInv'
  BY DEF tracker, TrackerInv, FlowIsBacked, SequentialIsSkipped
<1>2. ASSUME NEW l \in Lists, NEW p \in Pids, AddPid(l, p)
      PROVE  ListsInv' /\ TrackerInv'
  <2>1. UNCHANGED tracker
    BY <1>2 DEF AddPid
  <2> QED BY <1>1, <1>2, <2>1, AddLists
<1>3. ASSUME NEW l \in Lists, NEW S, DelPids(l, S)
      PROVE  ListsInv' /\ TrackerInv'
  <2>1. UNCHANGED tracker
    BY <1>3 DEF DelPids
  <2> QED BY <1>1, <1>3, <2>1, DelLists
<1>4. CASE Tick
  BY <1>1, <1>4, TickLists DEF Tick
<1>5. CASE MapRead
  BY <1>1, <1>5, ExpireLists DEF MapRead
<1>6. ASSUME NEW t \in Threads, NEW b \in Blocks, MapWrite(t, b)
      PROVE  ListsInv' /\ TrackerInv'
  BY <1>6, ExpireLists, UncacheableInv DEF MapWrite
<1>7. ASSUME NEW t \in Threads, NEW b \in Blocks, ReadMiss(t, b)
      PROVE  ListsInv' /\ TrackerInv'
  <2>1. UNCHANGED lists /\ postponed' = FALSE
    BY <1>7 DEF ReadMiss
  <2> QED BY <1>7, <2>1, UncacheableInv DEF ReadMiss, lists, ListsInv
<1>8. CASE UNCHANGED vars
  BY <1>1, <1>8 DEF vars, tracker, ListsInv
<1> QED BY <1>2, <1>3, <1>4, <1>5, <1>6, <1>7, <1>8 DEF Next

LEMMA Inductive == Spec => []AdmIInv
  BY InitInv, NextInv, PTL DEF Spec

(* Whatever is added, deleted, dropped and expired, in any order: the      *)
(* count kept of a list is its length, a pid is on it once, what expires   *)
(* first is at its head, and it is at most one longer than sysctl_max_pids.*)
THEOREM ListsStayBounded == Spec => []PidListsBounded
<1>1. AdmIInv => PidListsBounded
  <2> SUFFICES ASSUME ListsInv, TrackerInv PROVE PidListsBounded
    BY DEF AdmIInv
  <2>1. 1 \in 1..Depth /\ MaxBlock \in Nat
    BY AdmissionAssumption
  <2>2. \A i \in 1..Depth : flows[i].count \in 0..MaxBlock + 1 /\ flows[i].sector \in Blocks
    <3> TAKE i \in 1..Depth
    <3>1. flows[i].count \in Nat /\ flows[i].sector \in Blocks
      BY DEF TrackerInv, Flow
    <3>2. CASE flows[i].count > flows[i].sector + 1
      <4>1. flows[i].sector + 1 \in 0..flows[i].count - 1
        BY <2>1, <3>1, <3>2 DEF Blocks
      <4>2. flows[i].sector - (flows[i].sector + 1) \in Blocks
        BY <4>1 DEF TrackerInv, FlowIsBacked
      <4> QED BY <2>1, <3>1, <4>2 DEF Blocks
    <3> QED BY <2>1, <3>1, <3>2 DEF Blocks
  <2>3. flows \in [1..Depth -> [sector : Blocks, count : 0..MaxBlock + 1]]
    <3>1. \A i \in 1..Depth : flows[i] \in [sector : Blocks, count : 0..MaxBlock + 1]
      BY <2>2 DEF TrackerInv, Flow
    <3> QED BY <3>1 DEF TrackerInv
  <2>4. run \in 0..MaxBlock + 1
    BY <2>1, <2>2 DEF TrackerInv, Blocks
  <2>5. AdmissionTypeOK
    BY <2>3, <2>4 DEF AdmissionTypeOK, ListsInv, TrackerInv, Entry
  <2> QED BY <2>5 DEF PidListsBounded, ListsInv, InOrder
<1> QED BY <1>1, Inductive, PTL

(* What a flow counts was asked for, whichever flows other blocks matched, *)
(* pushed out and had reused since.                                        *)
THEOREM FlowsAreBacked == Spec => []FlowIsBacked
<1>1. AdmIInv => FlowIsBacked
  BY DEF AdmIInv, TrackerInv
<1> QED BY <1>1, Inductive, PTL

(* A stream of consecutive blocks is skipped at the latest one block past  *)
(* the threshold, whichever flow its first block matched.                  *)
THEOREM StreamsAreSkipped == Spec => []SequentialIsSkipped
<1>1. AdmIInv => SequentialIsSkipped
  BY DEF AdmIInv, TrackerInv
<1> QED BY <1>1, Inductive, PTL
=============================================================================
