-------------------------- MODULE BlockListsProofs --------------------------
(***************************************************************************)
(* The links of the LRU lists, the hash chains and the invalid list always *)
(* hold together, for a set of any size.  What is proved about a list is   *)
(* said of the sequence that its links represent: taking a block out of    *)
(* the links takes it out of the sequence, and so on; and the walk from    *)
(* the head of a list finds its sequence.  With each step of the links go  *)
(* the moves of the sequences, which are those of BlockOrder.              *)
(***************************************************************************)
EXTENDS BlockLists, FiniteSetTheorems, NaturalsInduction, WellFoundedInduction, TLAPS

Link == Slots \cup {Null}

LEMMA Constants ==
  /\ Assoc \in Nat /\ Assoc # 0
  /\ Null \notin Slots /\ Null \notin Dbns
  /\ \A s \in Slots : s \in Int
  /\ Slots = 0..Assoc - 1
BY BlockListsAssumption DEF Slots

-----------------------------------------------------------------------------
(* The sequence that links represent                                       *)

After(seq, i) == IF i = Len(seq) THEN Null ELSE seq[i + 1]
Before(seq, i) == IF i = 1 THEN Null ELSE seq[i - 1]

First(seq) == IF Len(seq) = 0 THEN Null ELSE seq[1]
Latest(seq) == IF Len(seq) = 0 THEN Null ELSE seq[Len(seq)]

(* A sequence of different blocks, each linked to the next.                *)
Links(seq, next, prev) ==
  /\ seq \in Seq(Slots)
  /\ \A i, j \in 1..Len(seq) : seq[i] = seq[j] => i = j
  /\ \A i \in 1..Len(seq) : next[seq[i]] = After(seq, i) /\ prev[seq[i]] = Before(seq, i)

Out(seq, i) == [j \in 1..Len(seq) - 1 |-> IF j < i THEN seq[j] ELSE seq[j + 1]]
In(s, seq) == [j \in 1..Len(seq) + 1 |-> IF j = 1 THEN s ELSE seq[j - 1]]

(* Only the links of the blocks themselves matter.                         *)
LEMMA LinksFrame ==
  ASSUME NEW seq, NEW n1, NEW p1, NEW n2, NEW p2, Links(seq, n1, p1),
         \A s \in ToSet(seq) : n2[s] = n1[s] /\ p2[s] = p1[s]
  PROVE  Links(seq, n2, p2)
<1>1. \A i \in 1..Len(seq) : seq[i] \in ToSet(seq)
  BY DEF ToSet, Links
<1> QED BY <1>1 DEF Links

(* A block is taken out: its neighbours are linked to each other.          *)
LEMMA OutIsShorter ==
  ASSUME NEW seq \in Seq(Slots), NEW i \in 1..Len(seq)
  PROVE  /\ Out(seq, i) \in Seq(Slots) /\ Len(Out(seq, i)) = Len(seq) - 1
         /\ \A j \in 1..Len(seq) - 1 :
              Out(seq, i)[j] = IF j < i THEN seq[j] ELSE seq[j + 1]
<1> DEFINE size == Len(seq)
           u == Out(seq, i)
<1>1. size \in Nat /\ size > 0
  OBVIOUS
<1>2. u = [j \in 1..size - 1 |-> IF j < i THEN seq[j] ELSE seq[j + 1]]
  BY DEF Out
<1>3. \A j \in 1..size - 1 : (IF j < i THEN seq[j] ELSE seq[j + 1]) \in Slots
  <2> SUFFICES ASSUME NEW j \in 1..size - 1
               PROVE  seq[j] \in Slots /\ seq[j + 1] \in Slots
    OBVIOUS
  <2>1. j \in 1..size /\ j + 1 \in 1..size
    BY <1>1
  <2> QED BY <2>1
<1> HIDE DEF u
<1>4. u \in [1..size - 1 -> Slots] /\ size - 1 \in Nat
  BY <1>1, <1>2, <1>3
<1>5. u \in Seq(Slots) /\ Len(u) = size - 1
  <2> HIDE DEF size
  <2> QED BY <1>4
<1> QED BY <1>2, <1>5 DEF u

LEMMA OutOfLinks ==
  ASSUME NEW seq, NEW n, NEW p, Links(seq, n, p), NEW i \in 1..Len(seq),
         n \in [Slots -> Link], p \in [Slots -> Link],
         NEW m, NEW q,
         m = IF p[seq[i]] # Null THEN [n EXCEPT ![p[seq[i]]] = n[seq[i]]] ELSE n,
         q = IF n[seq[i]] # Null THEN [p EXCEPT ![n[seq[i]]] = p[seq[i]]] ELSE p
  PROVE  Links(Out(seq, i), m, q)
<1> DEFINE size == Len(seq)
           u == Out(seq, i)
<1>1. size \in Nat /\ i \in 1..size /\ seq \in Seq(Slots)
  BY DEF Links
<1>2. /\ u \in Seq(Slots) /\ Len(u) = size - 1
      /\ \A j \in 1..size - 1 : u[j] = IF j < i THEN seq[j] ELSE seq[j + 1]
  BY <1>1, OutIsShorter
<1>3. /\ \A a, b \in 1..size : seq[a] = seq[b] => a = b
      /\ \A a \in 1..size : /\ seq[a] \in Slots /\ seq[a] # Null
                            /\ n[seq[a]] = IF a = size THEN Null ELSE seq[a + 1]
                            /\ p[seq[a]] = IF a = 1 THEN Null ELSE seq[a - 1]
  BY <1>1, Constants DEF Links, After, Before
<1> HIDE DEF u, size
<1>4. \A a, b \in 1..size - 1 : u[a] = u[b] => a = b
  <2> SUFFICES ASSUME NEW a \in 1..size - 1, NEW b \in 1..size - 1, u[a] = u[b] PROVE a = b
    OBVIOUS
  <2> DEFINE x == IF a < i THEN a ELSE a + 1
             y == IF b < i THEN b ELSE b + 1
  <2>1. x \in 1..size /\ y \in 1..size /\ (x = y => a = b)
    BY <1>1
  <2>2. u[a] = seq[x] /\ u[b] = seq[y]
    BY <1>2
  <2> HIDE DEF x, y
  <2>3. seq[x] = seq[y]
    BY <2>2
  <2>4. x = y
    BY <1>3, <2>1, <2>3
  <2> QED BY <2>1, <2>4
<1>5. \A a \in 1..size : m[seq[a]] = IF a = i - 1 THEN n[seq[i]] ELSE n[seq[a]]
  <2>1. CASE i = 1
    BY <1>1, <1>3, <2>1
  <2>2. CASE i # 1
    <3>1. i - 1 \in 1..size
      BY <1>1, <2>2
    <3>2. p[seq[i]] = seq[i - 1] /\ seq[i - 1] # Null
      BY <1>1, <1>3, <2>2, <3>1
    <3>3. m = [n EXCEPT ![seq[i - 1]] = n[seq[i]]]
      BY <3>2
    <3>4. \A a \in 1..size : seq[a] \in Slots /\ (seq[a] = seq[i - 1] <=> a = i - 1)
      BY <1>3, <3>1
    <3> QED BY <3>3, <3>4
  <2> QED BY <2>1, <2>2
<1>6. \A a \in 1..size : q[seq[a]] = IF a = i + 1 THEN p[seq[i]] ELSE p[seq[a]]
  <2>1. CASE i = size
    BY <1>1, <1>3, <2>1
  <2>2. CASE i # size
    <3>1. i + 1 \in 1..size
      BY <1>1, <2>2
    <3>2. n[seq[i]] = seq[i + 1] /\ seq[i + 1] # Null
      BY <1>1, <1>3, <2>2, <3>1
    <3>3. q = [p EXCEPT ![seq[i + 1]] = p[seq[i]]]
      BY <3>2
    <3>4. \A a \in 1..size : seq[a] \in Slots /\ (seq[a] = seq[i + 1] <=> a = i + 1)
      BY <1>3, <3>1
    <3> QED BY <3>3, <3>4
  <2> QED BY <2>1, <2>2
<1>7. ASSUME NEW a \in 1..size - 1
      PROVE  /\ m[u[a]] = IF a = size - 1 THEN Null ELSE u[a + 1]
             /\ q[u[a]] = IF a = 1 THEN Null ELSE u[a - 1]
  <2>1. a \in 1..size /\ a + 1 \in 1..size
    BY <1>1
  <2>2. CASE a < i
    <3>1. u[a] = seq[a]
      BY <1>2, <2>2
    <3>2. q[seq[a]] = p[seq[a]] /\ (a # 1 => a - 1 \in 1..size - 1 /\ a - 1 < i)
      BY <1>1, <1>6, <2>1, <2>2
    <3>3. q[u[a]] = IF a = 1 THEN Null ELSE u[a - 1]
      BY <1>2, <1>3, <2>1, <3>1, <3>2
    <3>4. CASE a = i - 1
      <4>1. m[seq[a]] = IF i = size THEN Null ELSE seq[i + 1]
        BY <1>1, <1>3, <1>5, <2>1, <3>4
      <4>2. i # size => a + 1 \in 1..size - 1 /\ u[a + 1] = seq[i + 1] /\ a # size - 1
        BY <1>1, <1>2, <3>4
      <4>3. i = size <=> a = size - 1
        BY <1>1, <3>4
      <4> QED BY <3>1, <3>3, <4>1, <4>2, <4>3
    <3>5. CASE a # i - 1
      <4>1. m[seq[a]] = n[seq[a]] /\ a < i - 1 /\ a # size /\ a # size - 1
        BY <1>1, <1>5, <2>1, <2>2, <3>5
      <4>2. a + 1 \in 1..size - 1 /\ a + 1 < i
        BY <1>1, <2>2, <4>1
      <4>3. u[a + 1] = seq[a + 1]
        BY <1>2, <4>2
      <4> QED BY <1>3, <2>1, <3>1, <3>3, <4>1, <4>3
    <3> QED BY <3>4, <3>5
  <2>3. CASE ~(a < i)
    <3>1. u[a] = seq[a + 1]
      BY <1>2, <2>3
    <3>2. m[seq[a + 1]] = n[seq[a + 1]]
      BY <1>1, <1>5, <2>1, <2>3
    <3>3. m[u[a]] = IF a = size - 1 THEN Null ELSE u[a + 1]
      <4>1. CASE a = size - 1
        BY <1>1, <1>3, <2>1, <3>1, <3>2, <4>1
      <4>2. CASE a # size - 1
        <5>1. a + 1 \in 1..size - 1 /\ ~(a + 1 < i) /\ a + 1 # size
          BY <1>1, <2>3, <4>2
        <5>2. u[a + 1] = seq[(a + 1) + 1]
          BY <1>2, <5>1
        <5> QED BY <1>3, <2>1, <3>1, <3>2, <4>2, <5>1, <5>2
      <4> QED BY <4>1, <4>2
    <3>4. CASE a = i
      <4>1. q[seq[a + 1]] = IF i = 1 THEN Null ELSE seq[i - 1]
        BY <1>1, <1>3, <1>6, <2>1, <3>4
      <4>2. i # 1 => a - 1 \in 1..size - 1 /\ u[a - 1] = seq[i - 1]
        BY <1>1, <1>2, <3>4
      <4> QED BY <3>1, <3>3, <3>4, <4>1, <4>2
    <3>5. CASE a # i
      <4>1. q[seq[a + 1]] = p[seq[a + 1]] /\ a + 1 # 1 /\ a # 1
        BY <1>1, <1>6, <2>1, <2>3, <3>5
      <4>2. a - 1 \in 1..size - 1 /\ ~(a - 1 < i) /\ (a - 1) + 1 = a /\ (a + 1) - 1 = a
        BY <1>1, <2>3, <3>5
      <4>3. u[a - 1] = seq[a]
        BY <1>2, <4>2
      <4> QED BY <1>3, <2>1, <3>1, <3>3, <4>1, <4>2, <4>3
    <3> QED BY <3>4, <3>5
  <2> QED BY <2>2, <2>3
<1> QED BY <1>2, <1>4, <1>7 DEF Links, After, Before, u

(* A block comes in at the front, or at the end.                           *)
LEMMA InAtFront ==
  ASSUME NEW seq \in Seq(Slots), NEW s \in Slots
  PROVE  /\ <<s>> \o seq \in Seq(Slots) /\ Len(<<s>> \o seq) = Len(seq) + 1
         /\ (<<s>> \o seq)[1] = s
         /\ \A j \in 1..Len(seq) : (<<s>> \o seq)[j + 1] = seq[j]
OBVIOUS

LEMMA FrontOfLinks ==
  ASSUME NEW seq, NEW n, NEW p, Links(seq, n, p), NEW s \in Slots, s \notin ToSet(seq),
         NEW m, NEW q, m[s] = First(seq), q[s] = Null,
         \A t \in ToSet(seq) :
           m[t] = n[t] /\ q[t] = IF t = First(seq) THEN s ELSE p[t]
  PROVE  Links(<<s>> \o seq, m, q)
<1> DEFINE size == Len(seq)
           u == <<s>> \o seq
<1>1. size \in Nat /\ seq \in Seq(Slots)
  BY DEF Links
<1>2. u \in Seq(Slots) /\ Len(u) = size + 1 /\ u[1] = s /\ \A j \in 1..size : u[j + 1] = seq[j]
  BY <1>1, InAtFront
<1>3. /\ \A a, b \in 1..size : seq[a] = seq[b] => a = b
      /\ \A a \in 1..size : /\ seq[a] \in ToSet(seq) /\ seq[a] # s
                            /\ n[seq[a]] = IF a = size THEN Null ELSE seq[a + 1]
                            /\ p[seq[a]] = IF a = 1 THEN Null ELSE seq[a - 1]
      /\ size # 0 => First(seq) = seq[1] /\ 1 \in 1..size
      /\ size = 0 => First(seq) = Null
  BY <1>1 DEF Links, After, Before, First, ToSet
<1> HIDE DEF u, size
<1>4. \A a \in 1..size + 1 : a # 1 => a - 1 \in 1..size /\ u[a] = seq[a - 1]
  <2> SUFFICES ASSUME NEW a \in 1..size + 1, a # 1 PROVE a - 1 \in 1..size /\ u[a] = seq[a - 1]
    OBVIOUS
  <2>1. a - 1 \in 1..size /\ (a - 1) + 1 = a
    BY <1>1
  <2> QED BY <1>2, <2>1
<1>5. ASSUME NEW a \in 1..size + 1, NEW b \in 1..size + 1, u[a] = u[b] PROVE a = b
  <2>1. CASE a = 1 \/ b = 1
    BY <1>2, <1>3, <1>4, <1>5, <2>1
  <2>2. CASE a # 1 /\ b # 1
    <3>1. seq[a - 1] = seq[b - 1]
      BY <1>4, <1>5, <2>2
    <3>2. a - 1 = b - 1
      BY <1>3, <1>4, <2>2, <3>1
    <3> QED BY <1>1, <3>2
  <2> QED BY <2>1, <2>2
<1>6. ASSUME NEW a \in 1..size + 1
      PROVE  /\ m[u[a]] = IF a = size + 1 THEN Null ELSE u[a + 1]
             /\ q[u[a]] = IF a = 1 THEN Null ELSE u[a - 1]
  <2>1. CASE a = 1
    <3>1. u[a] = s /\ (size # 0 => u[a + 1] = seq[1])
      BY <1>2, <1>3, <2>1
    <3>2. size = 0 <=> a = size + 1
      BY <1>1, <2>1
    <3> QED BY <1>3, <2>1, <3>1, <3>2
  <2>2. CASE a # 1
    <3>1. a - 1 \in 1..size /\ u[a] = seq[a - 1] /\ u[a] \in ToSet(seq)
      BY <1>3, <1>4, <2>2
    <3>2. m[u[a]] = IF a = size + 1 THEN Null ELSE u[a + 1]
      <4>1. m[u[a]] = IF a - 1 = size THEN Null ELSE seq[(a - 1) + 1]
        BY <1>3, <3>1
      <4>2. a - 1 = size <=> a = size + 1
        BY <1>1
      <4>3. a # size + 1 => (a - 1) + 1 = a /\ a \in 1..size /\ u[a + 1] = seq[a]
        BY <1>1, <1>2, <2>2
      <4> QED BY <4>1, <4>2, <4>3
    <3>3. q[u[a]] = u[a - 1]
      <4>1. CASE a = 2
        BY <1>2, <1>3, <3>1, <4>1
      <4>2. CASE a # 2
        <5>1. a - 1 # 1 /\ a - 1 \in 1..size + 1 /\ 1 \in 1..size /\ size # 0
          BY <1>1, <3>1, <4>2
        <5>2. u[a] # First(seq) /\ u[a - 1] = seq[(a - 1) - 1]
          BY <1>3, <1>4, <3>1, <5>1
        <5> QED BY <1>3, <3>1, <5>1, <5>2
      <4> QED BY <4>1, <4>2
    <3> QED BY <2>2, <3>2, <3>3
  <2> QED BY <2>1, <2>2
<1> QED BY <1>2, <1>5, <1>6 DEF Links, After, Before, u

LEMMA EndOfLinks ==
  ASSUME NEW seq, NEW n, NEW p, Links(seq, n, p), NEW s \in Slots, s \notin ToSet(seq),
         NEW m, NEW q, m[s] = Null, q[s] = Latest(seq),
         \A t \in ToSet(seq) :
           q[t] = p[t] /\ m[t] = IF t = Latest(seq) THEN s ELSE n[t]
  PROVE  Links(Append(seq, s), m, q)
<1> DEFINE size == Len(seq)
           u == Append(seq, s)
<1>1. size \in Nat /\ seq \in Seq(Slots)
  BY DEF Links
<1>2. u \in Seq(Slots) /\ Len(u) = size + 1 /\ u[size + 1] = s /\ \A j \in 1..size : u[j] = seq[j]
  BY <1>1
<1>3. /\ \A a, b \in 1..size : seq[a] = seq[b] => a = b
      /\ \A a \in 1..size : /\ seq[a] \in ToSet(seq) /\ seq[a] # s
                            /\ n[seq[a]] = IF a = size THEN Null ELSE seq[a + 1]
                            /\ p[seq[a]] = IF a = 1 THEN Null ELSE seq[a - 1]
      /\ size # 0 => Latest(seq) = seq[size] /\ size \in 1..size
      /\ size = 0 => Latest(seq) = Null
  BY <1>1 DEF Links, After, Before, Latest, ToSet
<1> HIDE DEF u, size
<1>4. ASSUME NEW a \in 1..size + 1, NEW b \in 1..size + 1, u[a] = u[b] PROVE a = b
  <2>1. (a # size + 1 => a \in 1..size) /\ (b # size + 1 => b \in 1..size)
    BY <1>1
  <2>2. CASE a = size + 1 \/ b = size + 1
    BY <1>2, <1>3, <1>4, <2>1, <2>2
  <2>3. CASE a # size + 1 /\ b # size + 1
    BY <1>2, <1>3, <1>4, <2>1, <2>3
  <2> QED BY <2>2, <2>3
<1>5. ASSUME NEW a \in 1..size + 1
      PROVE  /\ m[u[a]] = IF a = size + 1 THEN Null ELSE u[a + 1]
             /\ q[u[a]] = IF a = 1 THEN Null ELSE u[a - 1]
  <2>1. CASE a = size + 1
    <3>1. u[a] = s /\ (size # 0 => a - 1 = size /\ u[a - 1] = seq[size])
      BY <1>1, <1>2, <1>3, <2>1
    <3>2. size = 0 <=> a = 1
      BY <1>1, <2>1
    <3> QED BY <1>3, <2>1, <3>1, <3>2
  <2>2. CASE a # size + 1
    <3>1. a \in 1..size /\ u[a] = seq[a] /\ u[a] \in ToSet(seq)
      BY <1>1, <1>2, <1>3, <2>2
    <3>2. a # 1 => a - 1 \in 1..size /\ u[a - 1] = seq[a - 1]
      BY <1>1, <1>2, <3>1
    <3>3. m[u[a]] = u[a + 1]
      <4>1. CASE a = size
        BY <1>2, <1>3, <3>1, <4>1
      <4>2. CASE a # size
        <5>1. a + 1 \in 1..size /\ size # 0
          BY <1>1, <3>1, <4>2
        <5>2. u[a] # Latest(seq) /\ u[a + 1] = seq[a + 1]
          BY <1>2, <1>3, <3>1, <4>2, <5>1
        <5> QED BY <1>3, <3>1, <4>2, <5>2
      <4> QED BY <4>1, <4>2
    <3> QED BY <1>3, <2>2, <3>1, <3>2, <3>3
  <2> QED BY <2>1, <2>2
<1>6. \A a \in 1..Len(u) : m[u[a]] = After(u, a) /\ q[u[a]] = Before(u, a)
  BY <1>2, <1>5 DEF After, Before
<1>7. \A a, b \in 1..Len(u) : u[a] = u[b] => a = b
  BY <1>2, <1>4
<1> QED BY <1>2, <1>6, <1>7 DEF Links, u

(* Which blocks there are.                                                 *)
Different(seq) == \A i, j \in 1..Len(seq) : seq[i] = seq[j] => i = j

LEMMA OutSet ==
  ASSUME NEW seq \in Seq(Slots), Different(seq), NEW i \in 1..Len(seq)
  PROVE  ToSet(Out(seq, i)) = ToSet(seq) \ {seq[i]}
<1> DEFINE size == Len(seq)
           u == Out(seq, i)
<1>1. size \in Nat /\ i \in 1..size /\ \A a, b \in 1..size : seq[a] = seq[b] => a = b
  BY DEF Different
<1>2. /\ u \in Seq(Slots) /\ Len(u) = size - 1
      /\ \A j \in 1..size - 1 : u[j] = IF j < i THEN seq[j] ELSE seq[j + 1]
  BY OutIsShorter
<1>3. ToSet(u) = {u[j] : j \in 1..size - 1} /\ ToSet(seq) = {seq[j] : j \in 1..size}
  BY <1>2 DEF ToSet
<1> HIDE DEF u, size
<1>4. ASSUME NEW j \in 1..size - 1 PROVE u[j] \in ToSet(seq) \ {seq[i]}
  <2>1. j \in 1..size /\ j + 1 \in 1..size
    BY <1>1
  <2>2. CASE j < i
    BY <1>1, <1>2, <1>3, <2>1, <2>2
  <2>3. CASE ~(j < i)
    <3>1. j + 1 # i
      BY <1>1, <2>3
    <3> QED BY <1>1, <1>2, <1>3, <2>1, <2>3, <3>1
  <2> QED BY <2>2, <2>3
<1>5. ASSUME NEW j \in 1..size, j # i PROVE seq[j] \in ToSet(u)
  <2>1. CASE j < i
    <3>1. j \in 1..size - 1
      BY <1>1, <2>1
    <3> QED BY <1>2, <1>3, <2>1, <3>1
  <2>2. CASE ~(j < i)
    <3>1. j - 1 \in 1..size - 1 /\ ~(j - 1 < i) /\ (j - 1) + 1 = j
      BY <1>1, <1>5, <2>2
    <3>2. u[j - 1] = seq[j]
      BY <1>2, <3>1
    <3> QED BY <1>3, <3>1, <3>2
  <2> QED BY <2>1, <2>2
<1>6. ToSet(seq) \ {seq[i]} \subseteq ToSet(u)
  BY <1>3, <1>5
<1>7. ToSet(u) \subseteq ToSet(seq) \ {seq[i]}
  BY <1>3, <1>4
<1> QED BY <1>6, <1>7 DEF u

LEMMA FrontSet ==
  ASSUME NEW seq \in Seq(Slots), NEW s \in Slots
  PROVE  ToSet(<<s>> \o seq) = ToSet(seq) \cup {s}
<1> DEFINE size == Len(seq)
           u == <<s>> \o seq
<1>1. size \in Nat
  OBVIOUS
<1>2. u \in Seq(Slots) /\ Len(u) = size + 1 /\ u[1] = s /\ \A j \in 1..size : u[j + 1] = seq[j]
  BY InAtFront
<1>3. ToSet(u) = {u[j] : j \in 1..size + 1} /\ ToSet(seq) = {seq[j] : j \in 1..size}
  BY <1>2 DEF ToSet
<1> HIDE DEF u, size
<1>4. ASSUME NEW j \in 1..size PROVE seq[j] \in ToSet(u)
  <2>1. j + 1 \in 1..size + 1
    BY <1>1
  <2> QED BY <1>2, <1>3, <2>1
<1>5. ASSUME NEW j \in 1..size + 1, j # 1 PROVE u[j] \in ToSet(seq)
  <2>1. j - 1 \in 1..size /\ (j - 1) + 1 = j
    BY <1>1, <1>5
  <2> QED BY <1>2, <1>3, <2>1
<1>6. 1 \in 1..size + 1
  BY <1>1
<1>7. ToSet(u) \subseteq ToSet(seq) \cup {s}
  BY <1>2, <1>3, <1>5
<1>8. ToSet(seq) \cup {s} \subseteq ToSet(u)
  BY <1>2, <1>3, <1>4, <1>6
<1> QED BY <1>7, <1>8 DEF u

LEMMA EndSet ==
  ASSUME NEW seq \in Seq(Slots), NEW s \in Slots
  PROVE  ToSet(Append(seq, s)) = ToSet(seq) \cup {s}
<1> DEFINE size == Len(seq)
           u == Append(seq, s)
<1>1. size \in Nat
  OBVIOUS
<1>2. u \in Seq(Slots) /\ Len(u) = size + 1 /\ u[size + 1] = s /\ \A j \in 1..size : u[j] = seq[j]
  OBVIOUS
<1>3. ToSet(u) = {u[j] : j \in 1..size + 1} /\ ToSet(seq) = {seq[j] : j \in 1..size}
  BY <1>2 DEF ToSet
<1> HIDE DEF u, size
<1>4. ASSUME NEW j \in 1..size + 1, j # size + 1 PROVE j \in 1..size
  BY <1>1, <1>4
<1>5. 1..size \subseteq 1..size + 1 /\ size + 1 \in 1..size + 1
  BY <1>1
<1>6. ToSet(u) \subseteq ToSet(seq) \cup {s}
  BY <1>2, <1>3, <1>4
<1>7. ToSet(seq) \cup {s} \subseteq ToSet(u)
  BY <1>2, <1>3, <1>5
<1> QED BY <1>6, <1>7 DEF u

(* There are at most as many as slots, so that a walk gets to the end.     *)
LEMMA FewSlots ==
  ASSUME NEW seq \in Seq(Slots), Different(seq)
  PROVE  Len(seq) <= Assoc
<1>1. IsFiniteSet(Slots) /\ Cardinality(Slots) = Assoc
  <2>1. Assoc - 1 \in Int /\ Slots = 0..Assoc - 1
    BY Constants
  <2>2. IsFiniteSet(0..Assoc - 1)
        /\ Cardinality(0..Assoc - 1) = IF 0 > Assoc - 1 THEN 0 ELSE (Assoc - 1) - 0 + 1
    BY <2>1, FS_Interval
  <2> QED BY <2>1, <2>2, Constants
<1>2. Len(seq) \in Nat /\ IsFiniteSet(1..Len(seq)) /\ Cardinality(1..Len(seq)) = Len(seq)
  <2> DEFINE size == Len(seq)
  <2>1. size \in Nat
    OBVIOUS
  <2> HIDE DEF size
  <2>2. IsFiniteSet(1..size) /\ Cardinality(1..size) = IF 1 > size THEN 0 ELSE size - 1 + 1
    BY <2>1, FS_Interval
  <2>3. Cardinality(1..size) = size
    BY <2>1, <2>2
  <2> QED BY <2>1, <2>2, <2>3 DEF size
<1>3. seq \in [1..Len(seq) -> Slots]
  OBVIOUS
<1>4. seq \in Injection(1..Len(seq), Slots)
  BY <1>3 DEF Different, Injection, IsInjective
<1> QED BY <1>1, <1>2, <1>4, FS_Injection

-----------------------------------------------------------------------------
(* Iteration: induction as a statement on sets                             *)

LEMMA AllNaturals ==
  ASSUME NEW S, 0 \in S, \A n \in Nat : n \in S => n + 1 \in S
  PROVE  Nat \subseteq S
<1> DEFINE R == OpToRel(<, Nat)
           T == Nat \ S
<1> SUFFICES ASSUME T # {} PROVE FALSE
  OBVIOUS
<1>1. IsWellFoundedOn(R, Nat) /\ T \subseteq Nat
  BY NatLessThanWellFounded
<1>2. PICK x \in T : \A y \in T : ~(<<y, x>> \in R)
  <2> HIDE DEF R, T
  <2> QED BY <1>1, WFMin
<1>3. x \in Nat /\ x # 0 /\ x \notin S
  OBVIOUS
<1>4. x - 1 \in Nat /\ x - 1 < x /\ (x - 1) + 1 = x
  BY <1>3
<1>5. x - 1 \in S
  BY <1>2, <1>3, <1>4 DEF OpToRel
<1> QED BY <1>3, <1>4, <1>5

(* A function that maps a set into itself can be iterated in it.           *)
Iterates(f, G, first, max) == f[0] = first /\ \A n \in 1..max : f[n] = G[f[n - 1]]

LEMMA IterationExists ==
  ASSUME NEW V, NEW G \in [V -> V], NEW first \in V, NEW max \in Nat
  PROVE  \E f \in [0..max -> V] : Iterates(f, G, first, max)
<1> DEFINE Good(f, m) == f[0] = first /\ \A n \in 1..m : f[n] = G[f[n - 1]]
           S == {m \in Nat : \E f \in [0..m -> V] : Good(f, m)}
<1>1. 0 \in S
  <2> DEFINE f == [n \in 0..0 |-> first]
  <2>1. f \in [0..0 -> V] /\ Good(f, 0)
    OBVIOUS
  <2> QED BY <2>1
<1>2. ASSUME NEW m \in Nat, m \in S PROVE m + 1 \in S
  <2>1. PICK f \in [0..m -> V] : Good(f, m)
    BY <1>2
  <2> DEFINE g == [n \in 0..m + 1 |-> IF n <= m THEN f[n] ELSE G[f[m]]]
  <2>2. g \in [0..m + 1 -> V]
    OBVIOUS
  <2>3. ASSUME NEW n \in 1..m + 1 PROVE g[n] = G[g[n - 1]]
    <3>1. n - 1 \in 0..m /\ n - 1 <= m /\ n \in 0..m + 1 /\ n - 1 \in 0..m + 1
      OBVIOUS
    <3>2. g[n - 1] = f[n - 1]
      BY <3>1
    <3>3. CASE n <= m
      <4>1. n \in 1..m /\ g[n] = f[n]
        BY <3>1, <3>3
      <4> QED BY <2>1, <3>2, <4>1
    <3>4. CASE ~(n <= m)
      <4>1. n = m + 1 /\ n - 1 = m
        BY <3>4
      <4>2. g[n] = G[f[m]]
        BY <3>1, <3>4
      <4> QED BY <3>2, <4>1, <4>2
    <3> QED BY <3>3, <3>4
  <2>4. g[0] = first
    BY <2>1
  <2> HIDE DEF g
  <2> QED BY <1>2, <2>2, <2>3, <2>4
<1>3. max \in S
  <2> HIDE DEF S
  <2> QED BY <1>1, <1>2, AllNaturals
<1> QED BY <1>3 DEF Iterates

-----------------------------------------------------------------------------
(* The walk from the head of a list finds its sequence                     *)

Walks(f, next) ==
  f = [n \in 0..Assoc |-> [p \in Slots \cup {Null} |->
         IF n = 0 \/ p = Null THEN <<>> ELSE <<p>> \o f[n - 1][next[p]]]]

LEMMA WalkExists ==
  ASSUME NEW next \in [Slots -> Link]
  PROVE  \E f : Walks(f, next)
<1> DEFINE V == [Link -> Seq(Slots)]
           first == [p \in Link |-> <<>>]
           Turn(w) == [p \in Link |-> IF p = Null THEN <<>> ELSE <<p>> \o w[next[p]]]
           G == [w \in V |-> Turn(w)]
<1>1. first \in V
  OBVIOUS
<1>2. ASSUME NEW w \in V PROVE Turn(w) \in V
  <2>1. ASSUME NEW p \in Link, p # Null PROVE <<p>> \o w[next[p]] \in Seq(Slots)
    <3>1. p \in Slots /\ next[p] \in Link
      BY <2>1 DEF Link
    <3>2. w[next[p]] \in Seq(Slots)
      BY <3>1
    <3> QED BY <3>1, <3>2
  <2> QED BY <2>1
<1>3. G \in [V -> V] /\ \A w \in V : G[w] = Turn(w)
  <2> HIDE DEF V, Turn
  <2> QED BY <1>2
<1> HIDE DEF G
<1>4. PICK g \in [0..Assoc -> V] : Iterates(g, G, first, Assoc)
  <2> HIDE DEF V, first
  <2> QED BY <1>1, <1>3, IterationExists, Constants
<1>5. ASSUME NEW n \in 0..Assoc
      PROVE  g[n] = [p \in Slots \cup {Null} |->
                       IF n = 0 \/ p = Null THEN <<>> ELSE <<p>> \o g[n - 1][next[p]]]
  <2>1. CASE n = 0
    BY <1>4, <2>1 DEF Iterates, Link
  <2>2. CASE n # 0
    <3>1. n \in 1..Assoc /\ n - 1 \in 0..Assoc
      BY <2>2, Constants
    <3>2. g[n - 1] \in V /\ g[n] = Turn(g[n - 1])
      BY <1>3, <1>4, <3>1 DEF Iterates
    <3> QED BY <2>2, <3>2 DEF Link
  <2> QED BY <2>1, <2>2
<1>6. Walks(g, next)
  BY <1>5 DEF Walks
<1> QED BY <1>6

LEMMA WalkFindsList ==
  ASSUME NEW seq, NEW next \in [Slots -> Link], NEW prev, Links(seq, next, prev)
  PROVE  Walk(First(seq), next) = seq
<1> DEFINE f == CHOOSE g : Walks(g, next)
           size == Len(seq)
           From(i) == IF i = size + 1 THEN Null ELSE seq[i]
<1>1. Walk(First(seq), next) = f[Assoc][First(seq)]
  BY DEF Walk, Walks
<1>2. Walks(f, next)
  BY WalkExists
<1> HIDE DEF f
<1>3. size \in Nat /\ size <= Assoc /\ seq \in Seq(Slots)
  BY FewSlots DEF Links, Different
<1>4. \A i \in 1..size : /\ seq[i] \in Slots /\ seq[i] # Null
                         /\ next[seq[i]] = From(i + 1) /\ i + 1 \in 1..size + 1
  BY <1>3, Constants DEF Links, After
<1>5. \A i \in 1..size + 1 : From(i) \in Slots \cup {Null}
  BY <1>3, <1>4
<1>6. \A n \in 0..Assoc, p \in Slots \cup {Null} :
        f[n][p] = IF n = 0 \/ p = Null THEN <<>> ELSE <<p>> \o f[n - 1][next[p]]
  <2> SUFFICES ASSUME NEW n \in 0..Assoc, NEW p \in Slots \cup {Null}
               PROVE  f[n][p] = IF n = 0 \/ p = Null THEN <<>> ELSE <<p>> \o f[n - 1][next[p]]
    OBVIOUS
  <2>1. f[n] = [x \in Slots \cup {Null} |->
                  IF n = 0 \/ x = Null THEN <<>> ELSE <<x>> \o f[n - 1][next[x]]]
    BY <1>2, Zenon DEF Walks
  <2> QED BY <2>1, Zenon
<1>7. SubSeq(seq, size + 1, size) = <<>>
  BY <1>3
<1>8. ASSUME NEW i \in 1..size
      PROVE SubSeq(seq, i, size) = <<seq[i]>> \o SubSeq(seq, i + 1, size)
  BY <1>3
<1> DEFINE S == {n \in Nat : n <= Assoc =>
                   \A i \in 1..size + 1 : size + 1 - i <= n => f[n][From(i)] = SubSeq(seq, i, size)}
<1>9. 0 \in S
  <2> SUFFICES ASSUME NEW i \in 1..size + 1, size + 1 - i <= 0
               PROVE  f[0][From(i)] = SubSeq(seq, i, size)
    OBVIOUS
  <2>1. i = size + 1
    BY <1>3
  <2>2. f[0][From(i)] = <<>>
    <3>1. 0 \in 0..Assoc /\ From(i) \in Slots \cup {Null}
      BY <1>5, Constants
    <3> HIDE DEF From
    <3> QED BY <1>6, <3>1
  <2> QED BY <1>7, <2>1, <2>2
<1>10. ASSUME NEW n \in Nat, n \in S PROVE n + 1 \in S
  <2> SUFFICES ASSUME n + 1 <= Assoc, NEW i \in 1..size + 1, size + 1 - i <= n + 1
               PROVE  f[n + 1][From(i)] = SubSeq(seq, i, size)
    OBVIOUS
  <2>1. n + 1 \in 0..Assoc /\ n + 1 # 0 /\ (n + 1) - 1 = n /\ n <= Assoc
    BY Constants
  <2>2. CASE i = size + 1
    <3>1. From(i) = Null
      BY <2>2
    <3>2. f[n + 1][From(i)] = <<>>
      BY <1>5, <1>6, <2>1, <3>1
    <3> QED BY <1>7, <2>2, <3>2
  <2>3. CASE i # size + 1
    <3>1. i \in 1..size /\ i + 1 \in 1..size + 1 /\ size + 1 - (i + 1) <= n
      BY <1>3, <2>3
    <3>2. From(i) = seq[i] /\ seq[i] \in Slots /\ seq[i] # Null /\ next[seq[i]] = From(i + 1)
      BY <1>4, <2>3, <3>1
    <3>3. f[n + 1][From(i)] = <<seq[i]>> \o f[n][From(i + 1)]
      <4> HIDE DEF From
      <4> QED BY <1>6, <2>1, <3>2
    <3>4. f[n][From(i + 1)] = SubSeq(seq, i + 1, size)
      BY <1>10, <2>1, <3>1
    <3> QED BY <1>8, <3>1, <3>3, <3>4
  <2> QED BY <2>2, <2>3
<1>11. Assoc \in S
  <2> HIDE DEF S
  <2> QED BY <1>9, <1>10, AllNaturals, Constants
<1>12. f[Assoc][From(1)] = SubSeq(seq, 1, size)
  <2>1. Assoc \in Nat /\ Assoc <= Assoc /\ 1 \in 1..size + 1 /\ size + 1 - 1 <= Assoc
    BY <1>3, Constants
  <2> HIDE DEF From
  <2> QED BY <1>11, <2>1
<1>13. SubSeq(seq, 1, size) = seq /\ First(seq) = From(1)
  BY <1>3 DEF First
<1> QED BY <1>1, <1>12, <1>13

-----------------------------------------------------------------------------
(* The two LRU lists as two sequences                                      *)

Kinds == {"hot", "warm"}

Lrus == [next : [Slots -> Link], prev : [Slots -> Link], state : [Slots -> Kinds],
         head : [Kinds -> Link], tail : [Kinds -> Link], blocks : [Kinds -> Int]]

(* What the links and counts say of list q.                                *)
OnList(l, q, seq) ==
  /\ Links(seq, l.next, l.prev)
  /\ l.head[q] = First(seq) /\ l.tail[q] = Latest(seq) /\ l.blocks[q] = Len(seq)

Two(l, q, seq, r, other) ==
  /\ l \in Lrus /\ q \in Kinds /\ r \in Kinds /\ q # r
  /\ OnList(l, q, seq) /\ OnList(l, r, other)
  /\ ToSet(seq) \cap ToSet(other) = {}

LEMMA TwoFields ==
  ASSUME NEW l, NEW q, NEW seq, NEW r, NEW other, Two(l, q, seq, r, other)
  PROVE  /\ seq \in Seq(Slots) /\ other \in Seq(Slots) /\ Different(seq) /\ Different(other)
         /\ Len(seq) \in Nat /\ Len(other) \in Nat
         /\ ToSet(seq) \subseteq Slots /\ ToSet(other) \subseteq Slots
         /\ ToSet(seq) \cap ToSet(other) = {}
         /\ Two(l, r, other, q, seq)
<1>1. seq \in Seq(Slots) /\ other \in Seq(Slots) /\ Different(seq) /\ Different(other)
  BY DEF Two, OnList, Links, Different
<1>2. ToSet(seq) \subseteq Slots /\ ToSet(other) \subseteq Slots
  BY <1>1 DEF ToSet
<1>3. Two(l, r, other, q, seq) /\ ToSet(seq) \cap ToSet(other) = {}
  BY DEF Two
<1> QED BY <1>1, <1>2, <1>3

LEMMA Removed ==
  ASSUME NEW l, NEW q, NEW seq, NEW r, NEW other, Two(l, q, seq, r, other),
         NEW i \in 1..Len(seq), l.state[seq[i]] = q
  PROVE  /\ Two(RemoveBlock(l, seq[i]), q, Out(seq, i), r, other)
         /\ RemoveBlock(l, seq[i]).state = l.state
<1> DEFINE s == seq[i]
           p == l.prev[s]
           n == l.next[s]
           m == RemoveBlock(l, s)
           size == Len(seq)
           u == Out(seq, i)
<1>1. /\ l \in Lrus /\ q \in Kinds /\ r \in Kinds /\ q # r
      /\ Links(seq, l.next, l.prev) /\ Links(other, l.next, l.prev)
      /\ l.head[q] = First(seq) /\ l.tail[q] = Latest(seq) /\ l.blocks[q] = size
      /\ l.head[r] = First(other) /\ l.tail[r] = Latest(other) /\ l.blocks[r] = Len(other)
  BY DEF Two, OnList
<1>2. /\ seq \in Seq(Slots) /\ Different(seq) /\ size \in Nat /\ i \in 1..size /\ size # 0
      /\ ToSet(seq) \subseteq Slots
  BY TwoFields
<1>3. /\ \A a \in 1..size : seq[a] \in Slots /\ seq[a] # Null /\ seq[a] \in ToSet(seq)
      /\ p = IF i = 1 THEN Null ELSE seq[i - 1]
      /\ n = IF i = size THEN Null ELSE seq[i + 1]
  BY <1>1, <1>2, Constants DEF Links, After, Before, ToSet
<1>4. /\ 1 \in 1..size
      /\ size \in 1..size
      /\ (i # 1 => i - 1 \in 1..size)
      /\ (i # size => i + 1 \in 1..size)
  BY <1>2
<1>5. First(seq) = seq[1] /\ Latest(seq) = seq[size] /\ l.head[q] # Null
  BY <1>1, <1>2, <1>3, <1>4 DEF First, Latest
<1>6. (p # Null => p \in ToSet(seq)) /\ (n # Null => n \in ToSet(seq))
  BY <1>3, <1>4
<1>7. m = [l EXCEPT !.next = IF p # Null THEN [@ EXCEPT ![p] = n] ELSE @,
                    !.prev = IF n # Null THEN [@ EXCEPT ![n] = p] ELSE @,
                    !.head[q] = IF p = Null THEN n ELSE @,
                    !.tail[q] = IF n = Null THEN p ELSE @,
                    !.blocks[q] = @ - 1]
  BY <1>5 DEF RemoveBlock
<1>8. p \in Link /\ n \in Link /\ s \in Slots
  BY <1>2, <1>3, <1>6 DEF Link
<1> HIDE DEF s, p, n, m, u, size
<1>9. /\ m \in Lrus /\ m.state = l.state
      /\ m.next = IF p # Null THEN [l.next EXCEPT ![p] = n] ELSE l.next
      /\ m.prev = IF n # Null THEN [l.prev EXCEPT ![n] = p] ELSE l.prev
      /\ m.head = [l.head EXCEPT ![q] = IF p = Null THEN n ELSE @]
      /\ m.tail = [l.tail EXCEPT ![q] = IF n = Null THEN p ELSE @]
      /\ m.blocks = [l.blocks EXCEPT ![q] = @ - 1]
  <2>1. p # Null => p \in Slots
    BY <1>8 DEF Link
  <2>2. n # Null => n \in Slots
    BY <1>8 DEF Link
  <2>3. /\ m.state = l.state
        /\ m.next = IF p # Null THEN [l.next EXCEPT ![p] = n] ELSE l.next
        /\ m.prev = IF n # Null THEN [l.prev EXCEPT ![n] = p] ELSE l.prev
        /\ m.head = [l.head EXCEPT ![q] = IF p = Null THEN n ELSE @]
        /\ m.tail = [l.tail EXCEPT ![q] = IF n = Null THEN p ELSE @]
        /\ m.blocks = [l.blocks EXCEPT ![q] = @ - 1]
        /\ m = [next |-> m.next, prev |-> m.prev, state |-> m.state, head |-> m.head,
                tail |-> m.tail, blocks |-> m.blocks]
    BY <1>1, <1>7 DEF Lrus
  <2>4. m.next \in [Slots -> Link] /\ m.prev \in [Slots -> Link]
    BY <1>1, <1>8, <2>1, <2>2, <2>3 DEF Lrus
  <2>5. m.head \in [Kinds -> Link] /\ m.tail \in [Kinds -> Link] /\ m.blocks \in [Kinds -> Int]
    BY <1>1, <1>8, <2>3 DEF Lrus
  <2> QED BY <1>1, <2>3, <2>4, <2>5 DEF Lrus
<1>10. Links(u, m.next, m.prev)
  <2>1. l.next \in [Slots -> Link] /\ l.prev \in [Slots -> Link]
    BY <1>1 DEF Lrus
  <2>2. m.next = IF l.prev[seq[i]] # Null
                 THEN [l.next EXCEPT ![l.prev[seq[i]]] = l.next[seq[i]]] ELSE l.next
    BY <1>9 DEF s, p, n
  <2>3. m.prev = IF l.next[seq[i]] # Null
                 THEN [l.prev EXCEPT ![l.next[seq[i]]] = l.prev[seq[i]]] ELSE l.prev
    BY <1>9 DEF s, p, n
  <2>4. Links(Out(seq, i), m.next, m.prev)
    BY <1>1, <2>1, <2>2, <2>3, OutOfLinks
  <2> QED BY <2>4 DEF u
<1>11. Links(other, m.next, m.prev)
  <2>1. \A t \in ToSet(other) : t \notin ToSet(seq) /\ t \in Slots
    BY TwoFields DEF Two
  <2>2. \A t \in ToSet(other) : m.next[t] = l.next[t] /\ m.prev[t] = l.prev[t]
    BY <1>1, <1>6, <1>9, <2>1 DEF Lrus
  <2> QED BY <1>1, <2>2, LinksFrame
<1>12. /\ Len(u) = size - 1 /\ u \in Seq(Slots)
       /\ \A j \in 1..size - 1 : u[j] = IF j < i THEN seq[j] ELSE seq[j + 1]
  BY <1>2, OutIsShorter DEF u, size
<1>13. m.head[q] = First(u)
  <2>1. m.head[q] = IF p = Null THEN n ELSE l.head[q]
    BY <1>1, <1>9 DEF Lrus
  <2>2. CASE size = 1
    BY <1>2, <1>3, <1>12, <2>1, <2>2 DEF First
  <2>3. CASE size # 1
    <3>1. 1 \in 1..size - 1 /\ First(u) = u[1]
      BY <1>2, <1>12, <2>3 DEF First
    <3>2. CASE i = 1
      BY <1>2, <1>3, <1>12, <2>1, <2>3, <3>1, <3>2
    <3>3. CASE i # 1
      <4>1. u[1] = seq[1] /\ p # Null
        BY <1>2, <1>3, <1>4, <1>12, <3>1, <3>3
      <4> QED BY <1>1, <1>5, <2>1, <3>1, <4>1
    <3> QED BY <3>2, <3>3
  <2> QED BY <2>2, <2>3
<1>14. m.tail[q] = Latest(u)
  <2>1. m.tail[q] = IF n = Null THEN p ELSE l.tail[q]
    BY <1>1, <1>9 DEF Lrus
  <2>2. CASE size = 1
    BY <1>2, <1>3, <1>12, <2>1, <2>2 DEF Latest
  <2>3. CASE size # 1
    <3>1. size - 1 \in 1..size - 1 /\ Latest(u) = u[size - 1]
      BY <1>2, <1>12, <2>3 DEF Latest
    <3>2. CASE i = size
      <4>1. u[size - 1] = seq[size - 1] /\ i # 1
        BY <1>2, <1>12, <2>3, <3>1, <3>2
      <4> QED BY <1>3, <2>1, <3>1, <3>2, <4>1
    <3>3. CASE i # size
      <4>1. u[size - 1] = seq[size] /\ n # Null
        <5>1. ~(size - 1 < i) /\ (size - 1) + 1 = size
          BY <1>2, <3>3
        <5>2. u[size - 1] = seq[(size - 1) + 1]
          BY <1>12, <3>1, <5>1
        <5> QED BY <1>3, <1>4, <3>3, <5>1, <5>2
      <4> QED BY <1>1, <1>5, <2>1, <3>1, <4>1
    <3> QED BY <3>2, <3>3
  <2> QED BY <2>2, <2>3
<1>15. m.blocks[q] = Len(u)
  BY <1>1, <1>9, <1>12 DEF Lrus
<1>16. m.head[r] = First(other) /\ m.tail[r] = Latest(other) /\ m.blocks[r] = Len(other)
  BY <1>1, <1>9 DEF Lrus
<1>17. ToSet(u) \cap ToSet(other) = {}
  BY <1>2, OutSet DEF Two, u, size
<1> QED BY <1>1, <1>9, <1>10, <1>11, <1>13, <1>14, <1>15, <1>16, <1>17 DEF Two, OnList, m, s, u

LEMMA AddedAtMru ==
  ASSUME NEW l, NEW q, NEW seq, NEW r, NEW other, Two(l, q, seq, r, other),
         NEW s \in Slots, s \notin ToSet(seq), s \notin ToSet(other), l.state[s] = q
  PROVE  /\ Two(AddMru(l, s), q, Append(seq, s), r, other)
         /\ AddMru(l, s).state = l.state
<1> DEFINE t == l.tail[q]
           m == AddMru(l, s)
           size == Len(seq)
           u == Append(seq, s)
<1>1. /\ l \in Lrus /\ q \in Kinds /\ r \in Kinds /\ q # r
      /\ Links(seq, l.next, l.prev) /\ Links(other, l.next, l.prev)
      /\ l.head[q] = First(seq) /\ t = Latest(seq) /\ l.blocks[q] = size
      /\ l.head[r] = First(other) /\ l.tail[r] = Latest(other) /\ l.blocks[r] = Len(other)
  BY DEF Two, OnList
<1>2. seq \in Seq(Slots) /\ size \in Nat /\ ToSet(seq) \subseteq Slots /\ ToSet(other) \subseteq Slots
  BY TwoFields
<1>3. t # Null => t \in ToSet(seq) /\ size # 0
  <2>1. size # 0 => size \in 1..size
    BY <1>2
  <2> QED BY <1>1, <1>2, <2>1 DEF Latest, ToSet
<1>4. size # 0 => t # Null
  <2>1. size # 0 => size \in 1..size /\ seq[size] \in Slots
    BY <1>2
  <2> QED BY <1>1, <1>2, <2>1, Constants DEF Latest
<1>5. /\ u \in Seq(Slots) /\ Len(u) = size + 1 /\ u[size + 1] = s /\ \A j \in 1..size : u[j] = seq[j]
  BY <1>2
<1>6. m = [l EXCEPT !.next = IF t = Null THEN [@ EXCEPT ![s] = Null]
                              ELSE [[@ EXCEPT ![s] = Null] EXCEPT ![t] = s],
                    !.prev[s] = t,
                    !.head[q] = IF t = Null THEN s ELSE @,
                    !.tail[q] = s,
                    !.blocks[q] = @ + 1]
  BY DEF AddMru
<1> HIDE DEF t, m, u, size
<1>7. s \in Link /\ (t # Null => t \in Slots) /\ t \in Link /\ Null \in Link
  BY <1>2, <1>3 DEF Link
<1>8. /\ m \in Lrus /\ m.state = l.state
      /\ m.next = IF t = Null THEN [l.next EXCEPT ![s] = Null]
                              ELSE [[l.next EXCEPT ![s] = Null] EXCEPT ![t] = s]
      /\ m.prev = [l.prev EXCEPT ![s] = t]
      /\ m.head = [l.head EXCEPT ![q] = IF t = Null THEN s ELSE @]
      /\ m.tail = [l.tail EXCEPT ![q] = s]
      /\ m.blocks = [l.blocks EXCEPT ![q] = @ + 1]
  <2>1. /\ m.state = l.state
        /\ m.next = IF t = Null THEN [l.next EXCEPT ![s] = Null]
                                ELSE [[l.next EXCEPT ![s] = Null] EXCEPT ![t] = s]
        /\ m.prev = [l.prev EXCEPT ![s] = t]
        /\ m.head = [l.head EXCEPT ![q] = IF t = Null THEN s ELSE @]
        /\ m.tail = [l.tail EXCEPT ![q] = s]
        /\ m.blocks = [l.blocks EXCEPT ![q] = @ + 1]
    BY <1>1, <1>6 DEF Lrus
  <2>0. m = [next |-> m.next, prev |-> m.prev, state |-> m.state, head |-> m.head,
             tail |-> m.tail, blocks |-> m.blocks]
    BY <1>1, <1>6 DEF Lrus
  <2>2. m.next \in [Slots -> Link] /\ m.prev \in [Slots -> Link]
    <3>1. l.next \in [Slots -> Link] /\ l.prev \in [Slots -> Link]
      BY <1>1 DEF Lrus
    <3> QED BY <1>7, <2>1, <3>1
  <2>3. m.head \in [Kinds -> Link] /\ m.tail \in [Kinds -> Link]
    <3>1. l.head \in [Kinds -> Link] /\ l.tail \in [Kinds -> Link]
      BY <1>1 DEF Lrus
    <3>2. l.head[q] \in Link /\ l.tail[q] \in Link
      BY <1>1, <3>1
    <3>3. s \in Link /\ (IF t = Null THEN s ELSE l.head[q]) \in Link
      BY <1>7, <3>2
    <3> DEFINE v == IF t = Null THEN s ELSE l.head[q]
               head == l.head
               tail == l.tail
    <3>4. m.head = [head EXCEPT ![q] = v] /\ m.tail = [tail EXCEPT ![q] = s]
      BY <2>1
    <3>5. head \in [Kinds -> Link] /\ tail \in [Kinds -> Link] /\ v \in Link /\ s \in Link
      BY <3>1, <3>3
    <3> HIDE DEF v, head, tail
    <3> QED BY <3>4, <3>5
  <2>4. m.blocks \in [Kinds -> Int]
    <3>1. l.blocks \in [Kinds -> Int]
      BY <1>1 DEF Lrus
    <3>2. l.blocks[q] + 1 \in Int
      BY <1>1, <3>1
    <3> QED BY <2>1, <3>1, <3>2
  <2> QED BY <1>1, <2>0, <2>1, <2>2, <2>3, <2>4 DEF Lrus
<1>9. Links(u, m.next, m.prev)
  <2>1. m.next[s] = Null /\ m.prev[s] = Latest(seq)
    BY <1>1, <1>3, <1>7, <1>8 DEF Lrus
  <2>2. \A x \in ToSet(seq) :
          m.prev[x] = l.prev[x] /\ m.next[x] = IF x = Latest(seq) THEN s ELSE l.next[x]
    <3> SUFFICES ASSUME NEW x \in ToSet(seq)
                 PROVE  m.prev[x] = l.prev[x] /\ m.next[x] = IF x = t THEN s ELSE l.next[x]
      BY <1>1
    <3>1. x \in Slots /\ x # s /\ x # Null
      BY <1>2, Constants
    <3> QED BY <1>1, <1>7, <1>8, <3>1 DEF Lrus
  <2> QED BY <1>1, <2>1, <2>2, EndOfLinks DEF u
<1>10. Links(other, m.next, m.prev)
  <2>1. \A x \in ToSet(other) : x \notin ToSet(seq) /\ x \in Slots /\ x # s
    BY <1>2 DEF Two
  <2>2. \A x \in ToSet(other) : m.next[x] = l.next[x] /\ m.prev[x] = l.prev[x]
    BY <1>1, <1>3, <1>7, <1>8, <2>1 DEF Lrus
  <2> QED BY <1>1, <2>2, LinksFrame
<1>11. m.head[q] = First(u)
  <2>1. m.head[q] = IF t = Null THEN s ELSE l.head[q]
    BY <1>1, <1>8 DEF Lrus
  <2>2. First(u) = u[1]
    BY <1>2, <1>5 DEF First
  <2>3. CASE size = 0
    BY <1>3, <1>5, <2>1, <2>2, <2>3
  <2>4. CASE size # 0
    <3>1. 1 \in 1..size /\ First(seq) = seq[1]
      BY <1>2, <2>4 DEF First, size
    <3> QED BY <1>1, <1>4, <1>5, <2>1, <2>2, <2>4, <3>1
  <2> QED BY <2>3, <2>4
<1>12. m.tail[q] = Latest(u) /\ m.blocks[q] = Len(u)
  BY <1>1, <1>2, <1>5, <1>8 DEF Lrus, Latest
<1>13. m.head[r] = First(other) /\ m.tail[r] = Latest(other) /\ m.blocks[r] = Len(other)
  BY <1>1, <1>8 DEF Lrus
<1>14. ToSet(u) \cap ToSet(other) = {}
  BY <1>2, EndSet DEF Two, u
<1> QED BY <1>1, <1>8, <1>9, <1>10, <1>11, <1>12, <1>13, <1>14 DEF Two, OnList, m, u

LEMMA AddedAtLru ==
  ASSUME NEW l, NEW q, NEW seq, NEW r, NEW other, Two(l, q, seq, r, other),
         NEW s \in Slots, s \notin ToSet(seq), s \notin ToSet(other), l.state[s] = q
  PROVE  /\ Two(AddLru(l, s), q, <<s>> \o seq, r, other)
         /\ AddLru(l, s).state = l.state
<1> DEFINE h == l.head[q]
           m == AddLru(l, s)
           size == Len(seq)
           u == <<s>> \o seq
<1>1. /\ l \in Lrus /\ q \in Kinds /\ r \in Kinds /\ q # r
      /\ Links(seq, l.next, l.prev) /\ Links(other, l.next, l.prev)
      /\ h = First(seq) /\ l.tail[q] = Latest(seq) /\ l.blocks[q] = size
      /\ l.head[r] = First(other) /\ l.tail[r] = Latest(other) /\ l.blocks[r] = Len(other)
  BY DEF Two, OnList
<1>2. seq \in Seq(Slots) /\ size \in Nat /\ ToSet(seq) \subseteq Slots /\ ToSet(other) \subseteq Slots
  BY TwoFields
<1>3. h # Null => h \in ToSet(seq) /\ size # 0
  <2>1. size # 0 => 1 \in 1..size
    BY <1>2
  <2> QED BY <1>1, <1>2, <2>1 DEF First, ToSet
<1>4. size # 0 => h # Null
  <2>1. size # 0 => 1 \in 1..size /\ seq[1] \in Slots
    BY <1>2
  <2> QED BY <1>1, <1>2, <2>1, Constants DEF First
<1>5. /\ u \in Seq(Slots) /\ Len(u) = size + 1 /\ u[1] = s /\ \A j \in 1..size : u[j + 1] = seq[j]
  BY <1>2, InAtFront
<1>6. m = [l EXCEPT !.prev = IF h = Null THEN [@ EXCEPT ![s] = Null]
                              ELSE [[@ EXCEPT ![s] = Null] EXCEPT ![h] = s],
                    !.next[s] = h,
                    !.tail[q] = IF h = Null THEN s ELSE @,
                    !.head[q] = s,
                    !.blocks[q] = @ + 1]
  BY DEF AddLru
<1> HIDE DEF h, m, u, size
<1>7. s \in Link /\ (h # Null => h \in Slots) /\ h \in Link /\ Null \in Link
  BY <1>2, <1>3 DEF Link
<1>8. /\ m \in Lrus /\ m.state = l.state
      /\ m.prev = IF h = Null THEN [l.prev EXCEPT ![s] = Null]
                              ELSE [[l.prev EXCEPT ![s] = Null] EXCEPT ![h] = s]
      /\ m.next = [l.next EXCEPT ![s] = h]
      /\ m.tail = [l.tail EXCEPT ![q] = IF h = Null THEN s ELSE @]
      /\ m.head = [l.head EXCEPT ![q] = s]
      /\ m.blocks = [l.blocks EXCEPT ![q] = @ + 1]
  <2>1. /\ m.state = l.state
        /\ m.prev = IF h = Null THEN [l.prev EXCEPT ![s] = Null]
                                ELSE [[l.prev EXCEPT ![s] = Null] EXCEPT ![h] = s]
        /\ m.next = [l.next EXCEPT ![s] = h]
        /\ m.tail = [l.tail EXCEPT ![q] = IF h = Null THEN s ELSE @]
        /\ m.head = [l.head EXCEPT ![q] = s]
        /\ m.blocks = [l.blocks EXCEPT ![q] = @ + 1]
    BY <1>1, <1>6 DEF Lrus
  <2>0. m = [next |-> m.next, prev |-> m.prev, state |-> m.state, head |-> m.head,
             tail |-> m.tail, blocks |-> m.blocks]
    BY <1>1, <1>6 DEF Lrus
  <2>2. m.next \in [Slots -> Link] /\ m.prev \in [Slots -> Link]
    <3>1. l.next \in [Slots -> Link] /\ l.prev \in [Slots -> Link]
      BY <1>1 DEF Lrus
    <3> QED BY <1>7, <2>1, <3>1
  <2>3. m.head \in [Kinds -> Link] /\ m.tail \in [Kinds -> Link]
    <3>1. l.head \in [Kinds -> Link] /\ l.tail \in [Kinds -> Link]
      BY <1>1 DEF Lrus
    <3>2. l.head[q] \in Link /\ l.tail[q] \in Link
      BY <1>1, <3>1
    <3>3. s \in Link /\ (IF h = Null THEN s ELSE l.tail[q]) \in Link
      BY <1>7, <3>2
    <3> DEFINE v == IF h = Null THEN s ELSE l.tail[q]
               head == l.head
               tail == l.tail
    <3>4. m.head = [head EXCEPT ![q] = s] /\ m.tail = [tail EXCEPT ![q] = v]
      BY <2>1
    <3>5. head \in [Kinds -> Link] /\ tail \in [Kinds -> Link] /\ v \in Link /\ s \in Link
      BY <3>1, <3>3
    <3> HIDE DEF v, head, tail
    <3> QED BY <3>4, <3>5
  <2>4. m.blocks \in [Kinds -> Int]
    <3>1. l.blocks \in [Kinds -> Int]
      BY <1>1 DEF Lrus
    <3>2. l.blocks[q] + 1 \in Int
      BY <1>1, <3>1
    <3> QED BY <2>1, <3>1, <3>2
  <2> QED BY <1>1, <2>0, <2>1, <2>2, <2>3, <2>4 DEF Lrus
<1>9. Links(u, m.next, m.prev)
  <2>1. m.prev[s] = Null /\ m.next[s] = First(seq)
    BY <1>1, <1>3, <1>7, <1>8 DEF Lrus
  <2>2. \A x \in ToSet(seq) :
          m.next[x] = l.next[x] /\ m.prev[x] = IF x = First(seq) THEN s ELSE l.prev[x]
    <3> SUFFICES ASSUME NEW x \in ToSet(seq)
                 PROVE  m.next[x] = l.next[x] /\ m.prev[x] = IF x = h THEN s ELSE l.prev[x]
      BY <1>1
    <3>1. x \in Slots /\ x # s /\ x # Null
      BY <1>2, Constants
    <3> QED BY <1>1, <1>7, <1>8, <3>1 DEF Lrus
  <2> QED BY <1>1, <2>1, <2>2, FrontOfLinks DEF u
<1>10. Links(other, m.next, m.prev)
  <2>1. \A x \in ToSet(other) : x \notin ToSet(seq) /\ x \in Slots /\ x # s
    BY <1>2 DEF Two
  <2>2. \A x \in ToSet(other) : m.next[x] = l.next[x] /\ m.prev[x] = l.prev[x]
    BY <1>1, <1>3, <1>7, <1>8, <2>1 DEF Lrus
  <2> QED BY <1>1, <2>2, LinksFrame
<1>11. m.tail[q] = Latest(u)
  <2>1. m.tail[q] = IF h = Null THEN s ELSE l.tail[q]
    BY <1>1, <1>8 DEF Lrus
  <2>2. Latest(u) = u[size + 1]
    BY <1>2, <1>5 DEF Latest
  <2>3. CASE size = 0
    BY <1>3, <1>5, <2>1, <2>2, <2>3
  <2>4. CASE size # 0
    <3>1. size \in 1..size /\ Latest(seq) = seq[size]
      BY <1>2, <2>4 DEF Latest, size
    <3> QED BY <1>1, <1>4, <1>5, <2>1, <2>2, <2>4, <3>1
  <2> QED BY <2>3, <2>4
<1>12. m.head[q] = First(u) /\ m.blocks[q] = Len(u)
  BY <1>1, <1>2, <1>5, <1>8 DEF Lrus, First
<1>13. m.head[r] = First(other) /\ m.tail[r] = Latest(other) /\ m.blocks[r] = Len(other)
  BY <1>1, <1>8 DEF Lrus
<1>14. ToSet(u) \cap ToSet(other) = {}
  BY <1>2, FrontSet DEF Two, u
<1> QED BY <1>1, <1>8, <1>9, <1>10, <1>11, <1>12, <1>13, <1>14 DEF Two, OnList, m, u

-----------------------------------------------------------------------------
(* What the moves of a block do to the two sequences                       *)

(* Every block is on the list that its state names.                        *)
Placed(l, q, seq) == \A s \in Slots : s \in ToSet(seq) <=> l.state[s] = q

Full(l, q, seq, r, other) ==
  Two(l, q, seq, r, other) /\ Placed(l, q, seq) /\ Placed(l, r, other)

LEMMA InListKeepsLinks ==
  ASSUME NEW l, NEW q, NEW seq, NEW r, NEW other, Two(l, q, seq, r, other),
         NEW s \in Slots, NEW k \in Kinds
  PROVE  /\ Two(InList(l, s, k), q, seq, r, other)
         /\ InList(l, s, k).state = [l.state EXCEPT ![s] = k]
<1>1. l \in Lrus
  BY DEF Two
<1>2. /\ InList(l, s, k) \in Lrus
      /\ InList(l, s, k).next = l.next /\ InList(l, s, k).prev = l.prev
      /\ InList(l, s, k).head = l.head /\ InList(l, s, k).tail = l.tail
      /\ InList(l, s, k).blocks = l.blocks
      /\ InList(l, s, k).state = [l.state EXCEPT ![s] = k]
  BY <1>1 DEF InList, Lrus
<1> QED BY <1>2 DEF Two, OnList

LEMMA FullFields ==
  ASSUME NEW l, NEW q, NEW seq, NEW r, NEW other, Full(l, q, seq, r, other)
  PROVE  /\ Two(l, q, seq, r, other) /\ Full(l, r, other, q, seq)
         /\ l \in Lrus /\ {q, r} = Kinds /\ q \in Kinds /\ r \in Kinds /\ q # r
         /\ l.state \in [Slots -> Kinds] /\ Placed(l, q, seq) /\ Placed(l, r, other)
         /\ \A i \in 1..Len(seq) :
              seq[i] \in Slots /\ l.state[seq[i]] = q /\ seq[i] \in ToSet(seq)
         /\ \A s \in Slots : l.state[s] = q => \E i \in 1..Len(seq) : seq[i] = s
         /\ l.head[q] = First(seq) /\ l.tail[q] = Latest(seq) /\ l.blocks[q] = Len(seq)
<1>1. Two(l, q, seq, r, other) /\ Two(l, r, other, q, seq) /\ seq \in Seq(Slots)
  BY TwoFields DEF Full
<1>2. l \in Lrus /\ q # r /\ q \in Kinds /\ r \in Kinds
  BY <1>1 DEF Two
<1>3. {q, r} = Kinds
  BY <1>2 DEF Kinds
<1>4. l.state \in [Slots -> Kinds]
  BY <1>2 DEF Lrus
<1>5. ToSet(seq) = {seq[i] : i \in 1..Len(seq)} /\ \A i \in 1..Len(seq) : seq[i] \in Slots
  BY <1>1 DEF ToSet
<1>6. l.head[q] = First(seq) /\ l.tail[q] = Latest(seq) /\ l.blocks[q] = Len(seq)
  BY <1>1 DEF Two, OnList
<1> QED BY <1>1, <1>2, <1>3, <1>4, <1>5, <1>6 DEF Full, Placed

LEMMA Moved ==
  ASSUME NEW l, NEW q, NEW seq, NEW r, NEW other, Full(l, q, seq, r, other),
         NEW i \in 1..Len(seq)
  PROVE  Full(MoveToMru(l, seq[i]), q, Append(Out(seq, i), seq[i]), r, other)
<1> DEFINE s == seq[i]
           m == RemoveBlock(l, s)
           u == Out(seq, i)
<1>1. /\ Two(l, q, seq, r, other) /\ s \in Slots /\ l.state[s] = q
      /\ ToSet(seq) \cap ToSet(other) = {} /\ s \in ToSet(seq)
      /\ seq \in Seq(Slots) /\ Different(seq)
  BY FullFields, TwoFields
<1>2. Two(m, q, u, r, other) /\ m.state = l.state
  BY <1>1, Removed
<1>3. ToSet(u) = ToSet(seq) \ {s} /\ u \in Seq(Slots)
  BY <1>1, OutSet, OutIsShorter
<1>4. s \notin ToSet(u) /\ s \notin ToSet(other)
  BY <1>1, <1>3
<1> HIDE DEF s, m, u
<1>5. Two(AddMru(m, s), q, Append(u, s), r, other) /\ AddMru(m, s).state = l.state
  BY <1>1, <1>2, <1>4, AddedAtMru
<1>6. ToSet(Append(u, s)) = ToSet(seq)
  <2>1. ToSet(Append(u, s)) = ToSet(u) \cup {s}
    BY <1>1, <1>3, EndSet
  <2> QED BY <1>1, <1>3, <2>1
<1>7. Full(AddMru(m, s), q, Append(u, s), r, other)
  BY <1>5, <1>6 DEF Full, Placed
<1> QED BY <1>7 DEF MoveToMru, m, s, u

(* Block i of one list changes places with block j of the other: to the    *)
(* front of the one, and the end of the other.                             *)
LEMMA Swapped ==
  ASSUME NEW l, NEW q, NEW seq, NEW r, NEW other, Full(l, q, seq, r, other),
         NEW i \in 1..Len(seq), NEW j \in 1..Len(other),
         NEW out, \/ out = RemoveBlock(RemoveBlock(l, seq[i]), other[j])
                  \/ out = RemoveBlock(RemoveBlock(l, other[j]), seq[i])
  PROVE  /\ Two(out, q, Out(seq, i), r, Out(other, j)) /\ out.state = l.state
         /\ seq[i] \in Slots /\ other[j] \in Slots /\ seq[i] # other[j]
         /\ l.state[seq[i]] = q /\ l.state[other[j]] = r
         /\ ToSet(Out(seq, i)) = ToSet(seq) \ {seq[i]}
         /\ ToSet(Out(other, j)) = ToSet(other) \ {other[j]}
         /\ seq[i] \notin ToSet(other) /\ other[j] \notin ToSet(seq)
<1>1. /\ Two(l, q, seq, r, other) /\ Two(l, r, other, q, seq) /\ Full(l, r, other, q, seq)
      /\ l.state[seq[i]] = q /\ seq[i] \in Slots
      /\ ToSet(seq) \cap ToSet(other) = {} /\ seq[i] \in ToSet(seq) /\ other[j] \in ToSet(other)
      /\ seq \in Seq(Slots) /\ Different(seq) /\ other \in Seq(Slots) /\ Different(other)
  BY FullFields, TwoFields
<1>2. l.state[other[j]] = r /\ other[j] \in Slots
  BY <1>1, FullFields
<1>3. ToSet(Out(seq, i)) = ToSet(seq) \ {seq[i]} /\ ToSet(Out(other, j)) = ToSet(other) \ {other[j]}
  BY <1>1, OutSet
<1>4. Two(out, q, Out(seq, i), r, Out(other, j)) /\ out.state = l.state
  <2>1. CASE out = RemoveBlock(RemoveBlock(l, seq[i]), other[j])
    <3> DEFINE m == RemoveBlock(l, seq[i])
    <3>1. Two(m, q, Out(seq, i), r, other) /\ m.state = l.state
      BY <1>1, Removed
    <3> HIDE DEF m
    <3>2. Two(m, r, other, q, Out(seq, i))
      BY <3>1, TwoFields
    <3>3. /\ Two(RemoveBlock(m, other[j]), r, Out(other, j), q, Out(seq, i))
          /\ RemoveBlock(m, other[j]).state = l.state
      BY <1>2, <3>1, <3>2, Removed
    <3>4. Two(RemoveBlock(m, other[j]), q, Out(seq, i), r, Out(other, j))
      BY <3>3, TwoFields
    <3> QED BY <2>1, <3>3, <3>4 DEF m
  <2>2. CASE out = RemoveBlock(RemoveBlock(l, other[j]), seq[i])
    <3> DEFINE m == RemoveBlock(l, other[j])
    <3>1. Two(m, r, Out(other, j), q, seq) /\ m.state = l.state
      BY <1>1, <1>2, Removed
    <3> HIDE DEF m
    <3>2. Two(m, q, seq, r, Out(other, j))
      BY <3>1, TwoFields
    <3>3. /\ Two(RemoveBlock(m, seq[i]), q, Out(seq, i), r, Out(other, j))
          /\ RemoveBlock(m, seq[i]).state = l.state
      BY <1>1, <3>1, <3>2, Removed
    <3> QED BY <2>2, <3>3 DEF m
  <2> QED BY <2>1, <2>2
<1> QED BY <1>1, <1>2, <1>3, <1>4

LEMMA Promoted ==
  ASSUME NEW l, NEW hot, NEW warm, Full(l, "hot", hot, "warm", warm),
         NEW i \in 1..Len(warm), Len(hot) # 0
  PROVE  Full(PromoteBlock(l, warm[i]), "hot", <<warm[i]>> \o Out(hot, 1),
              "warm", Append(Out(warm, i), hot[1]))
<1> DEFINE s == warm[i]
           h == hot[1]
           out == RemoveBlock(RemoveBlock(l, s), h)
           a == Out(hot, 1)
           b == Out(warm, i)
<1>1. 1 \in 1..Len(hot)
  BY FullFields, TwoFields
<1>2. l.head["hot"] = h
  BY <1>1, FullFields DEF First
<1>3. /\ Two(out, "hot", a, "warm", b) /\ out.state = l.state
      /\ h \in Slots /\ s \in Slots /\ h # s
      /\ l.state[h] = "hot" /\ l.state[s] = "warm"
      /\ ToSet(a) = ToSet(hot) \ {h} /\ ToSet(b) = ToSet(warm) \ {s}
      /\ h \notin ToSet(warm) /\ s \notin ToSet(hot)
  BY <1>1, Swapped
<1>4. PromoteBlock(l, s) = AddMru(InList(AddLru(InList(out, s, "hot"), s), h, "warm"), h)
  BY <1>2 DEF PromoteBlock
<1>5. l.state \in [Slots -> Kinds] /\ Placed(l, "hot", hot) /\ Placed(l, "warm", warm)
  BY FullFields DEF Full
<1> HIDE DEF s, h, out, a, b
<1>6. "hot" \in Kinds /\ "warm" \in Kinds
  BY DEF Kinds
<1> DEFINE m1 == InList(out, s, "hot")
           m2 == AddLru(m1, s)
           m3 == InList(m2, h, "warm")
           m4 == AddMru(m3, h)
           u == <<s>> \o a
<1>7. Two(m1, "hot", a, "warm", b) /\ m1.state = [l.state EXCEPT ![s] = "hot"]
  BY <1>3, <1>6, InListKeepsLinks
<1>8. m1.state[s] = "hot" /\ s \notin ToSet(a) /\ s \notin ToSet(b)
  BY <1>3, <1>5, <1>7
<1> HIDE DEF m1
<1>9. Two(m2, "hot", u, "warm", b) /\ m2.state = m1.state
  BY <1>3, <1>7, <1>8, AddedAtLru
<1>10. a \in Seq(Slots) /\ b \in Seq(Slots)
  BY <1>7, TwoFields
<1>11. ToSet(u) = ToSet(a) \cup {s}
  BY <1>3, <1>10, FrontSet
<1> HIDE DEF m2, u
<1>12. Two(m3, "hot", u, "warm", b) /\ m3.state = [m2.state EXCEPT ![h] = "warm"]
  BY <1>3, <1>6, <1>9, InListKeepsLinks
<1>13. /\ m3.state = [[l.state EXCEPT ![s] = "hot"] EXCEPT ![h] = "warm"]
       /\ m3.state[h] = "warm" /\ h \notin ToSet(u) /\ h \notin ToSet(b)
  BY <1>3, <1>5, <1>7, <1>9, <1>11, <1>12
<1>14. Two(m3, "warm", b, "hot", u)
  BY <1>12, TwoFields
<1> HIDE DEF m3
<1>15. Two(m4, "warm", Append(b, h), "hot", u) /\ m4.state = m3.state
  BY <1>3, <1>13, <1>14, AddedAtMru
<1>16. ToSet(Append(b, h)) = ToSet(b) \cup {h}
  BY <1>3, <1>10, EndSet
<1> HIDE DEF m4
<1>17. Two(m4, "hot", u, "warm", Append(b, h))
  BY <1>15, TwoFields
<1>18. Placed(m4, "hot", u) /\ Placed(m4, "warm", Append(b, h))
  BY <1>3, <1>5, <1>11, <1>13, <1>15, <1>16 DEF Placed
<1>19. Full(m4, "hot", u, "warm", Append(b, h))
  BY <1>17, <1>18 DEF Full
<1> QED BY <1>4, <1>19 DEF m1, m2, m3, m4, u, s, h, a, b

LEMMA Demoted ==
  ASSUME NEW l, NEW hot, NEW warm, Full(l, "hot", hot, "warm", warm),
         NEW i \in 1..Len(hot), Len(warm) # 0
  PROVE  Full(DemoteBlock(l, hot[i]),
              "hot", <<warm[Len(warm)]>> \o Out(hot, i),
              "warm", Append(Out(warm, Len(warm)), hot[i]))
<1> DEFINE s == hot[i]
           w == warm[Len(warm)]
           out == RemoveBlock(RemoveBlock(l, s), w)
           a == Out(hot, i)
           b == Out(warm, Len(warm))
<1>1. Len(warm) \in 1..Len(warm)
  BY FullFields, TwoFields
<1>2. l.tail["warm"] = w
  BY <1>1, FullFields DEF Latest
<1>3. /\ Two(out, "hot", a, "warm", b) /\ out.state = l.state
      /\ w \in Slots /\ s \in Slots /\ w # s
      /\ l.state[s] = "hot" /\ l.state[w] = "warm"
      /\ ToSet(a) = ToSet(hot) \ {s} /\ ToSet(b) = ToSet(warm) \ {w}
      /\ s \notin ToSet(warm) /\ w \notin ToSet(hot)
  BY <1>1, Swapped
<1>4. DemoteBlock(l, s) = AddLru(InList(AddMru(InList(out, s, "warm"), s), w, "hot"), w)
  BY <1>2 DEF DemoteBlock
<1>5. l.state \in [Slots -> Kinds] /\ Placed(l, "hot", hot) /\ Placed(l, "warm", warm)
  BY FullFields DEF Full
<1> HIDE DEF s, w, out, a, b
<1>6. "hot" \in Kinds /\ "warm" \in Kinds
  BY DEF Kinds
<1> DEFINE m1 == InList(out, s, "warm")
           m2 == AddMru(m1, s)
           m3 == InList(m2, w, "hot")
           m4 == AddLru(m3, w)
           u == Append(b, s)
           v == <<w>> \o a
<1>7. Two(m1, "hot", a, "warm", b) /\ m1.state = [l.state EXCEPT ![s] = "warm"]
  BY <1>3, <1>6, InListKeepsLinks
<1>8. m1.state[s] = "warm" /\ s \notin ToSet(a) /\ s \notin ToSet(b) /\ Two(m1, "warm", b, "hot", a)
  BY <1>3, <1>5, <1>7, TwoFields
<1> HIDE DEF m1
<1>9. Two(m2, "warm", u, "hot", a) /\ m2.state = m1.state
  BY <1>3, <1>8, AddedAtMru
<1>10. a \in Seq(Slots) /\ b \in Seq(Slots)
  BY <1>7, TwoFields
<1>11. ToSet(u) = ToSet(b) \cup {s}
  BY <1>3, <1>10, EndSet
<1> HIDE DEF m2, u
<1>12. Two(m3, "warm", u, "hot", a) /\ m3.state = [m2.state EXCEPT ![w] = "hot"]
  BY <1>3, <1>6, <1>9, InListKeepsLinks
<1>13. /\ m3.state = [[l.state EXCEPT ![s] = "warm"] EXCEPT ![w] = "hot"]
       /\ m3.state[w] = "hot" /\ w \notin ToSet(u) /\ w \notin ToSet(a)
  BY <1>3, <1>5, <1>7, <1>9, <1>11, <1>12
<1>14. Two(m3, "hot", a, "warm", u)
  BY <1>12, TwoFields
<1> HIDE DEF m3
<1>15. Two(m4, "hot", v, "warm", u) /\ m4.state = m3.state
  BY <1>3, <1>13, <1>14, AddedAtLru
<1>16. ToSet(v) = ToSet(a) \cup {w}
  BY <1>3, <1>10, FrontSet
<1> HIDE DEF m4, v
<1>17. Placed(m4, "hot", v) /\ Placed(m4, "warm", u)
  BY <1>3, <1>5, <1>11, <1>13, <1>15, <1>16 DEF Placed
<1>18. Full(m4, "hot", v, "warm", u)
  BY <1>15, <1>17 DEF Full
<1> QED BY <1>4, <1>18 DEF m1, m2, m3, m4, u, v, s, w, a, b

(* The oldest block of one list becomes the oldest of the other.           *)
LEMMA Shifted ==
  ASSUME NEW l, NEW q, NEW seq, NEW r, NEW other, Full(l, q, seq, r, other), Len(seq) # 0
  PROVE  /\ l.head[q] = seq[1] /\ seq[1] # Null /\ seq[1] \in Slots
         /\ Full(AddLru(InList(RemoveBlock(l, seq[1]), seq[1], r), seq[1]),
                 q, Out(seq, 1), r, <<seq[1]>> \o other)
<1> DEFINE s == seq[1]
           m == RemoveBlock(l, s)
           a == Out(seq, 1)
<1>1. 1 \in 1..Len(seq)
  BY FullFields, TwoFields
<1>2. /\ Two(l, q, seq, r, other) /\ s \in Slots /\ l.state[s] = q
      /\ ToSet(seq) \cap ToSet(other) = {} /\ s \in ToSet(seq)
      /\ seq \in Seq(Slots) /\ Different(seq) /\ other \in Seq(Slots)
      /\ l.head[q] = s /\ q # r /\ r \in Kinds /\ l.state \in [Slots -> Kinds]
      /\ Placed(l, q, seq) /\ Placed(l, r, other)
  BY <1>1, FullFields, TwoFields DEF First
<1>3. Two(m, q, a, r, other) /\ m.state = l.state
  BY <1>1, <1>2, Removed
<1>4. ToSet(a) = ToSet(seq) \ {s}
  BY <1>1, <1>2, OutSet
<1> HIDE DEF s, m, a
<1> DEFINE m1 == InList(m, s, r)
           m2 == AddLru(m1, s)
           v == <<s>> \o other
<1>5. /\ Two(m1, q, a, r, other) /\ m1.state = [l.state EXCEPT ![s] = r]
  BY <1>2, <1>3, InListKeepsLinks
<1>6. Two(m1, r, other, q, a) /\ m1.state[s] = r /\ s \notin ToSet(a) /\ s \notin ToSet(other)
  BY <1>2, <1>4, <1>5, TwoFields
<1> HIDE DEF m1
<1>7. Two(m2, r, v, q, a) /\ m2.state = m1.state
  BY <1>2, <1>6, AddedAtLru
<1>8. ToSet(v) = ToSet(other) \cup {s}
  BY <1>2, FrontSet
<1> HIDE DEF m2, v
<1>9. Placed(m2, q, a) /\ Placed(m2, r, v)
  BY <1>2, <1>4, <1>5, <1>7, <1>8 DEF Placed
<1>10. Full(m2, q, a, r, v)
  BY <1>7, <1>9, TwoFields DEF Full
<1> QED BY <1>2, <1>10, Constants DEF m1, m2, m, s, a, v

-----------------------------------------------------------------------------
(* Many blocks move from one list to the other                             *)

Rest(seq, k) == SubSeq(seq, k + 1, Len(seq))
Over(seq, other, k) == Reverse(SubSeq(seq, 1, k)) \o other

LEMMA RestFields ==
  ASSUME NEW seq \in Seq(Slots), NEW k \in 0..Len(seq)
  PROVE  /\ Rest(seq, k) \in Seq(Slots) /\ Len(Rest(seq, k)) = Len(seq) - k
         /\ \A j \in 1..Len(seq) - k : Rest(seq, k)[j] = seq[j + k]
<1> DEFINE size == Len(seq)
           u == Rest(seq, k)
<1>1. size \in Nat /\ k \in 0..size
  OBVIOUS
<1>2. u \in Seq(Slots) /\ Len(u) = size - k /\ \A j \in 1..size - k : u[j] = seq[k + j]
  <2>1. u = SubSeq(seq, k + 1, size)
    BY DEF Rest
  <2>2. \A a \in k + 1..size : seq[a] \in Slots
    BY <1>1
  <2>3. u \in Seq(Slots)
    BY <2>1, <2>2, <1>1
  <2>4. Len(u) = size - k
    BY <2>1, <2>2, <1>1
  <2>5. \A j \in 1..size - k : u[j] = seq[k + j]
    BY <2>1, <2>2, <1>1
  <2> QED BY <2>3, <2>4, <2>5
<1>3. \A j \in 1..size - k : k + j = j + k
  BY <1>1
<1> QED BY <1>2, <1>3

LEMMA OverFields ==
  ASSUME NEW seq \in Seq(Slots), NEW other \in Seq(Slots), NEW k \in 0..Len(seq)
  PROVE  /\ Over(seq, other, k) \in Seq(Slots) /\ Len(Over(seq, other, k)) = Len(other) + k
         /\ \A j \in 1..Len(other) + k :
              Over(seq, other, k)[j] = IF j <= k THEN seq[k - j + 1] ELSE other[j - k]
<1> DEFINE size == Len(seq)
           a == SubSeq(seq, 1, k)
           b == Reverse(a)
<1>1. size \in Nat /\ k \in 0..size /\ k \in Nat
  OBVIOUS
<1>2. a \in Seq(Slots) /\ Len(a) = k /\ \A j \in 1..k : a[j] = seq[j] /\ seq[j] \in Slots
  BY <1>1
<1> HIDE DEF a, size
<1>3. b \in [1..k -> Slots] /\ \A j \in 1..k : b[j] = seq[k - j + 1]
  <2>1. b = [j \in 1..k |-> a[(k - j) + 1]]
    BY <1>2 DEF Reverse
  <2>2. \A j \in 1..k : (k - j) + 1 \in 1..k /\ k - j + 1 = (k - j) + 1
    BY <1>1
  <2> QED BY <1>2, <2>1, <2>2
<1> HIDE DEF b
<1>4. b \in Seq(Slots) /\ Len(b) = k
  BY <1>1, <1>3
<1>5. Over(seq, other, k) = b \o other
  BY DEF Over, a, b
<1>6. /\ b \o other \in Seq(Slots) /\ Len(b \o other) = k + Len(other)
      /\ \A j \in 1..k + Len(other) : (b \o other)[j] = IF j <= k THEN b[j] ELSE other[j - k]
  BY <1>4
<1>7. \A j \in 1..Len(other) + k : j <= k => j \in 1..k
  BY <1>1
<1>8. Len(other) + k = k + Len(other)
  BY <1>1
<1> QED BY <1>3, <1>5, <1>6, <1>7, <1>8

LEMMA RestMovesOver ==
  ASSUME NEW seq \in Seq(Slots), NEW other \in Seq(Slots), NEW k \in 0..Len(seq), k < Len(seq)
  PROVE  /\ Out(Rest(seq, k), 1) = Rest(seq, k + 1)
         /\ <<Rest(seq, k)[1]>> \o Over(seq, other, k) = Over(seq, other, k + 1)
<1> DEFINE size == Len(seq)
           u == Rest(seq, k)
           v == Over(seq, other, k)
           y == Rest(seq, k + 1)
           z == Over(seq, other, k + 1)
           n == Len(other)
<1>1. size \in Nat /\ k \in 0..size /\ k < size /\ n \in Nat /\ k + 1 \in 0..size /\ 1 \in 1..size - k
  OBVIOUS
<1>2. /\ u \in Seq(Slots) /\ Len(u) = size - k /\ \A j \in 1..size - k : u[j] = seq[j + k]
      /\ y \in Seq(Slots) /\ Len(y) = size - (k + 1)
      /\ \A j \in 1..size - (k + 1) : y[j] = seq[j + (k + 1)]
  BY <1>1, RestFields
<1>3. /\ v \in Seq(Slots) /\ Len(v) = n + k
      /\ \A j \in 1..n + k : v[j] = IF j <= k THEN seq[k - j + 1] ELSE other[j - k]
      /\ z \in Seq(Slots) /\ Len(z) = n + (k + 1)
      /\ \A j \in 1..n + (k + 1) : z[j] = IF j <= k + 1 THEN seq[(k + 1) - j + 1] ELSE other[j - (k + 1)]
  BY <1>1, OverFields
<1>4. seq[1 + k] \in Slots
  BY <1>1
<1> HIDE DEF u, v, y, z, n, size
<1>5. Out(u, 1) = y
  <2>1. /\ Out(u, 1) \in Seq(Slots) /\ Len(Out(u, 1)) = size - k - 1
        /\ \A j \in 1..size - k - 1 : Out(u, 1)[j] = u[j + 1]
    <3>1. 1 \in 1..Len(u) /\ \A j \in 1..Len(u) - 1 : ~(j < 1)
      BY <1>1, <1>2
    <3>2. /\ Out(u, 1) \in Seq(Slots) /\ Len(Out(u, 1)) = Len(u) - 1
          /\ \A j \in 1..Len(u) - 1 : Out(u, 1)[j] = IF j < 1 THEN u[j] ELSE u[j + 1]
      BY <1>2, <3>1, OutIsShorter
    <3>3. Len(u) - 1 = size - k - 1
      BY <1>2
    <3> QED BY <3>1, <3>2, <3>3
  <2>2. size - k - 1 = size - (k + 1)
    BY <1>1
  <2>3. ASSUME NEW j \in 1..size - (k + 1) PROVE Out(u, 1)[j] = y[j]
    <3>1. j + 1 \in 1..size - k /\ (j + 1) + k = j + (k + 1)
      BY <1>1
    <3> QED BY <1>2, <2>1, <2>2, <3>1
  <2> QED BY <1>2, <2>1, <2>2, <2>3
<1>6. <<u[1]>> \o v = z
  <2> DEFINE x == <<u[1]>> \o v
  <2>1. u[1] = seq[1 + k]
    BY <1>1, <1>2
  <2>2. /\ x \in Seq(Slots) /\ Len(x) = n + k + 1 /\ x[1] = seq[1 + k]
        /\ \A j \in 1..n + k : x[j + 1] = v[j]
    BY <1>3, <1>4, <2>1, InAtFront
  <2> HIDE DEF x
  <2>3. n + k + 1 = n + (k + 1)
    BY <1>1
  <2>4. ASSUME NEW j \in 1..n + (k + 1) PROVE x[j] = z[j]
    <3>1. CASE j = 1
      <4>1. (k + 1) - 1 + 1 = 1 + k /\ 1 <= k + 1
        BY <1>1
      <4> QED BY <1>3, <2>2, <3>1, <4>1
    <3>2. CASE j # 1
      <4>1. j - 1 \in 1..n + k /\ (j - 1) + 1 = j
        BY <1>1, <3>2
      <4>2. x[j] = v[j - 1]
        BY <2>2, <4>1
      <4>3. CASE j <= k + 1
        <5>1. j - 1 <= k /\ k - (j - 1) + 1 = (k + 1) - j + 1
          BY <1>1, <4>3
        <5> QED BY <1>3, <4>1, <4>2, <4>3, <5>1
      <4>4. CASE ~(j <= k + 1)
        <5>1. ~(j - 1 <= k) /\ (j - 1) - k = j - (k + 1)
          BY <1>1, <4>4
        <5> QED BY <1>3, <4>1, <4>2, <4>4, <5>1
      <4> QED BY <4>3, <4>4
    <3> QED BY <3>1, <3>2
  <2> QED BY <1>3, <2>2, <2>3, <2>4 DEF x
<1> QED BY <1>5, <1>6 DEF u, v, y, z

LEMMA ShiftedMany ==
  ASSUME NEW l, NEW q, NEW seq, NEW r, NEW other, Full(l, q, seq, r, other),
         NEW k \in Nat, k <= Len(seq)
  PROVE  Full(Shift(l, q, r, k), q, Rest(seq, k), r, Over(seq, other, k))
<1> DEFINE Turn(m) == IF m.head[q] = Null THEN m
                      ELSE AddLru(InList(RemoveBlock(m, m.head[q]), m.head[q], r), m.head[q])
           Computes(f) == f = [j \in 0..k |-> IF j = 0 THEN l ELSE Turn(f[j - 1])]
           f == CHOOSE g : Computes(g)
<1>1. Shift(l, q, r, k) = f[k]
  BY DEF Shift
<1> DEFINE V == {m \in Lrus : \E a, b : Full(m, q, a, r, b)}
           G == [m \in V |-> Turn(m)]
<1>2. l \in V
  BY FullFields
<1>3. ASSUME NEW m, NEW a, NEW b, Full(m, q, a, r, b), Len(a) # 0
      PROVE  Turn(m) \in V /\ Full(Turn(m), q, Out(a, 1), r, <<a[1]>> \o b)
  <2>1. m.head[q] = a[1] /\ a[1] # Null
    BY <1>3, Shifted
  <2>2. Turn(m) = AddLru(InList(RemoveBlock(m, a[1]), a[1], r), a[1])
    BY <2>1
  <2> HIDE DEF Turn
  <2>3. Full(Turn(m), q, Out(a, 1), r, <<a[1]>> \o b)
    BY <1>3, <2>2, Shifted
  <2> QED BY <2>3, FullFields
<1>4. ASSUME NEW m \in V PROVE Turn(m) \in V
  <2>1. PICK a, b : Full(m, q, a, r, b)
    OBVIOUS
  <2>2. CASE Len(a) = 0
    <3>1. m.head[q] = Null
      BY <2>1, <2>2, FullFields DEF First
    <3> QED BY <3>1
  <2>3. CASE Len(a) # 0
    <3> HIDE DEF Turn, V
    <3> QED BY <1>3, <2>1, <2>3
  <2> QED BY <2>2, <2>3
<1>5. G \in [V -> V] /\ \A m \in V : G[m] = Turn(m)
  <2> HIDE DEF V, Turn
  <2> QED BY <1>4
<1> HIDE DEF V, G, Turn
<1>6. Computes(f)
  <2>1. PICK g \in [0..k -> V] : Iterates(g, G, l, k)
    BY <1>2, <1>5, IterationExists
  <2>2. ASSUME NEW j \in 0..k PROVE g[j] = IF j = 0 THEN l ELSE Turn(g[j - 1])
    <3>1. j # 0 => j \in 1..k /\ j - 1 \in 0..k
      OBVIOUS
    <3> QED BY <1>5, <2>1, <3>1 DEF Iterates
  <2>3. Computes(g)
    BY <2>2
  <2> HIDE DEF Computes
  <2> QED BY <2>3
<1> HIDE DEF f
<1>7. seq \in Seq(Slots) /\ other \in Seq(Slots) /\ Len(seq) \in Nat
  BY FullFields, TwoFields
<1> DEFINE S == {j \in Nat : j <= k => Full(f[j], q, Rest(seq, j), r, Over(seq, other, j))}
<1>8. 0 \in S
  <2>1. f[0] = l
    BY <1>6
  <2>2. 0 \in 0..Len(seq) /\ Len(seq) - 0 = Len(seq) /\ Len(other) + 0 = Len(other)
    BY <1>7
  <2>3. Rest(seq, 0) = seq
    <3> DEFINE u == Rest(seq, 0)
    <3>1. u \in Seq(Slots) /\ Len(u) = Len(seq) /\ \A j \in 1..Len(seq) : u[j] = seq[j + 0]
      BY <1>7, <2>2, RestFields
    <3> HIDE DEF u
    <3>2. \A j \in 1..Len(seq) : j + 0 = j
      OBVIOUS
    <3> QED BY <1>7, <3>1, <3>2 DEF u
  <2>4. Over(seq, other, 0) = other
    <3> DEFINE u == Over(seq, other, 0)
    <3>1. u \in Seq(Slots) /\ Len(u) = Len(other)
          /\ \A j \in 1..Len(other) : u[j] = IF j <= 0 THEN seq[0 - j + 1] ELSE other[j - 0]
      <4>1. /\ u \in Seq(Slots) /\ Len(u) = Len(other) + 0
            /\ \A j \in 1..Len(other) + 0 : u[j] = IF j <= 0 THEN seq[0 - j + 1] ELSE other[j - 0]
        BY <1>7, <2>2, OverFields
      <4> QED BY <2>2, <4>1
    <3> HIDE DEF u
    <3>2. \A j \in 1..Len(other) : j - 0 = j /\ ~(j <= 0)
      OBVIOUS
    <3> QED BY <1>7, <3>1, <3>2 DEF u
  <2> QED BY <2>1, <2>3, <2>4
<1>9. ASSUME NEW j \in Nat, j \in S PROVE j + 1 \in S
  <2> SUFFICES ASSUME j + 1 <= k PROVE Full(f[j + 1], q, Rest(seq, j + 1), r, Over(seq, other, j + 1))
    OBVIOUS
  <2>1. /\ j + 1 \in 0..k /\ j + 1 # 0 /\ (j + 1) - 1 = j /\ j <= k
        /\ j \in 0..Len(seq) /\ j < Len(seq) /\ Len(seq) - j # 0
    BY <1>7
  <2>2. f[j + 1] = Turn(f[j])
    BY <1>6, <2>1
  <2>3. Len(Rest(seq, j)) # 0
    BY <1>7, <2>1, RestFields
  <2>4. Full(f[j], q, Rest(seq, j), r, Over(seq, other, j))
    BY <1>9, <2>1
  <2>5. Full(Turn(f[j]), q, Out(Rest(seq, j), 1), r, <<Rest(seq, j)[1]>> \o Over(seq, other, j))
    BY <1>3, <2>3, <2>4
  <2> QED BY <1>7, <2>1, <2>2, <2>5, RestMovesOver
<1>10. k \in S
  <2> HIDE DEF S
  <2> QED BY <1>8, <1>9, AllNaturals
<1> QED BY <1>1, <1>10

-----------------------------------------------------------------------------
(* The lists of a new cache                                                *)

LEMMA HotBlocksFit ==
  ASSUME NEW pct \in 0..100
  PROVE  HotBlocks(pct) \in 0..Assoc
<1> DEFINE x == Assoc * pct
<1>1. x \in Nat /\ x <= Assoc * 100
  <2>1. Assoc \in Nat /\ pct \in Nat /\ 100 - pct \in Nat
    BY Constants
  <2>2. x \in Nat /\ Assoc * (100 - pct) \in Nat
    BY <2>1
  <2>3. Assoc * 100 = x + Assoc * (100 - pct)
    BY <2>1
  <2> QED BY <2>2, <2>3
<1> HIDE DEF x
<1>2. x \div 100 \in 0..Assoc
  BY <1>1, Constants
<1> QED BY <1>2 DEF HotBlocks, x

LEMMA NewLists ==
  ASSUME NEW pct \in 0..100
  PROVE  \E hot, warm : /\ Full(InitLists(pct), "hot", hot, "warm", warm)
                        /\ Len(hot) = HotBlocks(pct) /\ Len(hot) + Len(warm) = Assoc
<1> DEFINE none == [q \in {"hot", "warm"} |-> Null]
           state == [s \in Slots |-> IF s < HotBlocks(pct) THEN "hot" ELSE "warm"]
           empty == [next |-> [s \in Slots |-> Null], prev |-> [s \in Slots |-> Null],
                     state |-> state,
                     head |-> none, tail |-> none, blocks |-> [q \in {"hot", "warm"} |-> 0]]
           Computes(f) == f = [n \in 0..Assoc |-> IF n = 0 THEN empty ELSE AddLru(f[n - 1], n - 1)]
           f == CHOOSE g : Computes(g)
           max == HotBlocks(pct)
           Partial(m, n, hot, warm) ==
             /\ Two(m, "hot", hot, "warm", warm) /\ m.state = state
             /\ \A s \in Slots : s \in ToSet(hot) <=> s < n /\ state[s] = "hot"
             /\ \A s \in Slots : s \in ToSet(warm) <=> s < n /\ state[s] = "warm"
             /\ Len(hot) = (IF n < max THEN n ELSE max) /\ Len(hot) + Len(warm) = n
           Count(m) == m.blocks["hot"] + m.blocks["warm"]
           Turn(m) == IF Count(m) = Assoc THEN m ELSE AddLru(m, Count(m))
           V == {m \in Lrus : \E n \in 0..Assoc : \E hot, warm : Partial(m, n, hot, warm)}
           G == [m \in V |-> Turn(m)]
<1>1. InitLists(pct) = f[Assoc]
  BY DEF InitLists
<1>2. max \in 0..Assoc /\ Assoc \in Nat /\ Slots = 0..Assoc - 1 /\ \A s \in Slots : s \in Int
  BY HotBlocksFit, Constants
<1>3. state \in [Slots -> Kinds] /\ \A s \in Slots : state[s] = IF s < max THEN "hot" ELSE "warm"
  BY DEF Kinds
<1>4. Partial(empty, 0, <<>>, <<>>)
  <2>1. empty \in Lrus
    BY <1>3 DEF Lrus, Kinds, Link
  <2>2. Links(<<>>, empty.next, empty.prev)
    BY DEF Links
  <2>3. OnList(empty, "hot", <<>>) /\ OnList(empty, "warm", <<>>)
    BY <2>2 DEF OnList, First, Latest
  <2>4. ToSet(<<>>) = {}
    BY DEF ToSet
  <2>5. Two(empty, "hot", <<>>, "warm", <<>>)
    BY <2>1, <2>3, <2>4 DEF Two, Kinds
  <2>6. \A s \in Slots : ~(s < 0)
    BY <1>2
  <2>7. Len(<<>>) = 0 /\ 0 + 0 = 0 /\ (IF 0 < max THEN 0 ELSE max) = 0
    BY <1>2
  <2> HIDE DEF none, max
  <2> QED BY <2>4, <2>5, <2>6, <2>7
<1> HIDE DEF empty, state
<1>5. ASSUME NEW m, NEW n \in 0..Assoc, NEW hot, NEW warm, Partial(m, n, hot, warm)
      PROVE  /\ Count(m) = n /\ m \in Lrus
             /\ n # Assoc => \E a, b : Partial(AddLru(m, n), n + 1, a, b)
  <2>1. /\ Two(m, "hot", hot, "warm", warm) /\ Two(m, "warm", warm, "hot", hot) /\ m.state = state
        /\ hot \in Seq(Slots) /\ warm \in Seq(Slots) /\ Len(hot) \in Nat /\ Len(warm) \in Nat
    BY <1>5, TwoFields
  <2>2. Count(m) = n /\ m \in Lrus
    BY <1>5, <2>1 DEF Two, OnList
  <2>3. ASSUME n # Assoc PROVE \E a, b : Partial(AddLru(m, n), n + 1, a, b)
    <3>1. n \in Slots /\ ~(n < n) /\ \A s \in Slots : s < n + 1 <=> s < n \/ s = n
      BY <1>2, <2>3
    <3>2. n \notin ToSet(hot) /\ n \notin ToSet(warm)
      BY <1>5, <3>1
    <3>3. CASE state[n] = "hot"
      <4> DEFINE a == <<n>> \o hot
      <4>1. Two(AddLru(m, n), "hot", a, "warm", warm) /\ AddLru(m, n).state = state
        BY <2>1, <3>1, <3>2, <3>3, AddedAtLru
      <4>2. ToSet(a) = ToSet(hot) \cup {n} /\ Len(a) = Len(hot) + 1
        BY <2>1, <3>1, FrontSet, InAtFront
      <4> HIDE DEF a
      <4>3. n < max
        BY <1>3, <3>1, <3>3
      <4>4. \A s \in Slots : s \in ToSet(a) <=> s < n + 1 /\ state[s] = "hot"
        BY <1>5, <3>1, <3>3, <4>2
      <4>5. \A s \in Slots : s \in ToSet(warm) <=> s < n + 1 /\ state[s] = "warm"
        BY <1>5, <3>1, <3>3
      <4>6. Len(a) = (IF n + 1 < max THEN n + 1 ELSE max) /\ Len(a) + Len(warm) = n + 1
        <5> HIDE DEF max
        <5> QED BY <1>2, <1>5, <2>1, <4>2, <4>3
      <4>7. Partial(AddLru(m, n), n + 1, a, warm)
        BY <4>1, <4>4, <4>5, <4>6
      <4> HIDE DEF Partial
      <4> QED BY <4>7
    <3>4. CASE state[n] = "warm"
      <4> DEFINE b == <<n>> \o warm
      <4>1. Two(AddLru(m, n), "hot", hot, "warm", b) /\ AddLru(m, n).state = state
        <5>1. Two(AddLru(m, n), "warm", b, "hot", hot) /\ AddLru(m, n).state = state
          BY <2>1, <3>1, <3>2, <3>4, AddedAtLru
        <5> HIDE DEF b
        <5> QED BY <5>1, TwoFields
      <4>2. ToSet(b) = ToSet(warm) \cup {n} /\ Len(b) = Len(warm) + 1
        BY <2>1, <3>1, FrontSet, InAtFront
      <4> HIDE DEF b
      <4>3. ~(n < max)
        BY <1>3, <3>1, <3>4
      <4>4. \A s \in Slots : s \in ToSet(hot) <=> s < n + 1 /\ state[s] = "hot"
        BY <1>5, <3>1, <3>4
      <4>5. \A s \in Slots : s \in ToSet(b) <=> s < n + 1 /\ state[s] = "warm"
        BY <1>5, <3>1, <3>4, <4>2
      <4>6. Len(hot) = (IF n + 1 < max THEN n + 1 ELSE max) /\ Len(hot) + Len(b) = n + 1
        <5>1. Len(hot) = (IF n < max THEN n ELSE max) /\ Len(hot) + Len(warm) = n
          BY <1>5
        <5> HIDE DEF max, Partial
        <5>2. Len(hot) = max /\ ~(n + 1 < max)
          BY <1>2, <4>3, <5>1
        <5> QED BY <2>1, <4>2, <5>1, <5>2
      <4>7. Partial(AddLru(m, n), n + 1, hot, b)
        BY <4>1, <4>4, <4>5, <4>6
      <4> HIDE DEF Partial
      <4> QED BY <4>7
    <3> QED BY <1>3, <3>1, <3>3, <3>4
  <2> QED BY <2>2, <2>3
<1>6. ASSUME NEW m \in V PROVE Turn(m) \in V
  <2>1. PICK n \in 0..Assoc : \E hot, warm : Partial(m, n, hot, warm)
    <3> HIDE DEF Partial
    <3> QED OBVIOUS
  <2>2. PICK hot, warm : Partial(m, n, hot, warm)
    BY <2>1
  <2> HIDE DEF Partial
  <2>3. CASE n = Assoc
    <3>1. Turn(m) = m
      BY <1>5, <2>2, <2>3
    <3> QED BY <3>1
  <2>4. CASE n # Assoc
    <3>1. Turn(m) = AddLru(m, n) /\ n + 1 \in 0..Assoc
      BY <1>2, <1>5, <2>2, <2>4
    <3>2. PICK a, b : Partial(AddLru(m, n), n + 1, a, b)
      BY <1>5, <2>2, <2>4
    <3>3. AddLru(m, n) \in Lrus
      BY <1>5, <3>1, <3>2
    <3> QED BY <3>1, <3>2, <3>3
  <2> QED BY <2>3, <2>4
<1>7. G \in [V -> V] /\ \A m \in V : G[m] = Turn(m)
  <2> HIDE DEF V, Turn
  <2> QED BY <1>6
<1>8. empty \in V
  <2> HIDE DEF Partial
  <2>1. 0 \in 0..Assoc
    BY <1>2
  <2>2. empty \in Lrus
    <3> HIDE DEF Count
    <3> QED BY <1>4, <1>5, <2>1
  <2> QED BY <1>4, <2>1, <2>2
<1> HIDE DEF V, G, Partial, Count
<1>9. PICK g \in [0..Assoc -> V] : Iterates(g, G, empty, Assoc)
  BY <1>2, <1>7, <1>8, IterationExists
<1>10. \A n \in 0..Assoc : \E hot, warm : Partial(g[n], n, hot, warm)
  <2> DEFINE S == {n \in Nat : n <= Assoc => \E hot, warm : Partial(g[n], n, hot, warm)}
  <2>1. 0 \in S
    BY <1>4, <1>9 DEF Iterates
  <2>2. ASSUME NEW n \in Nat, n \in S PROVE n + 1 \in S
    <3> SUFFICES ASSUME n + 1 <= Assoc PROVE \E hot, warm : Partial(g[n + 1], n + 1, hot, warm)
      OBVIOUS
    <3>1. n \in 0..Assoc /\ n # Assoc /\ n + 1 \in 1..Assoc /\ (n + 1) - 1 = n
      BY <1>2
    <3>2. PICK hot, warm : Partial(g[n], n, hot, warm)
      BY <2>2, <3>1
    <3>3. g[n + 1] = Turn(g[n])
      BY <1>7, <1>9, <3>1 DEF Iterates
    <3>4. g[n + 1] = AddLru(g[n], n)
      BY <1>5, <3>1, <3>2, <3>3
    <3> QED BY <1>5, <3>1, <3>2, <3>4
  <2>3. Nat \subseteq S
    <3> HIDE DEF S
    <3> QED BY <2>1, <2>2, AllNaturals
  <2> QED BY <2>3
<1>11. Computes(g)
  <2>1. ASSUME NEW n \in 0..Assoc PROVE g[n] = IF n = 0 THEN empty ELSE AddLru(g[n - 1], n - 1)
    <3>1. CASE n = 0
      BY <1>9, <3>1 DEF Iterates
    <3>2. CASE n # 0
      <4>1. n \in 1..Assoc /\ n - 1 \in 0..Assoc /\ n - 1 # Assoc
        BY <1>2, <3>2
      <4>2. PICK hot, warm : Partial(g[n - 1], n - 1, hot, warm)
        BY <1>10, <4>1
      <4>3. Count(g[n - 1]) = n - 1
        BY <1>5, <4>1, <4>2
      <4>4. g[n] = Turn(g[n - 1])
        BY <1>7, <1>9, <4>1 DEF Iterates
      <4> QED BY <3>2, <4>1, <4>3, <4>4
    <3> QED BY <3>1, <3>2
  <2> QED BY <2>1
<1>12. Computes(f)
  <2> HIDE DEF Computes
  <2> QED BY <1>11
<1> HIDE DEF f
<1>13. ASSUME NEW n \in 0..Assoc PROVE f[n] = g[n]
  <2> DEFINE S == {j \in Nat : j <= Assoc => f[j] = g[j]}
  <2>1. 0 \in S
    BY <1>2, <1>11, <1>12
  <2>2. ASSUME NEW j \in Nat, j \in S PROVE j + 1 \in S
    <3> SUFFICES ASSUME j + 1 <= Assoc PROVE f[j + 1] = g[j + 1]
      OBVIOUS
    <3>1. j <= Assoc /\ j + 1 \in 0..Assoc /\ (j + 1) - 1 = j /\ j + 1 # 0
      BY <1>2
    <3> QED BY <1>11, <1>12, <2>2, <3>1
  <2>3. Nat \subseteq S
    <3> HIDE DEF S
    <3> QED BY <2>1, <2>2, AllNaturals
  <2> QED BY <2>3
<1>14. PICK hot, warm : Partial(f[Assoc], Assoc, hot, warm)
  <2>1. Assoc \in 0..Assoc
    BY <1>2
  <2> QED BY <1>10, <1>13, <2>1
<1>15. \A s \in Slots : s < Assoc
  BY <1>2
<1>16. /\ Full(f[Assoc], "hot", hot, "warm", warm)
       /\ Len(hot) = max /\ Len(hot) + Len(warm) = Assoc
  BY <1>2, <1>14, <1>15 DEF Full, Placed, Partial
<1> QED BY <1>1, <1>16

-----------------------------------------------------------------------------
(* The hash chains and the invalid list as a family of sequences           *)

Free == CHOOSE f : f \notin Buckets
Keys == Buckets \cup {Free}

LEMMA FreeIsNoBucket == Free \notin Buckets
BY NoSetContainsEverything DEF Free

Hashes == [next : [Slots -> Link], prev : [Slots -> Link],
           bucket : [Buckets -> Link], invalid : Link]

Family(h, ls) ==
  /\ h \in Hashes /\ ls \in [Keys -> Seq(Slots)]
  /\ \A k \in Keys : Links(ls[k], h.next, h.prev)
  /\ \A j, k \in Keys : j # k => ToSet(ls[j]) \cap ToSet(ls[k]) = {}

Heads(h, ls) ==
  h.invalid = First(ls[Free]) /\ \A k \in Buckets : h.bucket[k] = First(ls[k])

(* Block s is on no chain and its links are clear.                         *)
Loose(h, ls, s) ==
  h.next[s] = Null /\ h.prev[s] = Null /\ \A k \in Keys : s \notin ToSet(ls[k])

(* The family in which list k has become seq.                              *)
With(ls, k, seq) == [ls EXCEPT ![k] = seq]

LEMMA FamilyFields ==
  ASSUME NEW h, NEW ls, Family(h, ls), NEW k \in Keys
  PROVE  /\ ls[k] \in Seq(Slots) /\ Len(ls[k]) \in Nat /\ Different(ls[k])
         /\ ToSet(ls[k]) \subseteq Slots /\ Links(ls[k], h.next, h.prev)
         /\ h.next \in [Slots -> Link] /\ h.prev \in [Slots -> Link]
         /\ \A i \in 1..Len(ls[k]) :
              ls[k][i] \in Slots /\ ls[k][i] # Null /\ ls[k][i] \in ToSet(ls[k])
<1>1. ls[k] \in Seq(Slots) /\ Links(ls[k], h.next, h.prev)
  BY DEF Family
<1>2. h.next \in [Slots -> Link] /\ h.prev \in [Slots -> Link]
  BY DEF Family, Hashes
<1>3. Different(ls[k])
  BY <1>1 DEF Links, Different
<1>4. /\ ToSet(ls[k]) = {ls[k][i] : i \in 1..Len(ls[k])} /\ Len(ls[k]) \in Nat
      /\ \A i \in 1..Len(ls[k]) : ls[k][i] \in Slots
  BY <1>1 DEF ToSet
<1> QED BY <1>1, <1>2, <1>3, <1>4, Constants

Cut(h, ls, k, i, m, rest) ==
  /\ Family(m, rest) /\ m.bucket = h.bucket /\ m.invalid = h.invalid
  /\ \A j \in Keys : rest[j] = IF j = k THEN Out(ls[k], i) ELSE ls[j]
  /\ ToSet(rest[k]) = ToSet(ls[k]) \ {ls[k][i]}
  /\ Loose(m, rest, ls[k][i])
  /\ \A t \in Slots : Loose(h, ls, t) => Loose(m, rest, t)
  /\ First(rest[k]) = IF h.prev[ls[k][i]] = Null THEN h.next[ls[k][i]] ELSE First(ls[k])

LEMMA Unlinked ==
  ASSUME NEW h, NEW ls, Family(h, ls), NEW k \in Keys, NEW i \in 1..Len(ls[k]),
         NEW rest, rest = With(ls, k, Out(ls[k], i)), NEW m, m = Unlink(h, ls[k][i])
  PROVE  Cut(h, ls, k, i, m, rest)
<1> DEFINE seq == ls[k]
           s == seq[i]
           p == h.prev[s]
           n == h.next[s]
           a == IF p # Null THEN [h.next EXCEPT ![p] = n] ELSE h.next
           b == IF n # Null THEN [h.prev EXCEPT ![n] = p] ELSE h.prev
           u == Out(seq, i)
           size == Len(seq)
<1>1. /\ seq \in Seq(Slots) /\ size \in Nat /\ Different(seq) /\ i \in 1..size
      /\ ToSet(seq) \subseteq Slots /\ Links(seq, h.next, h.prev)
      /\ h.next \in [Slots -> Link] /\ h.prev \in [Slots -> Link]
      /\ \A x \in 1..size : seq[x] \in Slots /\ seq[x] # Null /\ seq[x] \in ToSet(seq)
  BY FamilyFields
<1>2. /\ p = IF i = 1 THEN Null ELSE seq[i - 1]
      /\ n = IF i = size THEN Null ELSE seq[i + 1]
  BY <1>1 DEF Links, After, Before
<1>3. (i # 1 => i - 1 \in 1..size) /\ (i # size => i + 1 \in 1..size)
  BY <1>1
<1>4. /\ p # Null => p \in ToSet(seq) /\ p \in Slots
      /\ n # Null => n \in ToSet(seq) /\ n \in Slots
      /\ p \in Link /\ n \in Link /\ s \in Slots /\ s \in ToSet(seq)
  BY <1>1, <1>2, <1>3 DEF Link
<1>5. /\ u \in Seq(Slots) /\ Len(u) = size - 1 /\ ToSet(u) = ToSet(seq) \ {s}
      /\ \A j \in 1..size - 1 : u[j] = IF j < i THEN seq[j] ELSE seq[j + 1]
  BY <1>1, OutIsShorter, OutSet
<1>6. Links(u, a, b)
  BY <1>1, OutOfLinks
<1>7. m = [h EXCEPT !.next = [a EXCEPT ![s] = Null], !.prev = [b EXCEPT ![s] = Null]]
  BY DEF Unlink
<1>8. \A j \in Keys : rest[j] = IF j = k THEN u ELSE ls[j]
  BY DEF Family, With
<1>9. a \in [Slots -> Link] /\ b \in [Slots -> Link]
  BY <1>1, <1>4
<1>10. \A t \in Slots : t \notin ToSet(seq) => a[t] = h.next[t] /\ b[t] = h.prev[t]
  BY <1>1, <1>4
<1> HIDE DEF s, p, n, a, b, u, size
<1>11. /\ m.next = [a EXCEPT ![s] = Null] /\ m.prev = [b EXCEPT ![s] = Null]
       /\ m.bucket = h.bucket /\ m.invalid = h.invalid /\ m \in Hashes
  <2>1. h \in Hashes
    BY DEF Family
  <2>2. /\ m.next = [a EXCEPT ![s] = Null] /\ m.prev = [b EXCEPT ![s] = Null]
        /\ m.bucket = h.bucket /\ m.invalid = h.invalid
    BY <1>7, <2>1 DEF Hashes
  <2>3. m = [next |-> m.next, prev |-> m.prev, bucket |-> m.bucket, invalid |-> m.invalid]
    BY <1>7, <2>1 DEF Hashes
  <2>4. m.next \in [Slots -> Link] /\ m.prev \in [Slots -> Link]
    BY <1>9, <2>2 DEF Link
  <2>5. h.bucket \in [Buckets -> Link] /\ h.invalid \in Link
    BY <2>1 DEF Hashes
  <2> QED BY <2>2, <2>3, <2>4, <2>5 DEF Hashes
<1>12. /\ m.next[s] = Null /\ m.prev[s] = Null
       /\ \A t \in Slots : t # s => m.next[t] = a[t] /\ m.prev[t] = b[t]
  BY <1>4, <1>9, <1>11
<1>13. rest \in [Keys -> Seq(Slots)]
  BY <1>5 DEF Family, With, u
<1>14. ASSUME NEW j \in Keys PROVE Links(rest[j], m.next, m.prev)
  <2>1. CASE j = k
    <3>1. \A t \in ToSet(u) : m.next[t] = a[t] /\ m.prev[t] = b[t]
      BY <1>1, <1>5, <1>12
    <3> QED BY <1>6, <1>8, <2>1, <3>1, LinksFrame
  <2>2. CASE j # k
    <3>1. /\ Links(ls[j], h.next, h.prev)
          /\ ToSet(ls[j]) \subseteq Slots
          /\ ToSet(ls[j]) \cap ToSet(seq) = {}
      BY <2>2, FamilyFields DEF Family
    <3>2. \A t \in ToSet(ls[j]) : m.next[t] = h.next[t] /\ m.prev[t] = h.prev[t]
      BY <1>4, <1>10, <1>12, <3>1
    <3> QED BY <1>8, <2>2, <3>1, <3>2, LinksFrame
  <2> QED BY <2>1, <2>2
<1>15. \A j \in Keys : ToSet(rest[j]) = IF j = k THEN ToSet(seq) \ {s} ELSE ToSet(ls[j])
  <2> SUFFICES ASSUME NEW j \in Keys
               PROVE  ToSet(rest[j]) = IF j = k THEN ToSet(seq) \ {s} ELSE ToSet(ls[j])
    OBVIOUS
  <2>1. CASE j = k
    <3>1. rest[j] = u
      BY <1>8, <2>1
    <3> QED BY <1>5, <2>1, <3>1
  <2>2. CASE j # k
    <3>1. rest[j] = ls[j]
      BY <1>8, <2>2
    <3> QED BY <2>2, <3>1
  <2> QED BY <2>1, <2>2
<1>16. \A j, x \in Keys : j # x => ToSet(rest[j]) \cap ToSet(rest[x]) = {}
  BY <1>15 DEF Family
<1>17. Family(m, rest)
  BY <1>11, <1>13, <1>14, <1>16 DEF Family
<1>18. Loose(m, rest, s)
  <2>1. \A j \in Keys : j # k => s \notin ToSet(ls[j])
    BY <1>4 DEF Family
  <2> QED BY <1>12, <1>15, <2>1 DEF Loose
<1>19. ASSUME NEW t \in Slots, Loose(h, ls, t) PROVE Loose(m, rest, t)
  <2>1. t \notin ToSet(seq) /\ t # s /\ h.next[t] = Null /\ h.prev[t] = Null
        /\ \A j \in Keys : t \notin ToSet(ls[j])
    BY <1>4, <1>19 DEF Loose
  <2> QED BY <1>10, <1>12, <1>15, <2>1 DEF Loose
<1>20. First(u) = IF p = Null THEN n ELSE First(seq)
  <2>1. CASE i = 1
    <3>1. size = 1 => n = Null /\ Len(u) = 0
      BY <1>1, <1>2, <1>5, <2>1
    <3>2. size # 1 => 1 \in 1..size - 1 /\ u[1] = seq[2] /\ n = seq[2] /\ Len(u) # 0
      BY <1>1, <1>2, <1>5, <2>1
    <3> QED BY <1>2, <2>1, <3>1, <3>2 DEF First
  <2>2. CASE i # 1
    <3>1. 1 \in 1..size - 1 /\ 1 < i /\ Len(u) # 0 /\ size # 0
      BY <1>1, <1>5, <2>2
    <3>2. p # Null
      BY <1>1, <1>2, <1>3, <2>2
    <3> QED BY <1>5, <3>1, <3>2 DEF First, size
  <2> QED BY <2>1, <2>2
<1> QED BY <1>8, <1>11, <1>15, <1>17, <1>18, <1>19, <1>20 DEF Cut, s, p, n, u

Grown(h, ls, k, s, m, more) ==
  /\ Family(m, more)
  /\ \A j \in Keys : more[j] = IF j = k THEN <<s>> \o ls[k] ELSE ls[j]
  /\ ToSet(more[k]) = ToSet(ls[k]) \cup {s} /\ First(more[k]) = s
  /\ \A t \in Slots : Loose(h, ls, t) /\ t # s => Loose(m, more, t)

(* A block that is on no chain comes in at the front of one.               *)
LEMMA Inserted ==
  ASSUME NEW h, NEW ls, Family(h, ls), NEW k \in Keys, NEW s \in Slots,
         \A j \in Keys : s \notin ToSet(ls[j]),
         NEW more, more = With(ls, k, <<s>> \o ls[k]), NEW m \in Hashes,
         m.next[s] = First(ls[k]), m.prev[s] = Null,
         \A t \in Slots : t # s => m.next[t] = h.next[t],
         \A t \in Slots : t # s => m.prev[t] = IF t = First(ls[k]) THEN s ELSE h.prev[t]
  PROVE  Grown(h, ls, k, s, m, more)
<1> DEFINE seq == ls[k]
           u == <<s>> \o seq
           f == First(seq)
<1>1. /\ seq \in Seq(Slots) /\ Len(seq) \in Nat /\ ToSet(seq) \subseteq Slots
      /\ Links(seq, h.next, h.prev)
      /\ h.next \in [Slots -> Link] /\ h.prev \in [Slots -> Link]
      /\ \A x \in 1..Len(seq) : seq[x] \in Slots /\ seq[x] # Null /\ seq[x] \in ToSet(seq)
  BY FamilyFields
<1>2. f # Null => f \in ToSet(seq)
  <2>1. Len(seq) # 0 => 1 \in 1..Len(seq)
    BY <1>1
  <2> QED BY <1>1, <2>1 DEF First
<1>3. u \in Seq(Slots) /\ ToSet(u) = ToSet(seq) \cup {s} /\ First(u) = s
  <2>1. u \in Seq(Slots) /\ Len(u) = Len(seq) + 1 /\ u[1] = s
    BY <1>1, InAtFront
  <2>2. ToSet(u) = ToSet(seq) \cup {s}
    BY <1>1, FrontSet
  <2>3. Len(u) # 0
    BY <1>1, <2>1
  <2> HIDE DEF u
  <2> QED BY <2>1, <2>2, <2>3 DEF First
<1>4. \A j \in Keys : more[j] = IF j = k THEN u ELSE ls[j]
  BY DEF Family, With
<1> HIDE DEF u, f
<1>5. more \in [Keys -> Seq(Slots)]
  BY <1>3 DEF Family, With, u
<1>6. /\ m.next[s] = f /\ \A t \in Slots : t # s => m.next[t] = h.next[t]
      /\ m.prev[s] = Null /\ \A t \in Slots : t # s => m.prev[t] = IF t = f THEN s ELSE h.prev[t]
  BY <1>1 DEF f
<1>7. ASSUME NEW j \in Keys PROVE Links(more[j], m.next, m.prev)
  <2>1. CASE j = k
    <3>1. s \notin ToSet(seq)
      OBVIOUS
    <3>2. \A t \in ToSet(seq) :
            m.next[t] = h.next[t] /\ m.prev[t] = IF t = First(seq) THEN s ELSE h.prev[t]
      BY <1>1, <1>6, <3>1 DEF f
    <3>3. Links(u, m.next, m.prev)
      BY <1>1, <1>6, <3>1, <3>2, FrontOfLinks DEF f, u
    <3> QED BY <1>4, <2>1, <3>3
  <2>2. CASE j # k
    <3>1. /\ Links(ls[j], h.next, h.prev) /\ ToSet(ls[j]) \subseteq Slots
          /\ ToSet(ls[j]) \cap ToSet(seq) = {} /\ s \notin ToSet(ls[j])
      BY <2>2, FamilyFields DEF Family
    <3>2. \A t \in ToSet(ls[j]) : t \in Slots /\ t # s /\ t # f
      BY <1>2, <3>1, Constants
    <3>3. \A t \in ToSet(ls[j]) : m.next[t] = h.next[t] /\ m.prev[t] = h.prev[t]
      BY <1>6, <3>2
    <3>4. more[j] = ls[j]
      BY <1>4, <2>2
    <3>5. Links(ls[j], m.next, m.prev)
      <4>1. Links(ls[j], h.next, h.prev)
        BY <3>1
      <4> DEFINE x == ls[j]
                 n1 == h.next
                 p1 == h.prev
                 n2 == m.next
                 p2 == m.prev
      <4>2. Links(x, n1, p1) /\ \A t \in ToSet(x) : n2[t] = n1[t] /\ p2[t] = p1[t]
        BY <3>3, <4>1
      <4> HIDE DEF x, n1, p1, n2, p2
      <4>3. Links(x, n2, p2)
        BY <4>2, LinksFrame
      <4> QED BY <4>3 DEF x, n2, p2
    <3> QED BY <3>4, <3>5
  <2> QED BY <2>1, <2>2
<1>8. \A j \in Keys : ToSet(more[j]) = IF j = k THEN ToSet(seq) \cup {s} ELSE ToSet(ls[j])
  <2> SUFFICES ASSUME NEW j \in Keys
               PROVE  ToSet(more[j]) = IF j = k THEN ToSet(seq) \cup {s} ELSE ToSet(ls[j])
    OBVIOUS
  <2>1. CASE j = k
    <3>1. more[j] = u
      BY <1>4, <2>1
    <3> QED BY <1>3, <2>1, <3>1
  <2>2. CASE j # k
    <3>1. more[j] = ls[j]
      BY <1>4, <2>2
    <3> QED BY <2>2, <3>1
  <2> QED BY <2>1, <2>2
<1>9. \A j, x \in Keys : j # x => ToSet(more[j]) \cap ToSet(more[x]) = {}
  BY <1>8 DEF Family
<1>10. Family(m, more)
  BY <1>5, <1>7, <1>9 DEF Family
<1>11. ASSUME NEW t \in Slots, Loose(h, ls, t), t # s PROVE Loose(m, more, t)
  <2>1. t # f /\ h.next[t] = Null /\ h.prev[t] = Null /\ \A j \in Keys : t \notin ToSet(ls[j])
    BY <1>2, <1>11, Constants DEF Loose
  <2> QED BY <1>6, <1>8, <1>11, <2>1 DEF Loose
<1> QED BY <1>3, <1>4, <1>8, <1>10, <1>11 DEF Grown, u

-----------------------------------------------------------------------------
(* The operations on the chains and the invalid list                       *)

Chained(h, ls) == Family(h, ls) /\ Heads(h, ls)

(* What the families before and after have in common.                      *)
LostOne(h, ls, m, rest, s) ==
  /\ Chained(m, rest) /\ Loose(m, rest, s)
  /\ \A j \in Keys : \A t \in Slots : t \in ToSet(rest[j]) <=> t \in ToSet(ls[j]) /\ t # s
  /\ \A t \in Slots : Loose(h, ls, t) => Loose(m, rest, t)

GotOne(h, ls, m, more, k, s) ==
  /\ Chained(m, more)
  /\ \A j \in Keys : \A t \in Slots :
       t \in ToSet(more[j]) <=> t \in ToSet(ls[j]) \/ (j = k /\ t = s)
  /\ \A t \in Slots : Loose(h, ls, t) /\ t # s => Loose(m, more, t)

LEMMA SameLinks ==
  ASSUME NEW h, NEW ls, Family(h, ls), NEW g \in Hashes, g.next = h.next, g.prev = h.prev
  PROVE  Family(g, ls) /\ \A t : Loose(h, ls, t) => Loose(g, ls, t)
BY DEF Family, Loose

LostFrom(ls, rest, k, s) ==
  /\ ToSet(rest[k]) = ToSet(ls[k]) \ {s}
  /\ \A j \in Keys : rest[j] = IF j = k THEN rest[k] ELSE ls[j]

LEMMA OnlyThere ==
  ASSUME NEW h, NEW ls, Family(h, ls), NEW k \in Keys, NEW s \in ToSet(ls[k]),
         NEW rest, LostFrom(ls, rest, k, s)
  PROVE  \A j \in Keys : \A t \in Slots : t \in ToSet(rest[j]) <=> t \in ToSet(ls[j]) /\ t # s
<1> USE DEF LostFrom
<1> SUFFICES ASSUME NEW j \in Keys, NEW t \in Slots
             PROVE  t \in ToSet(rest[j]) <=> t \in ToSet(ls[j]) /\ t # s
  OBVIOUS
<1>1. CASE j = k
  BY <1>1
<1>2. CASE j # k
  <2>1. rest[j] = ls[j]
    BY <1>2
  <2>2. s \notin ToSet(ls[j])
    BY <1>2 DEF Family
  <2> QED BY <2>1, <2>2
<1> QED BY <1>1, <1>2

LEMMA HashRemoved ==
  ASSUME NEW h, NEW ls, Chained(h, ls), NEW d \in Dbns, NEW i \in 1..Len(ls[BucketOf[d]])
  PROVE  LostOne(h, ls, HashRemove(h, ls[BucketOf[d]][i], d),
                 With(ls, BucketOf[d], Out(ls[BucketOf[d]], i)), ls[BucketOf[d]][i])
<1> DEFINE b == BucketOf[d]
           s == ls[b][i]
           rest == With(ls, b, Out(ls[b], i))
           m == Unlink(h, s)
           g == HashRemove(h, s, d)
<1>1. b \in Buckets /\ b \in Keys /\ b # Free /\ Free \in Keys
  BY BlockListsAssumption, FreeIsNoBucket DEF Keys
<1>2. Family(h, ls) /\ Heads(h, ls) /\ s \in ToSet(ls[b]) /\ s \in Slots
  BY <1>1, FamilyFields DEF Chained
<1>3. /\ Family(m, rest) /\ m.bucket = h.bucket /\ m.invalid = h.invalid
      /\ \A j \in Keys : rest[j] = IF j = b THEN Out(ls[b], i) ELSE ls[j]
      /\ ToSet(rest[b]) = ToSet(ls[b]) \ {s}
      /\ Loose(m, rest, s)
      /\ \A t \in Slots : Loose(h, ls, t) => Loose(m, rest, t)
      /\ First(rest[b]) = IF h.prev[s] = Null THEN h.next[s] ELSE First(ls[b])
  <2>1. /\ b \in Keys /\ Family(h, ls) /\ i \in 1..Len(ls[b])
        /\ rest = With(ls, b, Out(ls[b], i)) /\ m = Unlink(h, ls[b][i])
    BY <1>1, <1>2
  <2> HIDE DEF b, rest, m
  <2>2. Cut(h, ls, b, i, m, rest)
    BY <2>1, Unlinked
  <2> QED BY <2>2 DEF Cut
<1>4. /\ h.next[s] \in Link /\ h.prev[s] \in Link /\ m \in Hashes
  BY <1>2, <1>3 DEF Family, Hashes
<1>5. g = [m EXCEPT !.bucket[b] = IF h.prev[s] = Null THEN h.next[s] ELSE @]
  BY DEF HashRemove
<1> HIDE DEF b, s, rest, m, g
<1>6. /\ g \in Hashes /\ g.next = m.next /\ g.prev = m.prev /\ g.invalid = m.invalid
      /\ g.bucket = [m.bucket EXCEPT ![b] = IF h.prev[s] = Null THEN h.next[s] ELSE @]
  BY <1>4, <1>5 DEF Hashes
<1>7. Family(g, rest) /\ \A t : Loose(m, rest, t) => Loose(g, rest, t)
  BY <1>3, <1>6, SameLinks
<1>8. Heads(g, rest)
  <2>1. g.invalid = First(rest[Free])
    BY <1>1, <1>2, <1>3, <1>6 DEF Heads
  <2>2. ASSUME NEW k \in Buckets PROVE g.bucket[k] = First(rest[k])
    <3>1. h.bucket \in [Buckets -> Link] /\ k \in Keys
      BY <1>2 DEF Family, Hashes, Keys
    <3>2. CASE k = b
      BY <1>1, <1>2, <1>3, <1>6, <3>1, <3>2 DEF Heads
    <3>3. CASE k # b
      BY <1>1, <1>2, <1>3, <1>6, <3>1, <3>3 DEF Heads
    <3> QED BY <3>2, <3>3
  <2> QED BY <2>1, <2>2 DEF Heads
<1>9. \A j \in Keys : \A t \in Slots : t \in ToSet(rest[j]) <=> t \in ToSet(ls[j]) /\ t # s
  <2>1. LostFrom(ls, rest, b, s)
    BY <1>1, <1>3 DEF LostFrom
  <2>2. Family(h, ls) /\ b \in Keys /\ s \in ToSet(ls[b])
    BY <1>1, <1>2
  <2> QED BY <2>1, <2>2, OnlyThere
<1>10. LostOne(h, ls, g, rest, s)
  BY <1>3, <1>7, <1>8, <1>9 DEF LostOne, Chained
<1> QED BY <1>10 DEF b, s, rest, g

LEMMA InvalidRemoved ==
  ASSUME NEW h, NEW ls, Chained(h, ls), NEW i \in 1..Len(ls[Free])
  PROVE  LostOne(h, ls, InvalidRemove(h, ls[Free][i]),
                 With(ls, Free, Out(ls[Free], i)), ls[Free][i])
<1> DEFINE s == ls[Free][i]
           rest == With(ls, Free, Out(ls[Free], i))
           m == Unlink(h, s)
           g == InvalidRemove(h, s)
<1>1. Free \in Keys /\ Free \notin Buckets
  BY FreeIsNoBucket DEF Keys
<1>2. Family(h, ls) /\ Heads(h, ls) /\ s \in ToSet(ls[Free]) /\ s \in Slots
  BY <1>1, FamilyFields DEF Chained
<1>3. /\ Family(m, rest) /\ m.bucket = h.bucket /\ m.invalid = h.invalid
      /\ \A j \in Keys : rest[j] = IF j = Free THEN Out(ls[Free], i) ELSE ls[j]
      /\ ToSet(rest[Free]) = ToSet(ls[Free]) \ {s}
      /\ Loose(m, rest, s)
      /\ \A t \in Slots : Loose(h, ls, t) => Loose(m, rest, t)
      /\ First(rest[Free]) = IF h.prev[s] = Null THEN h.next[s] ELSE First(ls[Free])
  <2>1. /\ Free \in Keys /\ Family(h, ls) /\ i \in 1..Len(ls[Free])
        /\ rest = With(ls, Free, Out(ls[Free], i)) /\ m = Unlink(h, ls[Free][i])
    BY <1>1, <1>2
  <2> HIDE DEF rest, m
  <2>2. Cut(h, ls, Free, i, m, rest)
    BY <2>1, Unlinked
  <2> QED BY <2>2 DEF Cut
<1>4. /\ h.next[s] \in Link /\ h.prev[s] \in Link /\ m \in Hashes
  BY <1>2, <1>3 DEF Family, Hashes
<1>5. g = [m EXCEPT !.invalid = IF h.prev[s] = Null THEN h.next[s] ELSE @]
  BY DEF InvalidRemove
<1> HIDE DEF s, rest, m, g
<1>6. /\ g \in Hashes /\ g.next = m.next /\ g.prev = m.prev /\ g.bucket = m.bucket
      /\ g.invalid = IF h.prev[s] = Null THEN h.next[s] ELSE m.invalid
  BY <1>4, <1>5 DEF Hashes
<1>7. Family(g, rest) /\ \A t : Loose(m, rest, t) => Loose(g, rest, t)
  BY <1>3, <1>6, SameLinks
<1>8. Heads(g, rest)
  <2>1. g.invalid = First(rest[Free])
    BY <1>2, <1>3, <1>6 DEF Heads
  <2>2. ASSUME NEW k \in Buckets PROVE g.bucket[k] = First(rest[k])
    <3>1. k \in Keys /\ k # Free
      BY <1>1 DEF Keys
    <3> QED BY <1>2, <1>3, <1>6, <3>1 DEF Heads
  <2> QED BY <2>1, <2>2 DEF Heads
<1>9. \A j \in Keys : \A t \in Slots : t \in ToSet(rest[j]) <=> t \in ToSet(ls[j]) /\ t # s
  <2>1. LostFrom(ls, rest, Free, s)
    BY <1>1, <1>3 DEF LostFrom
  <2>2. Family(h, ls) /\ Free \in Keys /\ s \in ToSet(ls[Free])
    BY <1>1, <1>2
  <2> QED BY <2>1, <2>2, OnlyThere
<1>10. LostOne(h, ls, g, rest, s)
  BY <1>3, <1>7, <1>8, <1>9 DEF LostOne, Chained
<1> QED BY <1>10 DEF s, rest, g

LEMMA HashInserted ==
  ASSUME NEW h, NEW ls, Chained(h, ls), NEW d \in Dbns, NEW s \in Slots,
         \A j \in Keys : s \notin ToSet(ls[j])
  PROVE  GotOne(h, ls, HashInsert(h, s, d),
                With(ls, BucketOf[d], <<s>> \o ls[BucketOf[d]]), BucketOf[d], s)
<1> DEFINE b == BucketOf[d]
           more == With(ls, b, <<s>> \o ls[b])
           f == h.bucket[b]
           m == HashInsert(h, s, d)
<1>1. b \in Buckets /\ b \in Keys /\ b # Free /\ Free \in Keys
  BY BlockListsAssumption, FreeIsNoBucket DEF Keys
<1>2. Family(h, ls) /\ Heads(h, ls) /\ h \in Hashes
  BY DEF Chained, Family
<1>3. f = First(ls[b])
  BY <1>1, <1>2 DEF Heads
<1>4. m = [h EXCEPT !.next[s] = f,
                    !.prev = IF f # Null THEN [[@ EXCEPT ![s] = Null] EXCEPT ![f] = s]
                                         ELSE [@ EXCEPT ![s] = Null],
                    !.bucket[b] = s]
  BY DEF HashInsert
<1>5. f \in Link /\ (f # Null => f \in Slots) /\ s \in Link /\ Null \in Link /\ s # Null
  BY <1>1, <1>2, Constants DEF Hashes, Link
<1>6. f # s
  <2>1. Len(ls[b]) # 0 => 1 \in 1..Len(ls[b]) /\ ls[b][1] \in ToSet(ls[b])
    BY <1>1, <1>2, FamilyFields
  <2> QED BY <1>1, <1>3, <1>5, <2>1 DEF First
<1> HIDE DEF b, more, f, m
<1>7. /\ m.next = [h.next EXCEPT ![s] = f] /\ m.invalid = h.invalid
      /\ m.prev = IF f # Null THEN [[h.prev EXCEPT ![s] = Null] EXCEPT ![f] = s]
                              ELSE [h.prev EXCEPT ![s] = Null]
      /\ m.bucket = [h.bucket EXCEPT ![b] = s]
  BY <1>2, <1>4 DEF Hashes
<1>8. /\ h.next \in [Slots -> Link] /\ h.prev \in [Slots -> Link]
      /\ h.bucket \in [Buckets -> Link] /\ h.invalid \in Link
  BY <1>2 DEF Hashes
<1>9. m \in Hashes
  <2>1. m = [next |-> m.next, prev |-> m.prev, bucket |-> m.bucket, invalid |-> m.invalid]
    BY <1>2, <1>4 DEF Hashes
  <2>2. m.next \in [Slots -> Link] /\ m.bucket \in [Buckets -> Link]
    BY <1>5, <1>7, <1>8
  <2>3. m.prev \in [Slots -> Link]
    <3>1. [h.prev EXCEPT ![s] = Null] \in [Slots -> Link]
      BY <1>5, <1>8
    <3> QED BY <1>5, <1>7, <3>1
  <2> QED BY <1>7, <1>8, <2>1, <2>2, <2>3 DEF Hashes
<1>10. m.prev[s] = Null /\ \A t \in Slots : t # s => m.prev[t] = IF t = f THEN s ELSE h.prev[t]
  BY <1>5, <1>6, <1>7, <1>8, Constants
<1>11. /\ Family(m, more)
       /\ \A j \in Keys : more[j] = IF j = b THEN <<s>> \o ls[b] ELSE ls[j]
       /\ ToSet(more[b]) = ToSet(ls[b]) \cup {s} /\ First(more[b]) = s
       /\ \A t \in Slots : Loose(h, ls, t) /\ t # s => Loose(m, more, t)
  <2>1. /\ Family(h, ls) /\ b \in Keys /\ \A j \in Keys : s \notin ToSet(ls[j])
        /\ more = With(ls, b, <<s>> \o ls[b]) /\ m \in Hashes
        /\ m.next[s] = First(ls[b]) /\ m.prev[s] = Null
        /\ \A t \in Slots : t # s => m.next[t] = h.next[t]
    BY <1>1, <1>2, <1>3, <1>7, <1>8, <1>9, <1>10 DEF more
  <2>2. \A t \in Slots : t # s => m.prev[t] = IF t = First(ls[b]) THEN s ELSE h.prev[t]
    BY <1>3, <1>10
  <2>3. Grown(h, ls, b, s, m, more)
    BY <2>1, <2>2, Inserted
  <2> QED BY <2>3 DEF Grown
<1>12. Heads(m, more)
  <2>1. m.invalid = First(more[Free])
    BY <1>1, <1>2, <1>7, <1>11 DEF Heads
  <2>2. ASSUME NEW k \in Buckets PROVE m.bucket[k] = First(more[k])
    <3>1. k \in Keys
      BY DEF Keys
    <3> QED BY <1>1, <1>2, <1>7, <1>8, <1>11, <3>1 DEF Heads
  <2> QED BY <2>1, <2>2 DEF Heads
<1>13. ASSUME NEW j \in Keys, NEW t \in Slots
       PROVE  t \in ToSet(more[j]) <=> t \in ToSet(ls[j]) \/ (j = b /\ t = s)
  <2>1. CASE j = b
    BY <1>11, <2>1
  <2>2. CASE j # b
    <3>1. more[j] = ls[j]
      BY <1>11, <2>2
    <3> QED BY <2>2, <3>1
  <2> QED BY <2>1, <2>2
<1>14. GotOne(h, ls, m, more, b, s)
  BY <1>11, <1>12, <1>13 DEF GotOne, Chained
<1> QED BY <1>14 DEF b, more, m

LEMMA InvalidInserted ==
  ASSUME NEW h, NEW ls, Chained(h, ls), NEW s \in Slots, Loose(h, ls, s)
  PROVE  GotOne(h, ls, InvalidInsert(h, s), With(ls, Free, <<s>> \o ls[Free]), Free, s)
<1> DEFINE more == With(ls, Free, <<s>> \o ls[Free])
           f == h.invalid
           m == InvalidInsert(h, s)
<1>1. Free \in Keys /\ Free \notin Buckets /\ \A j \in Keys : s \notin ToSet(ls[j])
  BY FreeIsNoBucket DEF Keys, Loose
<1>2. Family(h, ls) /\ Heads(h, ls) /\ h \in Hashes /\ h.prev[s] = Null
  BY DEF Chained, Family, Loose
<1>3. f = First(ls[Free])
  BY <1>2 DEF Heads
<1>4. m = [h EXCEPT !.next[s] = f,
                    !.prev = IF f # Null THEN [@ EXCEPT ![f] = s] ELSE @,
                    !.invalid = s]
  BY DEF InvalidInsert
<1>5. f \in Link /\ (f # Null => f \in Slots) /\ s \in Link /\ Null \in Link /\ s # Null
  BY <1>2, Constants DEF Hashes, Link
<1>6. f # s
  <2>1. Len(ls[Free]) # 0 => 1 \in 1..Len(ls[Free]) /\ ls[Free][1] \in ToSet(ls[Free])
    BY <1>1, <1>2, FamilyFields
  <2> QED BY <1>1, <1>3, <1>5, <2>1 DEF First
<1> HIDE DEF more, f, m
<1>7. /\ m.next = [h.next EXCEPT ![s] = f] /\ m.invalid = s
      /\ m.prev = IF f # Null THEN [h.prev EXCEPT ![f] = s] ELSE h.prev
      /\ m.bucket = h.bucket
  BY <1>2, <1>4 DEF Hashes
<1>8. /\ h.next \in [Slots -> Link] /\ h.prev \in [Slots -> Link]
      /\ h.bucket \in [Buckets -> Link] /\ h.invalid \in Link
  BY <1>2 DEF Hashes
<1>9. m \in Hashes
  <2>1. m = [next |-> m.next, prev |-> m.prev, bucket |-> m.bucket, invalid |-> m.invalid]
    BY <1>2, <1>4 DEF Hashes
  <2>2. m.prev \in [Slots -> Link] /\ m.next \in [Slots -> Link]
    BY <1>5, <1>7, <1>8
  <2> QED BY <1>5, <1>7, <1>8, <2>1, <2>2 DEF Hashes
<1>10. m.prev[s] = Null /\ \A t \in Slots : t # s => m.prev[t] = IF t = f THEN s ELSE h.prev[t]
  BY <1>2, <1>5, <1>6, <1>7, <1>8, Constants
<1>11. /\ Family(m, more)
       /\ \A j \in Keys : more[j] = IF j = Free THEN <<s>> \o ls[Free] ELSE ls[j]
       /\ ToSet(more[Free]) = ToSet(ls[Free]) \cup {s} /\ First(more[Free]) = s
       /\ \A t \in Slots : Loose(h, ls, t) /\ t # s => Loose(m, more, t)
  <2>1. /\ Family(h, ls) /\ Free \in Keys /\ \A j \in Keys : s \notin ToSet(ls[j])
        /\ more = With(ls, Free, <<s>> \o ls[Free]) /\ m \in Hashes
        /\ m.next[s] = First(ls[Free]) /\ m.prev[s] = Null
        /\ \A t \in Slots : t # s => m.next[t] = h.next[t]
    BY <1>1, <1>2, <1>3, <1>7, <1>8, <1>9, <1>10 DEF more
  <2>2. \A t \in Slots : t # s => m.prev[t] = IF t = First(ls[Free]) THEN s ELSE h.prev[t]
    BY <1>3, <1>10
  <2>3. Grown(h, ls, Free, s, m, more)
    BY <2>1, <2>2, Inserted
  <2> QED BY <2>3 DEF Grown
<1>12. Heads(m, more)
  <2>1. m.invalid = First(more[Free])
    BY <1>7, <1>11
  <2>2. ASSUME NEW k \in Buckets PROVE m.bucket[k] = First(more[k])
    <3>1. k \in Keys /\ k # Free
      BY <1>1 DEF Keys
    <3> QED BY <1>2, <1>7, <1>11, <3>1 DEF Heads
  <2> QED BY <2>1, <2>2 DEF Heads
<1>13. ASSUME NEW j \in Keys, NEW t \in Slots
       PROVE  t \in ToSet(more[j]) <=> t \in ToSet(ls[j]) \/ (j = Free /\ t = s)
  <2>1. CASE j = Free
    BY <1>11, <2>1
  <2>2. CASE j # Free
    <3>1. more[j] = ls[j]
      BY <1>11, <2>2
    <3> QED BY <2>2, <3>1
  <2> QED BY <2>1, <2>2
<1>14. GotOne(h, ls, m, more, Free, s)
  BY <1>11, <1>12, <1>13 DEF GotOne, Chained
<1> QED BY <1>14 DEF more, m

-----------------------------------------------------------------------------
(* The invariant                                                           *)

LruOk(hot, warm) ==
  /\ Full(lru, "hot", hot, "warm", warm)
  /\ Len(hot) = HotBlocks(hot_list_pct) /\ Len(hot) + Len(warm) = Assoc

HashedStates == {"VALID", "DIRTY", "INPROG"}

(* Each block is in the list where it belongs.                             *)
Filed(st, d, ls) ==
  \A s \in Slots :
    /\ s \in ToSet(ls[Free]) <=> st[s] = "INVALID"
    /\ \A k \in Buckets : s \in ToSet(ls[k]) <=> st[s] \in HashedStates /\ BucketOf[d[s]] = k

(* No disk block is cached twice.                                          *)
OneEach(st, d) ==
  \A s, t \in Slots :
    st[s] \in HashedStates /\ st[t] \in HashedStates /\ d[s] = d[t] => s = t

LimboIsLoose(h, ls, st) == \A s \in Slots : st[s] = "LIMBO" => Loose(h, ls, s)

Right(h, ls, st, d) ==
  Chained(h, ls) /\ Filed(st, d, ls) /\ OneEach(st, d) /\ LimboIsLoose(h, ls, st)

HashOk(ls) == Right(hash, ls, cache_state, dbn)

(* The inductive invariant: the links represent sequences, with the blocks *)
(* in them that ought to be there.                                         *)
ListsInv ==
  /\ TypeOK
  /\ \E hot, warm : LruOk(hot, warm)
  /\ \E ls : HashOk(ls)

-----------------------------------------------------------------------------
(* What a search finds                                                     *)

LEMMA MinIsLeast ==
  ASSUME NEW I \in SUBSET Nat, I # {}
  PROVE  Min(I) \in I /\ \A i \in I : Min(I) <= i
<1>1. \E x \in I : \A y \in I : x <= y
  <2> DEFINE R == OpToRel(<, Nat)
  <2>1. IsWellFoundedOn(R, Nat)
    BY NatLessThanWellFounded
  <2>2. PICK x \in I : \A y \in I : ~(<<y, x>> \in R)
    <3> HIDE DEF R
    <3> QED BY <2>1, WFMin
  <2>3. \A y \in I : x \in Nat /\ y \in Nat /\ ~(y < x)
    BY <2>2 DEF OpToRel
  <2> QED BY <2>3
<1> QED BY <1>1 DEF Min

LEMMA ChainsAreWalked ==
  ASSUME NEW h, NEW ls, Chained(h, ls)
  PROVE  FreeOf(h) = ls[Free] /\ \A k \in Buckets : ChainOf(h, k) = ls[k]
<1>1. ASSUME NEW k \in Keys PROVE Walk(First(ls[k]), h.next) = ls[k]
  BY FamilyFields, WalkFindsList DEF Chained
<1>2. h.invalid = First(ls[Free]) /\ \A k \in Buckets : h.bucket[k] = First(ls[k])
  BY DEF Chained, Heads
<1>3. Free \in Keys /\ Buckets \subseteq Keys
  BY DEF Keys
<1> QED BY <1>1, <1>2, <1>3 DEF FreeOf, ChainOf

LEMMA ListsAreWalked ==
  ASSUME NEW l, NEW q, NEW seq, NEW r, NEW other, Full(l, q, seq, r, other)
  PROVE  ListOf(l, q) = seq /\ ListOf(l, r) = other
<1>1. /\ l.next \in [Slots -> Link] /\ Links(seq, l.next, l.prev) /\ Links(other, l.next, l.prev)
      /\ l.head[q] = First(seq) /\ l.head[r] = First(other)
  BY DEF Full, Two, OnList, Lrus
<1> QED BY <1>1, WalkFindsList DEF ListOf

LEMMA LookupFinds ==
  ASSUME NEW ls, HashOk(ls), NEW d \in Dbns
  PROVE  /\ HashLookup(d) = Null => \A s \in Hashed : dbn[s] # d
         /\ HashLookup(d) # Null => HashLookup(d) \in Hashed /\ dbn[HashLookup(d)] = d
<1> DEFINE b == BucketOf[d]
           c == ls[b]
           I == {i \in 1..Len(c) : dbn[c[i]] = d}
<1>1. b \in Buckets /\ b \in Keys
  BY BlockListsAssumption DEF Keys
<1>2. /\ Chained(hash, ls) /\ Filed(cache_state, dbn, ls)
      /\ c \in Seq(Slots) /\ Len(c) \in Nat
      /\ \A i \in 1..Len(c) : c[i] \in Slots /\ c[i] # Null /\ c[i] \in ToSet(c)
  BY <1>1, FamilyFields DEF HashOk, Right, Chained
<1>3. ChainOf(hash, b) = c
  BY <1>1, <1>2, ChainsAreWalked
<1>4. HashLookup(d) = LET i == IF I # {} THEN Min(I) ELSE 0
                      IN IF i = 0 THEN Null ELSE c[i]
  BY <1>3 DEF HashLookup, SelectInSeq
<1>5. I \in SUBSET Nat /\ 0 \notin I
  BY <1>2
<1>6. ASSUME NEW s \in Hashed, dbn[s] = d PROVE I # {}
  <2>1. s \in Slots /\ cache_state[s] \in HashedStates
    BY DEF Hashed, HashedStates
  <2>2. s \in ToSet(c)
    BY <1>1, <1>2, <1>6, <2>1 DEF Filed
  <2>3. PICK i \in 1..Len(c) : c[i] = s
    BY <1>2, <2>2 DEF ToSet
  <2> QED BY <1>6, <2>3
<1>7. CASE I = {}
  <2>1. HashLookup(d) = Null
    BY <1>4, <1>7
  <2> QED BY <1>6, <1>7, <2>1
<1>8. CASE I # {}
  <2>1. Min(I) \in I /\ Min(I) # 0
    BY <1>5, <1>8, MinIsLeast
  <2>2. HashLookup(d) = c[Min(I)]
    BY <1>4, <1>8, <2>1
  <2>3. c[Min(I)] \in Slots /\ c[Min(I)] # Null /\ c[Min(I)] \in ToSet(c) /\ dbn[c[Min(I)]] = d
    BY <1>2, <2>1
  <2>4. c[Min(I)] \in Hashed
    BY <1>1, <1>2, <2>3 DEF Filed, Hashed, HashedStates
  <2> QED BY <2>2, <2>3, <2>4
<1> QED BY <1>7, <1>8

LEMMA FirstValidIsFirst ==
  ASSUME NEW seq \in Seq(Slots)
  PROVE  /\ FirstValid(seq) = 0 => \A i \in 1..Len(seq) : cache_state[seq[i]] # "VALID"
         /\ FirstValid(seq) # 0 =>
              /\ FirstValid(seq) \in 1..Len(seq)
              /\ cache_state[seq[FirstValid(seq)]] = "VALID"
              /\ \A i \in 1..Len(seq) : cache_state[seq[i]] = "VALID" => FirstValid(seq) <= i
<1> DEFINE I == {i \in 1..Len(seq) : cache_state[seq[i]] = "VALID"}
<1>1. FirstValid(seq) = IF I # {} THEN Min(I) ELSE 0
  BY DEF FirstValid, SelectInSeq
<1>2. I \in SUBSET Nat /\ 0 \notin I
  OBVIOUS
<1>3. CASE I = {}
  BY <1>1, <1>3
<1>4. CASE I # {}
  <2>1. Min(I) \in I /\ \A i \in I : Min(I) <= i
    BY <1>2, <1>4, MinIsLeast
  <2>2. FirstValid(seq) = Min(I)
    BY <1>1, <1>4
  <2> QED BY <1>2, <2>1, <2>2
<1> QED BY <1>3, <1>4

-----------------------------------------------------------------------------
(* What the invariant says of the walks                                    *)

LEMMA LinksAreLinked ==
  ASSUME NEW seq, NEW next, NEW prev, Links(seq, next, prev)
  PROVE  Linked(seq, First(seq), prev)
<1>1. seq \in Seq(Slots) /\ DOMAIN seq = 1..Len(seq)
  BY DEF Links
<1>2. IsInjective(seq)
  BY <1>1 DEF Links, IsInjective
<1>3. First(seq) = IF seq = <<>> THEN Null ELSE seq[1]
  BY <1>1 DEF First
<1>4. \A i \in DOMAIN seq : prev[seq[i]] = IF i = 1 THEN Null ELSE seq[i - 1]
  BY <1>1 DEF Links, Before
<1> QED BY <1>2, <1>3, <1>4 DEF Linked

LEMMA InvLinksLists == ListsInv => LruListsLinked
<1> SUFFICES ASSUME ListsInv PROVE LruListsLinked
  OBVIOUS
<1>1. PICK hot, warm : LruOk(hot, warm)
  BY DEF ListsInv
<1>2. Full(lru, "hot", hot, "warm", warm) /\ Full(lru, "warm", warm, "hot", hot)
  BY <1>1, FullFields DEF LruOk
<1>3. ASSUME NEW q, NEW seq, NEW r, NEW other, Full(lru, q, seq, r, other)
      PROVE  LET l == ListOf(lru, q) IN
             /\ Linked(l, lru.head[q], lru.prev)
             /\ lru.tail[q] = IF l = <<>> THEN Null ELSE Last(l)
             /\ ToSet(l) = {s \in Slots : lru.state[s] = q}
             /\ lru.blocks[q] = Len(l)
  <2>1. ListOf(lru, q) = seq
    BY <1>3, ListsAreWalked
  <2>2. /\ Links(seq, lru.next, lru.prev) /\ seq \in Seq(Slots) /\ ToSet(seq) \subseteq Slots
        /\ lru.head[q] = First(seq) /\ lru.tail[q] = Latest(seq) /\ lru.blocks[q] = Len(seq)
    BY <1>3, TwoFields DEF Full, Two, OnList
  <2>3. Linked(seq, lru.head[q], lru.prev)
    BY <2>2, LinksAreLinked
  <2>4. lru.tail[q] = IF seq = <<>> THEN Null ELSE Last(seq)
    BY <2>2 DEF Latest, Last
  <2>5. ToSet(seq) = {s \in Slots : lru.state[s] = q}
    BY <1>3, <2>2 DEF Full, Placed
  <2> QED BY <2>1, <2>2, <2>3, <2>4, <2>5
<1> QED BY <1>2, <1>3 DEF LruListsLinked, ListsInv

LEMMA InvFindsBlocks == ListsInv => EveryBlockIsFound
<1> SUFFICES ASSUME ListsInv PROVE EveryBlockIsFound
  OBVIOUS
<1>1. PICK ls : HashOk(ls)
  BY DEF ListsInv
<1>2. /\ Chained(hash, ls) /\ Filed(cache_state, dbn, ls) /\ OneEach(cache_state, dbn)
      /\ LimboIsLoose(hash, ls, cache_state) /\ Family(hash, ls) /\ Heads(hash, ls)
  BY <1>1 DEF HashOk, Right, Chained
<1>3. FreeOf(hash) = ls[Free] /\ \A k \in Buckets : ChainOf(hash, k) = ls[k]
  BY <1>2, ChainsAreWalked
<1>4. Free \in Keys /\ Buckets \subseteq Keys
  BY DEF Keys
<1>5. \A k \in Keys : Linked(ls[k], First(ls[k]), hash.prev) /\ ToSet(ls[k]) \subseteq Slots
  BY <1>2, FamilyFields, LinksAreLinked
<1>6. /\ Linked(FreeOf(hash), hash.invalid, hash.prev)
      /\ ToSet(FreeOf(hash)) = {s \in Slots : cache_state[s] = "INVALID"}
  BY <1>2, <1>3, <1>4, <1>5 DEF Heads, Filed
<1>7. ASSUME NEW k \in Buckets
      PROVE  /\ Linked(ChainOf(hash, k), hash.bucket[k], hash.prev)
             /\ ToSet(ChainOf(hash, k)) = {s \in Hashed : BucketOf[dbn[s]] = k}
  <2>1. Linked(ls[k], hash.bucket[k], hash.prev) /\ ToSet(ls[k]) \subseteq Slots
    BY <1>2, <1>4, <1>5 DEF Heads
  <2>2. ToSet(ls[k]) = {s \in Hashed : BucketOf[dbn[s]] = k}
    BY <1>2, <2>1 DEF Filed, Hashed, HashedStates
  <2> QED BY <1>3, <2>1, <2>2
<1>8. ASSUME NEW s \in Hashed PROVE HashLookup(dbn[s]) = s
  <2>1. s \in Slots /\ dbn[s] \in Dbns /\ cache_state[s] \in HashedStates
    BY DEF ListsInv, TypeOK, Hashed, HashedStates
  <2>2. HashLookup(dbn[s]) \in Hashed /\ dbn[HashLookup(dbn[s])] = dbn[s]
    BY <1>1, <2>1, LookupFinds
  <2> QED BY <1>2, <2>1, <2>2 DEF OneEach, Hashed, HashedStates
<1>9. \A s \in Slots : cache_state[s] = "LIMBO" => hash.next[s] = Null /\ hash.prev[s] = Null
  BY <1>2 DEF LimboIsLoose, Loose
<1> QED BY <1>6, <1>7, <1>8, <1>9 DEF EveryBlockIsFound

LEMMA InvKeepsSize == ListsInv => HotListKeepsItsSize
<1> SUFFICES ASSUME ListsInv PROVE HotListKeepsItsSize
  OBVIOUS
<1>1. PICK hot, warm : LruOk(hot, warm)
  BY DEF ListsInv
<1>2. lru.blocks["hot"] = Len(hot)
  BY <1>1, FullFields DEF LruOk
<1> QED BY <1>1, <1>2 DEF HotListKeepsItsSize, LruOk

-----------------------------------------------------------------------------
(* A block leaves the chains, and comes back to one: in between it is as   *)
(* if it were in limbo.                                                    *)

(* st2 and d2 differ from st and d in block s alone.                       *)
But(s, st, d, st2, d2) ==
  \A t \in Slots : t # s => st2[t] = st[t] /\ d2[t] = d[t]

LEMMA OutOfLists ==
  ASSUME NEW h, NEW ls, NEW st, NEW d, Right(h, ls, st, d), NEW s \in Slots,
         NEW m, NEW rest, LostOne(h, ls, m, rest, s),
         NEW st2, NEW d2, But(s, st, d, st2, d2), st2[s] = "LIMBO"
  PROVE  Right(m, rest, st2, d2)
<1>1. Chained(m, rest) /\ Loose(m, rest, s)
  BY DEF LostOne
<1>2. Free \in Keys /\ Buckets \subseteq Keys
  BY DEF Keys
<1>3. Filed(st2, d2, rest)
  <2> SUFFICES ASSUME NEW t \in Slots
               PROVE  /\ t \in ToSet(rest[Free]) <=> st2[t] = "INVALID"
                      /\ \A k \in Buckets :
                           t \in ToSet(rest[k]) <=> st2[t] \in HashedStates /\ BucketOf[d2[t]] = k
    BY DEF Filed
  <2>1. \A j \in Keys : t \in ToSet(rest[j]) <=> t \in ToSet(ls[j]) /\ t # s
    BY DEF LostOne
  <2>2. CASE t = s
    BY <1>2, <2>1, <2>2 DEF HashedStates
  <2>3. CASE t # s
    <3>1. st2[t] = st[t] /\ d2[t] = d[t]
      BY <2>3 DEF But
    <3>2. /\ t \in ToSet(ls[Free]) <=> st[t] = "INVALID"
          /\ \A k \in Buckets :
               t \in ToSet(ls[k]) <=> st[t] \in HashedStates /\ BucketOf[d[t]] = k
      BY DEF Right, Filed
    <3> QED BY <1>2, <2>1, <2>3, <3>1, <3>2
  <2> QED BY <2>2, <2>3
<1>4. OneEach(st2, d2)
  BY DEF Right, OneEach, But, HashedStates
<1>5. LimboIsLoose(m, rest, st2)
  BY <1>1 DEF Right, LimboIsLoose, But, LostOne
<1> QED BY <1>1, <1>3, <1>4, <1>5 DEF Right

LEMMA IntoLists ==
  ASSUME NEW h, NEW ls, NEW st, NEW d, Right(h, ls, st, d), NEW s \in Slots,
         st[s] = "LIMBO",
         NEW m, NEW more, NEW k \in Keys, GotOne(h, ls, m, more, k, s),
         NEW st2, NEW d2, But(s, st, d, st2, d2),
         \/ k = Free /\ st2[s] = "INVALID"
         \/ /\ k \in Buckets /\ BucketOf[d2[s]] = k /\ st2[s] \in HashedStates
            /\ \A t \in Slots : st[t] \in HashedStates => d[t] # d2[s]
  PROVE  Right(m, more, st2, d2)
<1>1. Chained(m, more)
  BY DEF GotOne
<1>2. Free \in Keys /\ Buckets \subseteq Keys /\ Free \notin Buckets
  BY FreeIsNoBucket DEF Keys
<1>3. Filed(st2, d2, more)
  <2> SUFFICES ASSUME NEW t \in Slots
               PROVE  /\ t \in ToSet(more[Free]) <=> st2[t] = "INVALID"
                      /\ \A b \in Buckets :
                           t \in ToSet(more[b]) <=> st2[t] \in HashedStates /\ BucketOf[d2[t]] = b
    BY DEF Filed
  <2>1. \A j \in Keys : t \in ToSet(more[j]) <=> t \in ToSet(ls[j]) \/ (j = k /\ t = s)
    BY DEF GotOne
  <2>2. /\ t \in ToSet(ls[Free]) <=> st[t] = "INVALID"
        /\ \A b \in Buckets :
             t \in ToSet(ls[b]) <=> st[t] \in HashedStates /\ BucketOf[d[t]] = b
    BY DEF Right, Filed
  <2>3. CASE t = s
    <3>1. t \notin ToSet(ls[Free]) /\ \A b \in Buckets : t \notin ToSet(ls[b])
      BY <2>2, <2>3 DEF HashedStates
    <3> QED BY <1>2, <2>1, <2>3, <3>1 DEF HashedStates
  <2>4. CASE t # s
    <3>1. st2[t] = st[t] /\ d2[t] = d[t]
      BY <2>4 DEF But
    <3> QED BY <1>2, <2>1, <2>2, <2>4, <3>1
  <2> QED BY <2>3, <2>4
<1>4. OneEach(st2, d2)
  <2> SUFFICES ASSUME NEW a \in Slots, NEW b \in Slots,
                      st2[a] \in HashedStates, st2[b] \in HashedStates, d2[a] = d2[b]
               PROVE  a = b
    BY DEF OneEach
  <2>1. \A t \in Slots : t # s => st2[t] = st[t] /\ d2[t] = d[t]
    BY DEF But
  <2>2. CASE a # s /\ b # s
    BY <2>1, <2>2 DEF Right, OneEach
  <2>3. CASE a = s /\ b # s
    BY <2>1, <2>3 DEF HashedStates
  <2>4. CASE a # s /\ b = s
    BY <2>1, <2>4 DEF HashedStates
  <2> QED BY <2>2, <2>3, <2>4
<1>5. LimboIsLoose(m, more, st2)
  <2> SUFFICES ASSUME NEW t \in Slots, st2[t] = "LIMBO" PROVE Loose(m, more, t)
    BY DEF LimboIsLoose
  <2>1. t # s
    BY DEF HashedStates
  <2>2. st[t] = "LIMBO"
    BY <2>1 DEF But
  <2>3. Loose(h, ls, t)
    BY <2>2 DEF Right, LimboIsLoose
  <2> QED BY <2>1, <2>3 DEF GotOne
<1> QED BY <1>1, <1>3, <1>4, <1>5 DEF Right

(* The four operations, on a family that is right.                         *)
LEMMA HashTakes ==
  ASSUME NEW h, NEW ls, NEW st, NEW d, Right(h, ls, st, d), NEW s \in Slots,
         st[s] \in HashedStates, d[s] \in Dbns,
         NEW st2, NEW d2, But(s, st, d, st2, d2), st2[s] = "LIMBO"
  PROVE  \E i \in 1..Len(ls[BucketOf[d[s]]]) :
           /\ ls[BucketOf[d[s]]][i] = s
           /\ Right(HashRemove(h, s, d[s]),
                    With(ls, BucketOf[d[s]], Out(ls[BucketOf[d[s]]], i)), st2, d2)
<1> DEFINE b == BucketOf[d[s]]
           m == HashRemove(h, s, d[s])
<1>1. b \in Buckets /\ b \in Keys
  BY BlockListsAssumption DEF Keys
<1>2. Chained(h, ls) /\ s \in ToSet(ls[b])
  BY <1>1 DEF Right, Filed
<1>3. ls[b] \in Seq(Slots)
  BY <1>1, <1>2, FamilyFields DEF Chained
<1>4. PICK i \in 1..Len(ls[b]) : ls[b][i] = s
  BY <1>2, <1>3 DEF ToSet
<1> DEFINE rest == With(ls, b, Out(ls[b], i))
<1>5. LostOne(h, ls, HashRemove(h, ls[b][i], d[s]), rest, ls[b][i])
  BY <1>2, HashRemoved
<1> HIDE DEF rest, m
<1>6. LostOne(h, ls, m, rest, s)
  BY <1>4, <1>5 DEF m
<1>7. Right(m, rest, st2, d2)
  BY <1>6, OutOfLists
<1> QED BY <1>4, <1>7 DEF m, rest

LEMMA InvalidTakes ==
  ASSUME NEW h, NEW ls, NEW st, NEW d, Right(h, ls, st, d), h.invalid # Null,
         NEW st2, NEW d2, But(h.invalid, st, d, st2, d2), st2[h.invalid] = "LIMBO"
  PROVE  /\ h.invalid \in Slots /\ st[h.invalid] = "INVALID"
         /\ Len(ls[Free]) # 0 /\ 1 \in 1..Len(ls[Free]) /\ ls[Free][1] = h.invalid
         /\ Right(InvalidRemove(h, h.invalid), With(ls, Free, Out(ls[Free], 1)), st2, d2)
<1> DEFINE s == h.invalid
           m == InvalidRemove(h, s)
           rest == With(ls, Free, Out(ls[Free], 1))
<1>1. Free \in Keys
  BY DEF Keys
<1>2. Chained(h, ls) /\ s = First(ls[Free]) /\ Len(ls[Free]) \in Nat
  BY <1>1, FamilyFields DEF Right, Chained, Heads
<1>3. Len(ls[Free]) # 0 /\ 1 \in 1..Len(ls[Free]) /\ ls[Free][1] = s
  BY <1>2 DEF First
<1>4. s \in Slots /\ s \in ToSet(ls[Free])
  BY <1>1, <1>2, <1>3, FamilyFields DEF Chained
<1>5. st[s] = "INVALID"
  BY <1>4 DEF Right, Filed
<1>6. LostOne(h, ls, InvalidRemove(h, ls[Free][1]), rest, ls[Free][1])
  BY <1>2, <1>3, InvalidRemoved
<1> HIDE DEF rest, m
<1>7. LostOne(h, ls, m, rest, s)
  BY <1>3, <1>6 DEF m
<1>8. Right(m, rest, st2, d2)
  BY <1>4, <1>7, OutOfLists
<1> QED BY <1>3, <1>4, <1>5, <1>8 DEF m, rest

LEMMA HashPuts ==
  ASSUME NEW h, NEW ls, NEW st, NEW d, Right(h, ls, st, d), NEW s \in Slots,
         st[s] = "LIMBO", NEW x \in Dbns, \A t \in Slots : st[t] \in HashedStates => d[t] # x,
         NEW st2, NEW d2, But(s, st, d, st2, d2), st2[s] \in HashedStates, d2[s] = x
  PROVE  Right(HashInsert(h, s, x),
               With(ls, BucketOf[x], <<s>> \o ls[BucketOf[x]]), st2, d2)
<1> DEFINE b == BucketOf[x]
           m == HashInsert(h, s, x)
           more == With(ls, b, <<s>> \o ls[b])
<1>1. b \in Buckets /\ b \in Keys
  BY BlockListsAssumption DEF Keys
<1>2. Chained(h, ls) /\ \A j \in Keys : s \notin ToSet(ls[j])
  BY DEF Right, LimboIsLoose, Loose
<1>3. GotOne(h, ls, m, more, b, s)
  BY <1>2, HashInserted
<1> HIDE DEF m, more
<1>4. Right(m, more, st2, d2)
  BY <1>1, <1>3, IntoLists
<1> QED BY <1>4 DEF m, more

LEMMA InvalidPuts ==
  ASSUME NEW h, NEW ls, NEW st, NEW d, Right(h, ls, st, d), NEW s \in Slots,
         st[s] = "LIMBO",
         NEW st2, NEW d2, But(s, st, d, st2, d2), st2[s] = "INVALID"
  PROVE  Right(InvalidInsert(h, s), With(ls, Free, <<s>> \o ls[Free]), st2, d2)
<1> DEFINE m == InvalidInsert(h, s)
           more == With(ls, Free, <<s>> \o ls[Free])
<1>1. Free \in Keys
  BY DEF Keys
<1>2. Chained(h, ls) /\ Loose(h, ls, s)
  BY DEF Right, LimboIsLoose
<1>3. GotOne(h, ls, m, more, Free, s)
  BY <1>2, InvalidInserted
<1> HIDE DEF m, more
<1>4. Right(m, more, st2, d2)
  BY <1>1, <1>3, IntoLists
<1> QED BY <1>4 DEF m, more

-----------------------------------------------------------------------------
(* What a step does to the two LRU lists                                   *)

Touched(seq, seq2) == \E i \in 1..Len(seq) : seq2 = Append(Out(seq, i), seq[i])
Resized(seq, other, seq2, other2) ==
  \E k \in 1..Len(seq) : seq2 = Rest(seq, k) /\ other2 = Over(seq, other, k)
Exchanged(hot, warm, hot2, warm2) ==
  \/ /\ Len(hot) # 0
     /\ \E i \in 1..Len(warm) : /\ hot2 = <<warm[i]>> \o Out(hot, 1)
                                /\ warm2 = Append(Out(warm, i), hot[1])
  \/ /\ Len(warm) # 0
     /\ \E i \in 1..Len(hot) : /\ hot2 = <<warm[Len(warm)]>> \o Out(hot, i)
                               /\ warm2 = Append(Out(warm, Len(warm)), hot[i])

OrderMove(hot, warm, hot2, warm2) ==
  \/ Touched(warm, warm2) /\ hot2 = hot
  \/ Touched(hot, hot2) /\ warm2 = warm
  \/ Exchanged(hot, warm, hot2, warm2)
  \/ Resized(warm, hot, warm2, hot2)
  \/ Resized(hot, warm, hot2, warm2)
  \/ hot2 = hot /\ warm2 = warm

(* The lists become hot2 and warm2, with the same blocks in the hot list.  *)
Reordered(l, hot, warm, hot2, warm2) ==
  /\ Full(l, "hot", hot2, "warm", warm2)
  /\ Len(hot2) = Len(hot) /\ Len(warm2) = Len(warm)
  /\ OrderMove(hot, warm, hot2, warm2)

LEMMA SizesKept ==
  ASSUME NEW seq \in Seq(Slots), NEW i \in 1..Len(seq), NEW s \in Slots
  PROVE  Len(Append(Out(seq, i), s)) = Len(seq) /\ Len(<<s>> \o Out(seq, i)) = Len(seq)
<1>1. Out(seq, i) \in Seq(Slots) /\ Len(Out(seq, i)) = Len(seq) - 1 /\ Len(seq) \in Nat
  BY OutIsShorter
<1> DEFINE u == Out(seq, i)
<1> HIDE DEF u
<1>2. u \in Seq(Slots) /\ Len(u) = Len(seq) - 1
  BY <1>1 DEF u
<1>3. Len(Append(u, s)) = Len(u) + 1 /\ Len(<<s>> \o u) = Len(u) + 1
  BY <1>2
<1> QED BY <1>1, <1>2, <1>3 DEF u

LEMMA TouchReorders ==
  ASSUME NEW l, NEW hot, NEW warm, Full(l, "hot", hot, "warm", warm), NEW s \in Slots
  PROVE  \E hot2, warm2 : Reordered(MoveToMru(l, s), hot, warm, hot2, warm2)
<1>1. /\ Full(l, "warm", warm, "hot", hot) /\ l.state \in [Slots -> Kinds]
      /\ hot \in Seq(Slots) /\ warm \in Seq(Slots)
  BY FullFields, TwoFields
<1> DEFINE m == MoveToMru(l, s)
<1>2. CASE l.state[s] = "hot"
  <2>1. PICK i \in 1..Len(hot) : hot[i] = s
    BY <1>2, FullFields
  <2> DEFINE hot2 == Append(Out(hot, i), hot[i])
  <2>2. Full(m, "hot", hot2, "warm", warm)
    BY <2>1, Moved
  <2>3. Len(hot2) = Len(hot) /\ Len(warm) = Len(warm)
    BY <1>1, <2>1, SizesKept
  <2>4. OrderMove(hot, warm, hot2, warm)
    BY DEF OrderMove, Touched
  <2> HIDE DEF m, hot2
  <2>5. Reordered(m, hot, warm, hot2, warm)
    BY <2>2, <2>3, <2>4 DEF Reordered
  <2> QED BY <2>5 DEF m
<1>3. CASE l.state[s] = "warm"
  <2>1. PICK i \in 1..Len(warm) : warm[i] = s
    BY <1>1, <1>3, FullFields
  <2> DEFINE warm2 == Append(Out(warm, i), warm[i])
  <2>2. Full(m, "warm", warm2, "hot", hot)
    BY <1>1, <2>1, Moved
  <2>3. Full(m, "hot", hot, "warm", warm2)
    <3> HIDE DEF m, warm2
    <3> QED BY <2>2, FullFields
  <2>6. Len(warm2) = Len(warm)
    BY <1>1, <2>1, SizesKept
  <2>4. OrderMove(hot, warm, hot, warm2)
    BY DEF OrderMove, Touched
  <2> HIDE DEF m, warm2
  <2>5. Reordered(m, hot, warm, hot, warm2)
    BY <2>3, <2>4, <2>6 DEF Reordered
  <2> QED BY <2>5 DEF m
<1> QED BY <1>1, <1>2, <1>3 DEF Kinds

LEMMA PromotionReorders ==
  ASSUME NEW l, NEW hot, NEW warm, Full(l, "hot", hot, "warm", warm), NEW s \in Slots,
         l.state[s] = "warm", l.head["hot"] # Null
  PROVE  \E hot2, warm2 : Reordered(PromoteBlock(l, s), hot, warm, hot2, warm2)
<1>1. Full(l, "warm", warm, "hot", hot) /\ hot \in Seq(Slots) /\ warm \in Seq(Slots)
  BY FullFields, TwoFields
<1>2. PICK i \in 1..Len(warm) : warm[i] = s
  BY <1>1, FullFields
<1>3. Len(hot) # 0 /\ 1 \in 1..Len(hot)
  BY <1>1, FullFields DEF First
<1> DEFINE hot2 == <<warm[i]>> \o Out(hot, 1)
           warm2 == Append(Out(warm, i), hot[1])
           m == PromoteBlock(l, s)
<1>4. Full(m, "hot", hot2, "warm", warm2)
  BY <1>2, <1>3, Promoted
<1>5. Len(hot2) = Len(hot) /\ Len(warm2) = Len(warm)
  BY <1>1, <1>2, <1>3, SizesKept
<1>6. OrderMove(hot, warm, hot2, warm2)
  BY <1>3 DEF OrderMove, Exchanged
<1> HIDE DEF hot2, warm2, m
<1>7. Reordered(m, hot, warm, hot2, warm2)
  BY <1>4, <1>5, <1>6 DEF Reordered
<1> QED BY <1>7 DEF m

LEMMA DemotionReorders ==
  ASSUME NEW l, NEW hot, NEW warm, Full(l, "hot", hot, "warm", warm), NEW s \in Slots,
         l.state[s] = "hot", l.tail["warm"] # Null
  PROVE  \E hot2, warm2 : Reordered(DemoteBlock(l, s), hot, warm, hot2, warm2)
<1>1. Full(l, "warm", warm, "hot", hot) /\ hot \in Seq(Slots) /\ warm \in Seq(Slots)
  BY FullFields, TwoFields
<1>2. PICK i \in 1..Len(hot) : hot[i] = s
  BY FullFields
<1>3. Len(warm) # 0 /\ Len(warm) \in 1..Len(warm)
  BY <1>1, FullFields DEF Latest
<1> DEFINE hot2 == <<warm[Len(warm)]>> \o Out(hot, i)
           warm2 == Append(Out(warm, Len(warm)), hot[i])
           m == DemoteBlock(l, s)
<1>4. Full(m, "hot", hot2, "warm", warm2)
  BY <1>2, <1>3, Demoted
<1>5. Len(hot2) = Len(hot) /\ Len(warm2) = Len(warm)
  BY <1>1, <1>2, <1>3, SizesKept
<1>6. OrderMove(hot, warm, hot2, warm2)
  BY <1>3 DEF OrderMove, Exchanged
<1> HIDE DEF hot2, warm2, m
<1>7. Reordered(m, hot, warm, hot2, warm2)
  BY <1>4, <1>5, <1>6 DEF Reordered
<1> QED BY <1>7 DEF m

Uses == [Slots -> 0..PromoteThresh]

LEMMA TwoReset ==
  ASSUME NEW u \in Uses, NEW s, NEW t
  PROVE  [u EXCEPT ![s] = 0, ![t] = 0] \in Uses
<1> DEFINE a == [u EXCEPT ![s] = 0]
<1>1. 0 \in 0..PromoteThresh
  BY BlockListsAssumption
<1>2. a \in Uses
  BY <1>1 DEF Uses
<1>3. [u EXCEPT ![s] = 0, ![t] = 0] = [a EXCEPT ![t] = 0]
  OBVIOUS
<1> HIDE DEF a
<1>4. [a EXCEPT ![t] = 0] \in Uses
  BY <1>1, <1>2 DEF Uses
<1> QED BY <1>3, <1>4

LEMMA AccessReorders ==
  ASSUME NEW hot, NEW warm, Full(lru, "hot", hot, "warm", warm), use_cnt \in Uses,
         NEW s \in Slots, AccessedIfLru(s)
  PROVE  /\ use_cnt' \in Uses
         /\ \E hot2, warm2 : Reordered(lru', hot, warm, hot2, warm2)
<1>1. PromoteThresh \in Nat /\ use_cnt[s] \in 0..PromoteThresh
  BY BlockListsAssumption DEF Uses
<1>2. CASE reclaim_policy # "LRU"
  <2>1. lru' = lru /\ use_cnt' = use_cnt
    BY <1>2 DEF AccessedIfLru
  <2>2. Reordered(lru, hot, warm, hot, warm)
    BY DEF Reordered, OrderMove
  <2> QED BY <2>1, <2>2
<1>3. CASE reclaim_policy = "LRU"
  <2>1. Accessed(s)
    BY <1>3 DEF AccessedIfLru
  <2>2. CASE Counts(s) /\ use_cnt[s] + 1 >= PromoteThresh /\ lru.head["hot"] # Null
    <3>1. /\ lru' = PromoteBlock(lru, s) /\ lru.state[s] = "warm"
          /\ use_cnt' = [use_cnt EXCEPT ![s] = 0, ![lru.head["hot"]] = 0]
      BY <2>1, <2>2 DEF Accessed, Counts
    <3>2. use_cnt' \in Uses
      BY <3>1, TwoReset
    <3> QED BY <2>2, <3>1, <3>2, PromotionReorders
  <2>3. CASE ~(Counts(s) /\ use_cnt[s] + 1 >= PromoteThresh /\ lru.head["hot"] # Null)
    <3>1. /\ lru' = MoveToMru(lru, s)
          /\ use_cnt' = IF Counts(s) /\ use_cnt[s] < PromoteThresh
                        THEN [use_cnt EXCEPT ![s] = @ + 1] ELSE use_cnt
      BY <2>1, <2>3 DEF Accessed
    <3>2. use_cnt' \in Uses
      <4>1. CASE Counts(s) /\ use_cnt[s] < PromoteThresh
        <5>1. use_cnt[s] + 1 \in 0..PromoteThresh
          BY <1>1, <4>1
        <5> QED BY <3>1, <4>1, <5>1 DEF Uses
      <4>2. CASE ~(Counts(s) /\ use_cnt[s] < PromoteThresh)
        BY <3>1, <4>2
      <4> QED BY <4>1, <4>2
    <3> QED BY <3>1, <3>2, TouchReorders
  <2> QED BY <2>2, <2>3
<1> QED BY <1>2, <1>3

LEMMA ReclaimReorders ==
  ASSUME NEW hot, NEW warm, Full(lru, "hot", hot, "warm", warm), use_cnt \in Uses,
         NEW v \in Slots, LruReclaimed(v)
  PROVE  /\ use_cnt' \in Uses
         /\ \E hot2, warm2 : Reordered(lru', hot, warm, hot2, warm2)
<1>1. PromoteThresh \in Nat
  BY BlockListsAssumption
<1>2. CASE lru.state[v] = "hot" /\ lru.tail["warm"] # Null
  <2>1. /\ lru' = DemoteBlock(lru, v)
        /\ use_cnt' = [use_cnt EXCEPT ![v] = 0, ![lru.tail["warm"]] = 0]
    BY <1>2 DEF LruReclaimed
  <2>2. use_cnt' \in Uses
    BY <2>1, TwoReset
  <2> QED BY <1>2, <2>1, <2>2, DemotionReorders
<1>3. CASE ~(lru.state[v] = "hot" /\ lru.tail["warm"] # Null)
  <2>1. /\ lru' = MoveToMru(lru, v)
        /\ use_cnt' = IF lru.state[v] = "warm" THEN [use_cnt EXCEPT ![v] = 0] ELSE use_cnt
    BY <1>3 DEF LruReclaimed
  <2>2. use_cnt' \in Uses
    BY <1>1, <2>1 DEF Uses
  <2> QED BY <2>1, <2>2, TouchReorders
<1> QED BY <1>2, <1>3

(* The lists as they are after the step.                                   *)
LruNext(hot, warm) ==
  /\ Full(lru', "hot", hot, "warm", warm)
  /\ Len(hot) = HotBlocks(hot_list_pct') /\ Len(hot) + Len(warm) = Assoc

LEMMA NoneMoved ==
  ASSUME NEW seq \in Seq(Slots), NEW other \in Seq(Slots)
  PROVE  Rest(seq, 0) = seq /\ Over(seq, other, 0) = other
<1>1. 0 \in 0..Len(seq) /\ Len(seq) \in Nat /\ Len(other) \in Nat
  OBVIOUS
<1> DEFINE u == Rest(seq, 0)
           v == Over(seq, other, 0)
           a == Len(seq)
           b == Len(other)
<1>2. /\ u \in Seq(Slots) /\ Len(u) = a - 0 /\ \A j \in 1..a - 0 : u[j] = seq[j + 0]
      /\ v \in Seq(Slots) /\ Len(v) = b + 0
      /\ \A j \in 1..b + 0 : v[j] = IF j <= 0 THEN seq[0 - j + 1] ELSE other[j - 0]
  BY <1>1, RestFields, OverFields
<1> HIDE DEF u, v
<1>3. /\ Len(u) = a /\ \A j \in 1..a : u[j] = seq[j]
      /\ Len(v) = b /\ \A j \in 1..b : v[j] = other[j]
  <2> HIDE DEF a, b
  <2>1. a \in Nat /\ b \in Nat
    BY <1>1 DEF a, b
  <2> QED BY <1>2, <2>1
<1>4. u = seq /\ v = other
  BY <1>2, <1>3
<1> QED BY <1>4 DEF u, v

Resizes(m, q, seq, r, other, k, seq2, other2) ==
  /\ Full(m, q, seq2, r, other2)
  /\ Len(seq2) = Len(seq) - k /\ Len(other2) = Len(other) + k
  /\ Resized(seq, other, seq2, other2) \/ (seq2 = seq /\ other2 = other)

LEMMA ShiftResizes ==
  ASSUME NEW l, NEW q, NEW seq, NEW r, NEW other, Full(l, q, seq, r, other),
         NEW k \in Nat, k <= Len(seq)
  PROVE  \E seq2, other2 : Resizes(Shift(l, q, r, k), q, seq, r, other, k, seq2, other2)
<1>1. seq \in Seq(Slots) /\ other \in Seq(Slots) /\ k \in 0..Len(seq)
  BY FullFields, TwoFields
<1> DEFINE m == Shift(l, q, r, k)
           u == Rest(seq, k)
           v == Over(seq, other, k)
<1>2. Full(m, q, u, r, v)
  BY ShiftedMany
<1>3. Len(u) = Len(seq) - k /\ Len(v) = Len(other) + k
  BY <1>1, RestFields, OverFields
<1>4. Resized(seq, other, u, v) \/ (u = seq /\ v = other)
  <2>1. CASE k = 0
    BY <1>1, <2>1, NoneMoved
  <2>2. CASE k # 0
    <3>1. k \in 1..Len(seq)
      BY <1>1, <2>2
    <3> QED BY <3>1 DEF Resized
  <2> QED BY <2>1, <2>2
<1> HIDE DEF m, u, v
<1>5. Resizes(m, q, seq, r, other, k, u, v)
  BY <1>2, <1>3, <1>4 DEF Resizes
<1> QED BY <1>5 DEF m

LEMMA RebalanceMoves ==
  ASSUME NEW hot, NEW warm, LruOk(hot, warm), use_cnt \in Uses, hot_list_pct \in HotPcts,
         NEW pct \in HotPcts, Rebalance(pct)
  PROVE  /\ use_cnt' \in Uses
         /\ \E hot2, warm2 : LruNext(hot2, warm2) /\ OrderMove(hot, warm, hot2, warm2)
<1> DEFINE new == HotBlocks(pct)
           old == HotBlocks(hot_list_pct)
<1>1. new \in 0..Assoc /\ old \in 0..Assoc /\ Assoc \in Nat
  BY BlockListsAssumption, HotBlocksFit
<1>2. /\ Full(lru, "hot", hot, "warm", warm) /\ Full(lru, "warm", warm, "hot", hot)
      /\ Len(hot) = old /\ Len(hot) + Len(warm) = Assoc
      /\ Len(hot) \in Nat /\ Len(warm) \in Nat
  BY FullFields, TwoFields DEF LruOk
<1>3. /\ lru' = IF new > old THEN Shift(lru, "warm", "hot", new - old)
                             ELSE Shift(lru, "hot", "warm", old - new)
      /\ use_cnt' = [s \in Slots |-> IF lru'.state[s] # lru.state[s] THEN 0 ELSE use_cnt[s]]
      /\ hot_list_pct' = pct
  BY DEF Rebalance
<1>4. use_cnt' \in Uses
  <2>1. 0 \in 0..PromoteThresh
    BY BlockListsAssumption
  <2>2. \A s \in Slots : (IF lru'.state[s] # lru.state[s] THEN 0 ELSE use_cnt[s])
                            \in 0..PromoteThresh
    BY <2>1 DEF Uses
  <2> QED BY <1>3, <2>2 DEF Uses
<1> HIDE DEF new, old
<1>5. CASE new > old
  <2>1. new - old \in Nat /\ new - old <= Len(warm)
    BY <1>1, <1>2, <1>5
  <2>2. PICK warm2, hot2 : Resizes(lru', "warm", warm, "hot", hot, new - old, warm2, hot2)
    BY <1>2, <1>3, <1>5, <2>1, ShiftResizes
  <2>3. Full(lru', "hot", hot2, "warm", warm2)
    BY <2>2, FullFields DEF Resizes
  <2>4. Len(hot2) = new /\ Len(hot2) + Len(warm2) = Assoc
    BY <1>1, <1>2, <2>2 DEF Resizes
  <2>5. LruNext(hot2, warm2) /\ OrderMove(hot, warm, hot2, warm2)
    BY <1>3, <2>2, <2>3, <2>4 DEF LruNext, OrderMove, Resizes, new
  <2> QED BY <1>4, <2>5
<1>6. CASE ~(new > old)
  <2>1. old - new \in Nat /\ old - new <= Len(hot)
    BY <1>1, <1>2, <1>6
  <2>2. PICK hot2, warm2 : Resizes(lru', "hot", hot, "warm", warm, old - new, hot2, warm2)
    BY <1>2, <1>3, <1>6, <2>1, ShiftResizes
  <2>3. Full(lru', "hot", hot2, "warm", warm2)
    BY <2>2 DEF Resizes
  <2>4. Len(hot2) = new /\ Len(hot2) + Len(warm2) = Assoc
    BY <1>1, <1>2, <2>2 DEF Resizes
  <2>5. LruNext(hot2, warm2) /\ OrderMove(hot, warm, hot2, warm2)
    BY <1>3, <2>2, <2>3, <2>4 DEF LruNext, OrderMove, Resizes, new
  <2> QED BY <1>4, <2>5
<1> QED BY <1>5, <1>6

-----------------------------------------------------------------------------
(* What a step does to the hash chains and the invalid list                *)

(* Block i of list j leaves it, and goes to the front of list k.           *)
Without(ls, j, i) == With(ls, j, Out(ls[j], i))
InFront(ls, k, s) == With(ls, k, <<s>> \o ls[k])

HashMove(ls, ls2) ==
  \/ ls2 = ls
  \/ \E j \in Buckets : \E i \in 1..Len(ls[j]) :
       \/ ls2 = Without(ls, j, i)
       \/ \E k \in Keys : ls2 = InFront(Without(ls, j, i), k, ls[j][i])
  \/ /\ Len(ls[Free]) # 0
     /\ \E k \in Buckets : ls2 = InFront(Without(ls, Free, 1), k, ls[Free][1])
  \/ \E s \in Slots : /\ \A k \in Keys : s \notin ToSet(ls[k])
                      /\ ls2 = InFront(ls, Free, s)

HashNext(ls) == Right(hash', ls, cache_state', dbn')

States == {"INVALID", "VALID", "DIRTY", "INPROG", "LIMBO"}

LEMMA BackAgain ==
  ASSUME NEW ls \in [Keys -> Seq(Slots)], Len(ls[Free]) # 0
  PROVE  InFront(Without(ls, Free, 1), Free, ls[Free][1]) = ls
<1> DEFINE seq == ls[Free]
           u == Out(seq, 1)
           n == Len(seq)
<1>1. seq \in Seq(Slots) /\ n \in Nat /\ n # 0 /\ 1 \in 1..n /\ seq[1] \in Slots /\ Free \in Keys
  BY DEF Keys
<1>2. /\ u \in Seq(Slots)
      /\ Len(u) = n - 1
      /\ \A i \in 1..n - 1 : u[i] = IF i < 1 THEN seq[i] ELSE seq[i + 1]
  BY <1>1, OutIsShorter
<1> DEFINE v == <<seq[1]>> \o u
           s == seq[1]
<1> HIDE DEF u, n, seq
<1>3. v \in Seq(Slots) /\ Len(v) = n /\ v[1] = s /\ \A i \in 2..n : v[i] = u[i - 1]
  <2> HIDE DEF s
  <2>1. Len(<<s>>) = 1 /\ <<s>> \in Seq(Slots) /\ <<s>>[1] = s
    BY <1>1 DEF s
  <2>2. Len(<<s>> \o u) = 1 + Len(u) /\ <<s>> \o u \in Seq(Slots)
    BY <1>2, <2>1
  <2>3. \A i \in 1..1 + Len(u) : (<<s>> \o u)[i] = IF i <= 1 THEN <<s>>[i] ELSE u[i - 1]
    BY <1>2, <2>1
  <2> QED BY <1>1, <1>2, <2>1, <2>2, <2>3 DEF s
<1>4. \A i \in 1..n : v[i] = seq[i]
  <2> SUFFICES ASSUME NEW i \in 1..n PROVE v[i] = seq[i]
    OBVIOUS
  <2>1. CASE i = 1
    BY <1>3, <2>1
  <2>2. CASE i # 1
    <3>1. i \in 2..n /\ i - 1 \in 1..n - 1 /\ ~(i - 1 < 1) /\ (i - 1) + 1 = i
      BY <1>1, <2>2
    <3> QED BY <1>2, <1>3, <3>1
  <2> QED BY <2>1, <2>2
<1>5. v = seq
  <2>1. Len(v) = Len(seq) /\ \A i \in 1..Len(seq) : v[i] = seq[i]
    BY <1>3, <1>4 DEF n
  <2>2. v \in Seq(Slots) /\ seq \in Seq(Slots)
    BY <1>1, <1>3
  <2> HIDE DEF v
  <2> QED BY <2>1, <2>2
<1>6. InFront(Without(ls, Free, 1), Free, s) = [[ls EXCEPT ![Free] = u] EXCEPT ![Free] = v]
  BY <1>1 DEF InFront, Without, With, u, v, s, seq
<1> HIDE DEF v
<1>7. [[ls EXCEPT ![Free] = u] EXCEPT ![Free] = seq] = ls
  BY <1>1 DEF seq
<1> QED BY <1>5, <1>6, <1>7 DEF s, seq

(* A free block is claimed or given back.                                  *)
LEMMA FreeClaimed ==
  ASSUME TypeOK, NEW ls, HashOk(ls), NEW d \in Dbns, MissFree(d)
  PROVE  \E ls2 : HashNext(ls2) /\ HashMove(ls, ls2)
<1> DEFINE s == hash.invalid
           st == [cache_state EXCEPT ![s] = "LIMBO"]
           m == InvalidRemove(hash, s)
           rest == Without(ls, Free, 1)
<1>1. /\ Right(hash, ls, cache_state, dbn) /\ cache_state \in [Slots -> States]
      /\ dbn \in [Slots -> Dbns \cup {Null}]
  BY DEF TypeOK, HashOk, States
<1>2. s # Null /\ HashLookup(d) = Null /\ Caller(s, d, m)
  BY DEF MissFree
<1>3. s \in Slots
  <2>1. \E s1 : s1 = s
    OBVIOUS
  <2>2. s \in Link
    BY <1>1 DEF Right, Chained, Family, Hashes
  <2> QED BY <1>2, <2>2 DEF Link
<1> HIDE DEF s
<1>4. But(s, cache_state, dbn, st, dbn) /\ st[s] = "LIMBO"
  BY <1>1, <1>3 DEF But
<1> HIDE DEF st, m, rest
<1>5. /\ cache_state[s] = "INVALID"
      /\ Len(ls[Free]) # 0 /\ 1 \in 1..Len(ls[Free]) /\ ls[Free][1] = s
      /\ Right(m, rest, st, dbn)
  BY <1>1, <1>2, <1>4, InvalidTakes DEF s, m, rest, Without
<1>6. CASE Claim(s, d, m)
  <2>1. /\ hash' = HashInsert(m, s, d)
        /\ cache_state' = [cache_state EXCEPT ![s] = "INPROG"]
        /\ dbn' = [dbn EXCEPT ![s] = d]
    BY <1>5, <1>6 DEF Claim
  <2>2. \A t \in Slots : st[t] \in HashedStates => dbn[t] # d
    <3>1. \A t \in Hashed : dbn[t] # d
      BY <1>2, LookupFinds
    <3>2. \A t \in Slots : st[t] \in HashedStates => t \in Hashed
      BY <1>1, <1>3 DEF st, HashedStates, Hashed
    <3> QED BY <3>1, <3>2
  <2>3. But(s, st, dbn, cache_state', dbn') /\ cache_state'[s] \in HashedStates /\ dbn'[s] = d
    BY <1>1, <1>3, <1>4, <2>1 DEF But, HashedStates
  <2> DEFINE ls2 == InFront(rest, BucketOf[d], s)
  <2>4. Right(HashInsert(m, s, d), ls2, cache_state', dbn')
    BY <1>3, <1>4, <1>5, <2>2, <2>3, HashPuts DEF InFront
  <2>5. HashMove(ls, ls2)
    BY <1>5, BlockListsAssumption DEF HashMove, rest
  <2> HIDE DEF ls2
  <2> QED BY <2>1, <2>4, <2>5 DEF HashNext
<1>7. CASE GiveBack(s, m)
  <2>1. hash' = InvalidInsert(m, s) /\ cache_state' = cache_state /\ dbn' = dbn
    BY <1>5, <1>7 DEF GiveBack
  <2>2. But(s, st, dbn, cache_state', dbn') /\ cache_state'[s] = "INVALID"
    BY <1>1, <1>3, <1>4, <1>5, <2>1 DEF But
  <2>3. Right(InvalidInsert(m, s), InFront(rest, Free, s), cache_state', dbn')
    BY <1>3, <1>4, <1>5, <2>2, InvalidPuts DEF InFront
  <2>4. InFront(rest, Free, s) = ls
    <3>1. ls \in [Keys -> Seq(Slots)]
      BY <1>1 DEF Right, Chained, Family
    <3> QED BY <1>5, <3>1, BackAgain DEF rest
  <2> QED BY <2>1, <2>3, <2>4 DEF HashNext, HashMove
<1> QED BY <1>2, <1>6, <1>7 DEF Caller

(* A block that was reclaimed is claimed or left where it is.              *)
LEMMA VictimClaimed ==
  ASSUME TypeOK, NEW ls, HashOk(ls), NEW d \in Dbns, HashLookup(d) = Null,
         NEW s \in Slots, cache_state[s] = "VALID", Caller(s, d, hash)
  PROVE  \E ls2 : HashNext(ls2) /\ HashMove(ls, ls2)
<1> DEFINE st == [cache_state EXCEPT ![s] = "LIMBO"]
           b == BucketOf[dbn[s]]
           m == HashRemove(hash, s, dbn[s])
<1>1. /\ Right(hash, ls, cache_state, dbn) /\ cache_state \in [Slots -> States]
      /\ dbn \in [Slots -> Dbns \cup {Null}] /\ cache_state[s] \in HashedStates
  BY DEF TypeOK, HashOk, States, HashedStates
<1>2. dbn[s] \in Dbns /\ b \in Buckets
  <2>1. s \in Hashed
    BY DEF Hashed
  <2> QED BY <1>1, <2>1, BlockListsAssumption DEF TypeOK
<1>3. But(s, cache_state, dbn, st, dbn) /\ st[s] = "LIMBO"
  BY <1>1 DEF But
<1> HIDE DEF st
<1>4. PICK i \in 1..Len(ls[b]) : ls[b][i] = s /\ Right(m, Without(ls, b, i), st, dbn)
  BY <1>1, <1>2, <1>3, HashTakes DEF Without
<1>5. CASE Claim(s, d, hash)
  <2>1. /\ hash' = HashInsert(m, s, d)
        /\ cache_state' = [cache_state EXCEPT ![s] = "INPROG"]
        /\ dbn' = [dbn EXCEPT ![s] = d]
    BY <1>5 DEF Claim
  <2> DEFINE rest == Without(ls, b, i)
             ls2 == InFront(rest, BucketOf[d], s)
  <2> HIDE DEF m
  <2>2. \A t \in Slots : st[t] \in HashedStates => dbn[t] # d
    <3>1. \A t \in Hashed : dbn[t] # d
      BY LookupFinds
    <3>2. \A t \in Slots : st[t] \in HashedStates => t \in Hashed
      BY <1>1 DEF st, HashedStates, Hashed
    <3> QED BY <3>1, <3>2
  <2>3. But(s, st, dbn, cache_state', dbn') /\ cache_state'[s] \in HashedStates /\ dbn'[s] = d
    BY <1>1, <1>3, <2>1 DEF But, HashedStates
  <2>4. Right(m, rest, st, dbn)
    BY <1>4
  <2>5. HashMove(ls, ls2)
    <3>1. BucketOf[d] \in Keys
      BY BlockListsAssumption DEF Keys
    <3> QED BY <1>2, <1>4, <3>1 DEF HashMove
  <2> HIDE DEF rest
  <2>6. Right(HashInsert(m, s, d), ls2, cache_state', dbn')
    BY <1>3, <2>2, <2>3, <2>4, HashPuts DEF InFront
  <2> HIDE DEF ls2
  <2> QED BY <2>1, <2>5, <2>6 DEF HashNext
<1>6. CASE GiveBack(s, hash)
  <2>1. hash' = hash /\ cache_state' = cache_state /\ dbn' = dbn
    BY <1>6 DEF GiveBack
  <2> QED BY <1>1, <2>1 DEF HashNext, HashMove
<1> QED BY <1>5, <1>6 DEF Caller

(* A block leaves its chain, for the invalid list or for limbo.            *)
LEMMA BlockDropped ==
  ASSUME TypeOK, NEW ls, HashOk(ls), NEW s \in Slots, Invalidate(s) \/ EnterLimbo(s)
  PROVE  \E ls2 : HashNext(ls2) /\ HashMove(ls, ls2)
<1> DEFINE st == [cache_state EXCEPT ![s] = "LIMBO"]
           b == BucketOf[dbn[s]]
           m == HashRemove(hash, s, dbn[s])
<1>1. /\ Right(hash, ls, cache_state, dbn) /\ cache_state \in [Slots -> States]
      /\ dbn \in [Slots -> Dbns \cup {Null}] /\ cache_state[s] \in HashedStates
      /\ dbn' = [dbn EXCEPT ![s] = Null]
  BY DEF TypeOK, HashOk, States, HashedStates, Invalidate, EnterLimbo
<1>2. dbn[s] \in Dbns /\ b \in Buckets
  <2>1. s \in Hashed
    BY <1>1 DEF Hashed, HashedStates
  <2> QED BY <1>1, <2>1, BlockListsAssumption DEF TypeOK
<1>3. But(s, cache_state, dbn, st, dbn') /\ st[s] = "LIMBO"
  BY <1>1 DEF But
<1> HIDE DEF st
<1>4. PICK i \in 1..Len(ls[b]) : ls[b][i] = s /\ Right(m, Without(ls, b, i), st, dbn')
  BY <1>1, <1>2, <1>3, HashTakes DEF Without
<1>5. CASE EnterLimbo(s)
  <2>1. hash' = m /\ cache_state' = st
    BY <1>5 DEF EnterLimbo, st
  <2>2. HashMove(ls, Without(ls, b, i))
    BY <1>2 DEF HashMove
  <2> QED BY <1>4, <2>1, <2>2 DEF HashNext
<1>6. CASE Invalidate(s)
  <2>1. hash' = InvalidInsert(m, s) /\ cache_state' = [cache_state EXCEPT ![s] = "INVALID"]
    BY <1>6 DEF Invalidate
  <2> DEFINE rest == Without(ls, b, i)
             ls2 == InFront(rest, Free, s)
  <2> HIDE DEF m
  <2>2. But(s, st, dbn', cache_state', dbn') /\ cache_state'[s] = "INVALID"
    BY <1>1, <1>3, <2>1 DEF But
  <2>3. Right(m, rest, st, dbn')
    BY <1>4
  <2>4. HashMove(ls, ls2)
    <3>1. Free \in Keys
      BY DEF Keys
    <3> QED BY <1>2, <1>4, <3>1 DEF HashMove
  <2> HIDE DEF rest
  <2>5. Right(InvalidInsert(m, s), ls2, cache_state', dbn')
    BY <1>3, <2>2, <2>3, InvalidPuts DEF InFront
  <2> HIDE DEF ls2
  <2> QED BY <2>1, <2>4, <2>5 DEF HashNext
<1> QED BY <1>5, <1>6

LEMMA BlockFreed ==
  ASSUME TypeOK, NEW ls, HashOk(ls), NEW s \in Slots, LeaveLimbo(s)
  PROVE  \E ls2 : HashNext(ls2) /\ HashMove(ls, ls2)
<1>1. /\ Right(hash, ls, cache_state, dbn) /\ cache_state \in [Slots -> States]
      /\ cache_state[s] = "LIMBO" /\ dbn' = dbn /\ hash' = InvalidInsert(hash, s)
      /\ cache_state' = [cache_state EXCEPT ![s] = "INVALID"]
  BY DEF TypeOK, HashOk, States, LeaveLimbo
<1>2. But(s, cache_state, dbn, cache_state', dbn') /\ cache_state'[s] = "INVALID"
  BY <1>1 DEF But
<1>3. \A k \in Keys : s \notin ToSet(ls[k])
  BY <1>1 DEF Right, LimboIsLoose, Loose
<1> DEFINE ls2 == InFront(ls, Free, s)
<1>4. Right(InvalidInsert(hash, s), ls2, cache_state', dbn')
  BY <1>1, <1>2, InvalidPuts DEF InFront
<1>5. HashMove(ls, ls2)
  BY <1>3 DEF HashMove
<1> HIDE DEF ls2
<1> QED BY <1>1, <1>4, <1>5 DEF HashNext

(* Steps that leave every block where it is hashed.                        *)
LEMMA StaysFiled ==
  ASSUME NEW ls, HashOk(ls), hash' = hash, dbn' = dbn,
         \A t \in Slots : \/ cache_state'[t] = cache_state[t]
                          \/ cache_state'[t] \in HashedStates /\ cache_state[t] \in HashedStates
  PROVE  \E ls2 : HashNext(ls2) /\ HashMove(ls, ls2)
<1>1. Right(hash, ls, cache_state, dbn)
  BY DEF HashOk
<1>2. \A t \in Slots : /\ cache_state'[t] \in HashedStates <=> cache_state[t] \in HashedStates
                       /\ cache_state'[t] = "INVALID" <=> cache_state[t] = "INVALID"
                       /\ cache_state'[t] = "LIMBO" <=> cache_state[t] = "LIMBO"
  BY DEF HashedStates
<1>3. Filed(cache_state', dbn', ls)
  BY <1>1, <1>2 DEF Right, Filed
<1>4. OneEach(cache_state', dbn')
  BY <1>1, <1>2 DEF Right, OneEach
<1>5. LimboIsLoose(hash', ls, cache_state')
  BY <1>1, <1>2 DEF Right, LimboIsLoose
<1> QED BY <1>1, <1>3, <1>4, <1>5 DEF Right, HashNext, HashMove

-----------------------------------------------------------------------------
(* The types after a step                                                  *)

BlockTypes(st, d) ==
  /\ st \in [Slots -> States]
  /\ d \in [Slots -> Dbns \cup {Null}]
  /\ \A s \in Slots : d[s] = Null <=> st[s] \notin HashedStates

LEMMA TypesSplit ==
  ASSUME TypeOK
  PROVE  BlockTypes(cache_state, dbn) /\ use_cnt \in Uses
BY DEF TypeOK, BlockTypes, States, Uses, Hashed, HashedStates

LEMMA OneBlockTyped ==
  ASSUME NEW st, NEW d, BlockTypes(st, d), NEW s \in Slots,
         NEW a \in States, NEW x \in Dbns \cup {Null}, x = Null <=> a \notin HashedStates
  PROVE  BlockTypes([st EXCEPT ![s] = a], [d EXCEPT ![s] = x])
BY DEF BlockTypes

LEMMA StateTyped ==
  ASSUME NEW st, NEW d, BlockTypes(st, d), NEW s \in Slots,
         NEW a \in States, st[s] \in HashedStates <=> a \in HashedStates
  PROVE  BlockTypes([st EXCEPT ![s] = a], d)
BY DEF BlockTypes

LEMMA TypesAfter ==
  ASSUME NEW hot, NEW warm, LruNext(hot, warm), BlockTypes(cache_state', dbn'),
         use_cnt' \in Uses, set_fifo_next' \in Slots, reclaim_policy' \in Policies,
         hot_list_pct' \in HotPcts
  PROVE  TypeOK'
<1>1. lru'.state \in [Slots -> {"hot", "warm"}]
  BY FullFields DEF LruNext, Kinds
<1>2. \A s \in Slots : dbn'[s] = Null <=> s \notin Hashed'
  BY DEF BlockTypes, Hashed, HashedStates
<1> QED BY <1>1, <1>2 DEF TypeOK, BlockTypes, States, Uses

-----------------------------------------------------------------------------
(* Every step                                                              *)

Stepped(hot, warm, ls) ==
  /\ TypeOK'
  /\ \E hot2, warm2 : LruNext(hot2, warm2) /\ OrderMove(hot, warm, hot2, warm2)
  /\ \E ls2 : HashNext(ls2) /\ HashMove(ls, ls2)

LEMMA LruUnmoved ==
  ASSUME NEW hot, NEW warm, LruOk(hot, warm), lru' = lru, hot_list_pct' = hot_list_pct
  PROVE  LruNext(hot, warm) /\ OrderMove(hot, warm, hot, warm)
BY DEF LruOk, LruNext, OrderMove

LEMMA LruReordered ==
  ASSUME NEW hot, NEW warm, LruOk(hot, warm), hot_list_pct' = hot_list_pct,
         NEW hot2, NEW warm2, Reordered(lru', hot, warm, hot2, warm2)
  PROVE  LruNext(hot2, warm2) /\ OrderMove(hot, warm, hot2, warm2)
BY DEF LruOk, LruNext, Reordered

LEMMA CallerTypes ==
  ASSUME TypeOK, NEW s \in Slots, NEW d \in Dbns, NEW h, Caller(s, d, h)
  PROVE  BlockTypes(cache_state', dbn')
<1>1. BlockTypes(cache_state, dbn)
  BY TypesSplit
<1>2. CASE Claim(s, d, h)
  <2>1. /\ cache_state' = [cache_state EXCEPT ![s] = "INPROG"]
        /\ dbn' = [dbn EXCEPT ![s] = d]
    BY <1>2 DEF Claim
  <2>2. "INPROG" \in States /\ "INPROG" \in HashedStates /\ d # Null
    BY Constants DEF States, HashedStates
  <2> QED BY <1>1, <2>1, <2>2, OneBlockTyped
<1>3. CASE GiveBack(s, h)
  BY <1>1, <1>3 DEF GiveBack
<1> QED BY <1>2, <1>3 DEF Caller

LEMMA HitSteps ==
  ASSUME ListsInv, NEW hot, NEW warm, LruOk(hot, warm), NEW ls, HashOk(ls),
         NEW d \in Dbns, Hit(d)
  PROVE  Stepped(hot, warm, ls)
<1> DEFINE s == HashLookup(d)
<1>1. TypeOK /\ BlockTypes(cache_state, dbn) /\ use_cnt \in Uses
  BY TypesSplit DEF ListsInv
<1>2. /\ s # Null /\ cache_state[s] \in {"VALID", "DIRTY"} /\ AccessedIfLru(s)
      /\ cache_state' = [cache_state EXCEPT ![s] = "INPROG"]
      /\ dbn' = dbn /\ hash' = hash /\ set_fifo_next' = set_fifo_next
      /\ reclaim_policy' = reclaim_policy /\ hot_list_pct' = hot_list_pct
  BY DEF Hit
<1>3. s \in Slots
  BY <1>2, LookupFinds DEF Hashed
<1> HIDE DEF s
<1>4. PICK hot2, warm2 : Reordered(lru', hot, warm, hot2, warm2)
  BY <1>1, <1>2, <1>3, AccessReorders DEF LruOk
<1>5. use_cnt' \in Uses
  BY <1>1, <1>2, <1>3, AccessReorders DEF LruOk
<1>6. LruNext(hot2, warm2) /\ OrderMove(hot, warm, hot2, warm2)
  BY <1>2, <1>4, LruReordered
<1>7. "INPROG" \in States /\ "INPROG" \in HashedStates /\ cache_state[s] \in HashedStates
  BY <1>2 DEF States, HashedStates
<1>8. BlockTypes(cache_state', dbn')
  BY <1>1, <1>2, <1>3, <1>7, StateTyped
<1>9. TypeOK'
  BY <1>1, <1>2, <1>5, <1>6, <1>8, TypesAfter DEF TypeOK
<1>10. \E ls2 : HashNext(ls2) /\ HashMove(ls, ls2)
  <2>1. \A t \in Slots : \/ cache_state'[t] = cache_state[t]
                         \/ cache_state'[t] \in HashedStates /\ cache_state[t] \in HashedStates
    BY <1>1, <1>2, <1>7 DEF BlockTypes
  <2> QED BY <1>2, <2>1, StaysFiled
<1> QED BY <1>6, <1>9, <1>10 DEF Stepped

LEMMA MissFreeSteps ==
  ASSUME ListsInv, NEW hot, NEW warm, LruOk(hot, warm), NEW ls, HashOk(ls),
         NEW d \in Dbns, MissFree(d)
  PROVE  Stepped(hot, warm, ls)
<1> DEFINE s == hash.invalid
           m == InvalidRemove(hash, s)
<1>1. TypeOK /\ BlockTypes(cache_state, dbn) /\ use_cnt \in Uses
  BY TypesSplit DEF ListsInv
<1>2. /\ s # Null /\ AccessedIfLru(s) /\ Caller(s, d, m)
      /\ set_fifo_next' = set_fifo_next
      /\ reclaim_policy' = reclaim_policy /\ hot_list_pct' = hot_list_pct
  BY DEF MissFree
<1>3. s \in Slots
  <2>1. s \in Link
    BY DEF HashOk, Right, Chained, Family, Hashes
  <2> QED BY <1>2, <2>1 DEF Link
<1> HIDE DEF s, m
<1>4. PICK hot2, warm2 : Reordered(lru', hot, warm, hot2, warm2)
  BY <1>1, <1>2, <1>3, AccessReorders DEF LruOk
<1>5. use_cnt' \in Uses
  BY <1>1, <1>2, <1>3, AccessReorders DEF LruOk
<1>6. LruNext(hot2, warm2) /\ OrderMove(hot, warm, hot2, warm2)
  BY <1>2, <1>4, LruReordered
<1>7. BlockTypes(cache_state', dbn')
  BY <1>1, <1>2, <1>3, CallerTypes
<1>8. TypeOK'
  BY <1>1, <1>2, <1>5, <1>6, <1>7, TypesAfter DEF TypeOK
<1>9. \E ls2 : HashNext(ls2) /\ HashMove(ls, ls2)
  BY <1>1, FreeClaimed
<1> QED BY <1>6, <1>8, <1>9 DEF Stepped

(* The block a reclaim finds is exactly VALID.                             *)
LEMMA FifoVictimIsValid ==
  ASSUME set_fifo_next \in Slots, FifoVictim # Null
  PROVE  FifoVictim \in Slots /\ cache_state[FifoVictim] = "VALID"
<1>1. Assoc \in Nat /\ Assoc # 0 /\ set_fifo_next \in 0..Assoc - 1 /\ Slots = 0..Assoc - 1
  BY Constants
<1>2. \A i \in 1..Assoc : (set_fifo_next + i - 1) % Assoc \in Slots
  BY <1>1
<1> DEFINE seq == FromHand
           i == FirstValid(seq)
<1>3. seq \in Seq(Slots)
  BY <1>1, <1>2 DEF FromHand
<1> HIDE DEF seq
<1>4. i # 0 /\ FifoVictim = seq[i]
  BY DEF FifoVictim, seq
<1>5. i \in 1..Len(seq) /\ cache_state[seq[i]] = "VALID"
  BY <1>3, <1>4, FirstValidIsFirst
<1> QED BY <1>3, <1>4, <1>5

LEMMA LruVictimIsValid ==
  ASSUME NEW hot, NEW warm, LruOk(hot, warm), LruVictim # Null
  PROVE  LruVictim \in Slots /\ cache_state[LruVictim] = "VALID"
<1>1. ListOf(lru, "warm") = warm /\ ListOf(lru, "hot") = hot
  BY ListsAreWalked DEF LruOk
<1>2. warm \in Seq(Slots) /\ hot \in Seq(Slots)
  BY FullFields, TwoFields DEF LruOk
<1> DEFINE w == FirstValid(warm)
           h == FirstValid(hot)
<1>3. LruVictim = IF w # 0 THEN warm[w] ELSE IF h # 0 THEN hot[h] ELSE Null
  BY <1>1 DEF LruVictim
<1>4. w # 0 => w \in 1..Len(warm) /\ cache_state[warm[w]] = "VALID"
  BY <1>2, FirstValidIsFirst
<1>5. h # 0 => h \in 1..Len(hot) /\ cache_state[hot[h]] = "VALID"
  BY <1>2, FirstValidIsFirst
<1> HIDE DEF w, h
<1> QED BY <1>2, <1>3, <1>4, <1>5

LEMMA MissFifoSteps ==
  ASSUME ListsInv, NEW hot, NEW warm, LruOk(hot, warm), NEW ls, HashOk(ls),
         NEW d \in Dbns, MissFifo(d)
  PROVE  Stepped(hot, warm, ls)
<1> DEFINE s == FifoVictim
<1>1. TypeOK /\ BlockTypes(cache_state, dbn) /\ use_cnt \in Uses
  BY TypesSplit DEF ListsInv
<1>2. /\ HashLookup(d) = Null /\ lru' = lru /\ use_cnt' = use_cnt
      /\ reclaim_policy' = reclaim_policy /\ hot_list_pct' = hot_list_pct
      /\ set_fifo_next' = (1 + IF s = Null THEN set_fifo_next ELSE s) % Assoc
      /\ IF s = Null THEN hash' = hash /\ cache_state' = cache_state /\ dbn' = dbn
                     ELSE Caller(s, d, hash)
  BY DEF MissFifo, AdvanceHand
<1>3. s # Null => s \in Slots /\ cache_state[s] = "VALID"
  BY <1>1, FifoVictimIsValid DEF TypeOK
<1> HIDE DEF s
<1>4. set_fifo_next' \in Slots
  <2>1. (IF s = Null THEN set_fifo_next ELSE s) \in 0..Assoc - 1 /\ Assoc \in Nat /\ Assoc # 0
    BY <1>1, <1>3, Constants DEF TypeOK
  <2> QED BY <1>2, <2>1, Constants
<1>5. LruNext(hot, warm) /\ OrderMove(hot, warm, hot, warm)
  BY <1>2, LruUnmoved
<1>6. BlockTypes(cache_state', dbn')
  BY <1>1, <1>2, <1>3, CallerTypes
<1>7. TypeOK'
  BY <1>1, <1>2, <1>4, <1>5, <1>6, TypesAfter DEF TypeOK
<1>8. \E ls2 : HashNext(ls2) /\ HashMove(ls, ls2)
  <2>1. CASE s = Null
    BY <1>2, <2>1, StaysFiled
  <2>2. CASE s # Null
    BY <1>1, <1>2, <1>3, <2>2, VictimClaimed
  <2> QED BY <2>1, <2>2
<1> QED BY <1>5, <1>7, <1>8 DEF Stepped

LEMMA MissLruSteps ==
  ASSUME ListsInv, NEW hot, NEW warm, LruOk(hot, warm), NEW ls, HashOk(ls),
         NEW d \in Dbns, MissLru(d)
  PROVE  Stepped(hot, warm, ls)
<1> DEFINE s == LruVictim
<1>1. TypeOK /\ BlockTypes(cache_state, dbn) /\ use_cnt \in Uses
  BY TypesSplit DEF ListsInv
<1>2. /\ HashLookup(d) = Null /\ s # Null /\ LruReclaimed(s) /\ Caller(s, d, hash)
      /\ set_fifo_next' = set_fifo_next
      /\ reclaim_policy' = reclaim_policy /\ hot_list_pct' = hot_list_pct
  BY DEF MissLru
<1>3. s \in Slots /\ cache_state[s] = "VALID"
  BY <1>2, LruVictimIsValid
<1> HIDE DEF s
<1>4. PICK hot2, warm2 : Reordered(lru', hot, warm, hot2, warm2)
  BY <1>1, <1>2, <1>3, ReclaimReorders DEF LruOk
<1>5. use_cnt' \in Uses
  BY <1>1, <1>2, <1>3, ReclaimReorders DEF LruOk
<1>6. LruNext(hot2, warm2) /\ OrderMove(hot, warm, hot2, warm2)
  BY <1>2, <1>4, LruReordered
<1>7. BlockTypes(cache_state', dbn')
  BY <1>1, <1>2, <1>3, CallerTypes
<1>8. TypeOK'
  BY <1>1, <1>2, <1>5, <1>6, <1>7, TypesAfter DEF TypeOK
<1>9. \E ls2 : HashNext(ls2) /\ HashMove(ls, ls2)
  BY <1>1, <1>2, <1>3, VictimClaimed
<1> QED BY <1>6, <1>8, <1>9 DEF Stepped

LEMMA BlockSteps ==
  ASSUME ListsInv, NEW hot, NEW warm, LruOk(hot, warm), NEW ls, HashOk(ls),
         NEW s \in Slots,
         IoEnds(s) \/ WriteBack(s) \/ Invalidate(s) \/ EnterLimbo(s) \/ LeaveLimbo(s)
  PROVE  Stepped(hot, warm, ls)
<1>1. TypeOK /\ BlockTypes(cache_state, dbn) /\ use_cnt \in Uses
  BY TypesSplit DEF ListsInv
<1>2. /\ lru' = lru /\ use_cnt' = use_cnt /\ set_fifo_next' = set_fifo_next
      /\ reclaim_policy' = reclaim_policy /\ hot_list_pct' = hot_list_pct
  BY DEF IoEnds, WriteBack, Invalidate, EnterLimbo, LeaveLimbo, listVars
<1>3. LruNext(hot, warm) /\ OrderMove(hot, warm, hot, warm)
  BY <1>2, LruUnmoved
<1>4. /\ BlockTypes(cache_state', dbn')
      /\ \E ls2 : HashNext(ls2) /\ HashMove(ls, ls2)
  <2>1. CASE IoEnds(s) \/ WriteBack(s)
    <3>1. /\ cache_state[s] \in HashedStates /\ dbn' = dbn /\ hash' = hash
          /\ \E a \in HashedStates : cache_state' = [cache_state EXCEPT ![s] = a]
      BY <2>1 DEF IoEnds, WriteBack, HashedStates
    <3>2. PICK a \in HashedStates : cache_state' = [cache_state EXCEPT ![s] = a]
      BY <3>1
    <3>3. a \in States
      BY DEF HashedStates, States
    <3>4. BlockTypes(cache_state', dbn')
      BY <1>1, <3>1, <3>2, <3>3, StateTyped
    <3>5. \A t \in Slots : \/ cache_state'[t] = cache_state[t]
                           \/ cache_state'[t] \in HashedStates /\ cache_state[t] \in HashedStates
      BY <1>1, <3>1, <3>2 DEF BlockTypes
    <3> QED BY <3>1, <3>4, <3>5, StaysFiled
  <2>2. CASE Invalidate(s)
    <3>1. /\ cache_state' = [cache_state EXCEPT ![s] = "INVALID"]
          /\ dbn' = [dbn EXCEPT ![s] = Null]
      BY <2>2 DEF Invalidate
    <3>2. "INVALID" \in States /\ "INVALID" \notin HashedStates
      BY DEF States, HashedStates
    <3>3. BlockTypes(cache_state', dbn')
      BY <1>1, <3>1, <3>2, OneBlockTyped
    <3> QED BY <1>1, <2>2, <3>3, BlockDropped
  <2>3. CASE EnterLimbo(s)
    <3>1. /\ cache_state' = [cache_state EXCEPT ![s] = "LIMBO"]
          /\ dbn' = [dbn EXCEPT ![s] = Null]
      BY <2>3 DEF EnterLimbo
    <3>2. "LIMBO" \in States /\ "LIMBO" \notin HashedStates
      BY DEF States, HashedStates
    <3>3. BlockTypes(cache_state', dbn')
      BY <1>1, <3>1, <3>2, OneBlockTyped
    <3> QED BY <1>1, <2>3, <3>3, BlockDropped
  <2>4. CASE LeaveLimbo(s)
    <3>1. /\ cache_state' = [cache_state EXCEPT ![s] = "INVALID"]
          /\ cache_state[s] = "LIMBO" /\ dbn' = dbn
      BY <2>4 DEF LeaveLimbo
    <3>2. /\ "INVALID" \in States /\ "INVALID" \notin HashedStates
          /\ "LIMBO" \notin HashedStates
      BY DEF States, HashedStates
    <3>3. BlockTypes(cache_state', dbn')
      BY <1>1, <3>1, <3>2, StateTyped
    <3> QED BY <1>1, <2>4, <3>3, BlockFreed
  <2> QED BY <2>1, <2>2, <2>3, <2>4
<1>5. TypeOK'
  BY <1>1, <1>2, <1>3, <1>4, TypesAfter DEF TypeOK
<1> QED BY <1>3, <1>4, <1>5 DEF Stepped

LEMMA SysctlSteps ==
  ASSUME ListsInv, NEW hot, NEW warm, LruOk(hot, warm), NEW ls, HashOk(ls),
         \/ \E p \in Policies : SetPolicy(p)
         \/ \E pct \in HotPcts : Rebalance(pct)
         \/ UNCHANGED vars
  PROVE  Stepped(hot, warm, ls)
<1>1. TypeOK /\ BlockTypes(cache_state, dbn) /\ use_cnt \in Uses
  BY TypesSplit DEF ListsInv
<1>2. /\ cache_state' = cache_state /\ dbn' = dbn /\ hash' = hash
      /\ set_fifo_next' = set_fifo_next
  BY DEF SetPolicy, Rebalance, vars
<1>3. \E ls2 : HashNext(ls2) /\ HashMove(ls, ls2)
  BY <1>2, StaysFiled
<1>4. CASE UNCHANGED vars \/ \E p \in Policies : SetPolicy(p)
  <2>1. /\ lru' = lru /\ use_cnt' = use_cnt /\ hot_list_pct' = hot_list_pct
        /\ reclaim_policy' \in Policies
    BY <1>1, <1>4 DEF vars, SetPolicy, TypeOK
  <2>2. LruNext(hot, warm) /\ OrderMove(hot, warm, hot, warm)
    BY <2>1, LruUnmoved
  <2>3. TypeOK'
    BY <1>1, <1>2, <2>1, <2>2, TypesAfter DEF TypeOK
  <2> QED BY <1>3, <2>2, <2>3 DEF Stepped
<1>5. CASE \E pct \in HotPcts : Rebalance(pct)
  <2>1. PICK pct \in HotPcts : Rebalance(pct)
    BY <1>5
  <2>2. hot_list_pct' \in HotPcts /\ reclaim_policy' = reclaim_policy
    BY <2>1 DEF Rebalance
  <2>3. hot_list_pct \in HotPcts
    BY <1>1 DEF TypeOK
  <2>4. use_cnt' \in Uses
    BY <1>1, <2>1, <2>3, RebalanceMoves
  <2>5. PICK hot2, warm2 : LruNext(hot2, warm2) /\ OrderMove(hot, warm, hot2, warm2)
    BY <1>1, <2>1, <2>3, RebalanceMoves
  <2>6. TypeOK'
    BY <1>1, <1>2, <2>2, <2>4, <2>5, TypesAfter DEF TypeOK
  <2> QED BY <1>3, <2>5, <2>6 DEF Stepped
<1> QED BY <1>4, <1>5

LEMMA EveryStep ==
  ASSUME ListsInv, NEW hot, NEW warm, LruOk(hot, warm), NEW ls, HashOk(ls), [Next]_vars
  PROVE  Stepped(hot, warm, ls)
<1>1. ASSUME NEW d \in Dbns, Hit(d) \/ MissFree(d) \/ MissFifo(d) \/ MissLru(d)
      PROVE  Stepped(hot, warm, ls)
  BY <1>1, HitSteps, MissFreeSteps, MissFifoSteps, MissLruSteps
<1>2. ASSUME NEW s \in Slots,
             IoEnds(s) \/ WriteBack(s) \/ Invalidate(s) \/ EnterLimbo(s) \/ LeaveLimbo(s)
      PROVE  Stepped(hot, warm, ls)
  BY <1>2, BlockSteps
<1>3. ASSUME \/ \E p \in Policies : SetPolicy(p)
             \/ \E pct \in HotPcts : Rebalance(pct)
             \/ UNCHANGED vars
      PROVE  Stepped(hot, warm, ls)
  BY <1>3, SysctlSteps
<1> QED BY <1>1, <1>2, <1>3 DEF Next

LEMMA ListsInvKept == ListsInv /\ [Next]_vars => ListsInv'
<1> SUFFICES ASSUME ListsInv, [Next]_vars PROVE ListsInv'
  OBVIOUS
<1>1. PICK hot, warm : LruOk(hot, warm)
  BY DEF ListsInv
<1>2. PICK ls : HashOk(ls)
  BY DEF ListsInv
<1>3. Stepped(hot, warm, ls)
  BY <1>1, <1>2, EveryStep
<1>4. PICK hot2, warm2 : LruNext(hot2, warm2)
  BY <1>3 DEF Stepped
<1>5. PICK ls2 : HashNext(ls2)
  BY <1>3 DEF Stepped
<1>6. LruOk(hot2, warm2)'
  BY <1>4 DEF LruNext, LruOk
<1>7. HashOk(ls2)'
  BY <1>5 DEF HashNext, HashOk
<1>8. TypeOK'
  BY <1>3 DEF Stepped
<1>9. (\E a, b : LruOk(a, b))' /\ (\E c : HashOk(c))'
  BY <1>6, <1>7
<1> QED BY <1>8, <1>9 DEF ListsInv

-----------------------------------------------------------------------------
(* A new cache                                                             *)

LEMMA NewChains ==
  ASSUME Init
  PROVE  \E ls : HashOk(ls)
<1> DEFINE seq == [i \in 1..Assoc |-> Assoc - i]
           ls == [k \in Keys |-> IF k = Free THEN seq ELSE <<>>]
<1>1. /\ Assoc \in Nat /\ Assoc # 0 /\ Slots = 0..Assoc - 1 /\ Null \notin Slots
      /\ \A s \in Slots : s \in Int
  BY Constants
<1>2. /\ cache_state = [s \in Slots |-> "INVALID"]
      /\ hash = [next |-> [s \in Slots |-> IF s = 0 THEN Null ELSE s - 1],
                 prev |-> [s \in Slots |-> IF s = Assoc - 1 THEN Null ELSE s + 1],
                 bucket |-> [k \in Buckets |-> Null],
                 invalid |-> Assoc - 1]
  BY DEF Init
<1>3. /\ hash.next = [s \in Slots |-> IF s = 0 THEN Null ELSE s - 1]
      /\ hash.prev = [s \in Slots |-> IF s = Assoc - 1 THEN Null ELSE s + 1]
      /\ hash.bucket = [k \in Buckets |-> Null]
      /\ hash.invalid = Assoc - 1
  BY <1>2
<1>4. hash \in Hashes
  <2>1. /\ hash.next \in [Slots -> Link] /\ hash.prev \in [Slots -> Link]
        /\ hash.bucket \in [Buckets -> Link] /\ hash.invalid \in Link
    BY <1>1, <1>3 DEF Link
  <2>2. hash = [next |-> hash.next, prev |-> hash.prev, bucket |-> hash.bucket,
                invalid |-> hash.invalid]
    BY <1>2
  <2> QED BY <2>1, <2>2 DEF Hashes
<1>5. Free \in Keys /\ Free \notin Buckets /\ Buckets \subseteq Keys
      /\ \A k \in Keys : k # Free => k \in Buckets
  BY FreeIsNoBucket DEF Keys
<1>6. seq \in Seq(Slots) /\ Len(seq) = Assoc /\ \A i \in 1..Assoc : seq[i] = Assoc - i
  BY <1>1
<1>7. ToSet(seq) = Slots
  <2>1. DOMAIN seq = 1..Assoc
    OBVIOUS
  <2>2. \A s \in Slots : Assoc - s \in 1..Assoc /\ seq[Assoc - s] = s
    BY <1>1
  <2> QED BY <1>1, <1>6, <2>1, <2>2 DEF ToSet
<1> HIDE DEF seq
<1>8. Links(seq, hash.next, hash.prev)
  <2>1. \A i, j \in 1..Assoc : seq[i] = seq[j] => i = j
    BY <1>1, <1>6
  <2>2. ASSUME NEW i \in 1..Assoc
        PROVE  hash.next[seq[i]] = After(seq, i) /\ hash.prev[seq[i]] = Before(seq, i)
    <3>1. seq[i] = Assoc - i /\ Assoc - i \in Slots
      BY <1>1, <1>6
    <3> DEFINE s == Assoc - i
    <3>2. /\ hash.next[s] = (IF s = 0 THEN Null ELSE s - 1)
          /\ hash.prev[s] = (IF s = Assoc - 1 THEN Null ELSE s + 1)
      BY <1>3, <3>1
    <3>3. After(seq, i) = IF i = Assoc THEN Null ELSE seq[i + 1]
      BY <1>6 DEF After
    <3>4. i # Assoc => i + 1 \in 1..Assoc
      BY <1>1
    <3>5. i # 1 => i - 1 \in 1..Assoc
      BY <1>1
    <3>6. After(seq, i) = IF i = Assoc THEN Null ELSE Assoc - (i + 1)
      BY <1>6, <3>3, <3>4
    <3>7. Before(seq, i) = IF i = 1 THEN Null ELSE Assoc - (i - 1)
      BY <1>6, <3>5 DEF Before
    <3>8. /\ s = 0 <=> i = Assoc
          /\ s = Assoc - 1 <=> i = 1
          /\ s - 1 = Assoc - (i + 1) /\ s + 1 = Assoc - (i - 1)
      BY <1>1
    <3> HIDE DEF s
    <3> QED BY <3>1, <3>2, <3>6, <3>7, <3>8 DEF s
  <2> QED BY <1>6, <2>1, <2>2 DEF Links
<1>9. <<>> \in Seq(Slots) /\ ToSet(<<>>) = {} /\ Len(<<>>) = 0
  BY DEF ToSet
<1>10. Links(<<>>, hash.next, hash.prev)
  BY <1>9 DEF Links
<1>11. \A k \in Keys : ls[k] = IF k = Free THEN seq ELSE <<>>
  OBVIOUS
<1>12. ls \in [Keys -> Seq(Slots)]
  BY <1>6, <1>9
<1> HIDE DEF ls
<1>13. Family(hash, ls)
  BY <1>4, <1>8, <1>9, <1>10, <1>11, <1>12 DEF Family
<1>14. Heads(hash, ls)
  <2>1. First(seq) = Assoc - 1 /\ First(<<>>) = Null
    BY <1>1, <1>6, <1>9 DEF First
  <2> QED BY <1>3, <1>5, <1>11, <2>1 DEF Heads
<1>15. Filed(cache_state, dbn, ls)
  BY <1>2, <1>5, <1>7, <1>9, <1>11 DEF Filed, HashedStates
<1>16. OneEach(cache_state, dbn) /\ LimboIsLoose(hash, ls, cache_state)
  BY <1>2 DEF OneEach, LimboIsLoose, HashedStates
<1> QED BY <1>13, <1>14, <1>15, <1>16 DEF HashOk, Right, Chained

LEMMA InitMakesLists == Init => ListsInv
<1> SUFFICES ASSUME Init PROVE ListsInv
  OBVIOUS
<1>1. hot_list_pct \in HotPcts /\ hot_list_pct \in 0..100 /\ lru = InitLists(hot_list_pct)
  BY BlockListsAssumption DEF Init
<1>2. PICK hot, warm : LruOk(hot, warm)
  BY <1>1, NewLists DEF LruOk
<1>3. TypeOK
  <2>1. lru.state \in [Slots -> {"hot", "warm"}]
    BY <1>2, FullFields DEF LruOk, Kinds
  <2>2. /\ use_cnt \in [Slots -> 0..PromoteThresh] /\ set_fifo_next \in Slots
        /\ reclaim_policy \in Policies
    BY BlockListsAssumption, Constants DEF Init
  <2>3. /\ cache_state \in [Slots -> {"INVALID", "VALID", "DIRTY", "INPROG", "LIMBO"}]
        /\ dbn \in [Slots -> Dbns \cup {Null}]
        /\ \A s \in Slots : dbn[s] = Null <=> s \notin Hashed
    BY DEF Init, Hashed
  <2> QED BY <1>1, <2>1, <2>2, <2>3 DEF TypeOK
<1> QED BY <1>2, <1>3, NewChains DEF ListsInv

(* The invariant, for a set of any size and any number of buckets.         *)
THEOREM BlockListsHold == Spec => []ListsInv
<1>1. Init => ListsInv
  BY InitMakesLists
<1>2. ListsInv /\ [Next]_vars => ListsInv'
  BY ListsInvKept
<1> QED BY <1>1, <1>2, PTL DEF Spec

(* The links of the two LRU lists are consistent, and every block is on    *)
(* the one its lru_state names: whatever is promoted, demoted, reclaimed   *)
(* or rebalanced, and in whatever order.                                   *)
THEOREM ListsStayLinked == Spec => []LruListsLinked
<1>1. ListsInv => LruListsLinked
  BY InvLinksLists
<1> QED BY <1>1, BlockListsHold, PTL

(* A lookup finds every block that is cached, and every free block can be  *)
(* taken from the invalid list.                                            *)
THEOREM BlocksAreFound == Spec => []EveryBlockIsFound
<1>1. ListsInv => EveryBlockIsFound
  BY InvFindsBlocks
<1> QED BY <1>1, BlockListsHold, PTL

(* The hot list has the size lru_hot_pct asks for.                         *)
THEOREM HotListKeepsSize == Spec => []HotListKeepsItsSize
<1>1. ListsInv => HotListKeepsItsSize
  BY InvKeepsSize
<1> QED BY <1>1, BlockListsHold, PTL

-----------------------------------------------------------------------------
(* The order in which blocks are reclaimed                                 *)

LEMMA VictimIsWarm ==
  ASSUME NEW hot, NEW warm, LruOk(hot, warm), NEW t \in Slots, LruVictim # t,
         lru.state[t] = "warm", cache_state[t] = "VALID"
  PROVE  lru.state[LruVictim] = "warm" /\ lru.tail["warm"] # LruVictim
<1>1. /\ Full(lru, "warm", warm, "hot", hot) /\ warm \in Seq(Slots) /\ Different(warm)
      /\ Len(warm) \in Nat
  BY FullFields, TwoFields DEF LruOk
<1>2. PICK i \in 1..Len(warm) : warm[i] = t
  BY <1>1, FullFields
<1> DEFINE w == FirstValid(warm)
<1>3. ListOf(lru, "warm") = warm
  BY <1>1, ListsAreWalked
<1>4. w # 0
  BY <1>1, <1>2, FirstValidIsFirst
<1>5. w \in 1..Len(warm) /\ w <= i
  BY <1>1, <1>2, <1>4, FirstValidIsFirst
<1>6. LruVictim = warm[w]
  BY <1>3, <1>4 DEF LruVictim
<1> HIDE DEF w
<1>7. w # Len(warm) /\ Len(warm) \in 1..Len(warm) /\ Len(warm) # 0
  <2>1. w # i
    BY <1>2, <1>6
  <2> QED BY <1>1, <1>5, <2>1
<1>8. lru.tail["warm"] = warm[Len(warm)] /\ lru.state[warm[w]] = "warm"
  BY <1>1, <1>5, <1>7, FullFields DEF Latest
<1>9. warm[w] # warm[Len(warm)]
  BY <1>1, <1>5, <1>7 DEF Different
<1> QED BY <1>6, <1>8, <1>9

LEMMA WarmFirst ==
  ListsInv /\ [Next]_vars =>
    \A s \in Slots :
      /\ cache_state[s] = "VALID" /\ cache_state'[s] = "INPROG" /\ dbn'[s] # dbn[s]
      /\ reclaim_policy = "LRU"
      /\ \E t \in Slots \ {s} : lru.state[t] = "warm" /\ cache_state[t] = "VALID"
      => lru.state[s] = "warm" /\ lru.tail["warm"] # s
<1> SUFFICES ASSUME ListsInv, [Next]_vars,
                    NEW s \in Slots, cache_state[s] = "VALID", cache_state'[s] = "INPROG",
                    dbn'[s] # dbn[s], reclaim_policy = "LRU",
                    NEW t \in Slots \ {s}, lru.state[t] = "warm", cache_state[t] = "VALID"
             PROVE  lru.state[s] = "warm" /\ lru.tail["warm"] # s
  OBVIOUS
<1>1. /\ cache_state \in [Slots -> States] /\ dbn \in [Slots -> Dbns \cup {Null}]
  BY DEF ListsInv, TypeOK, States
<1>2. dbn' # dbn
  OBVIOUS
<1>3. PICK hot, warm : LruOk(hot, warm)
  BY DEF ListsInv
<1>4. ASSUME NEW v \in Slots, NEW d \in Dbns, NEW h, Caller(v, d, h) PROVE s = v
  <2>1. dbn' = [dbn EXCEPT ![v] = d]
    BY <1>2, <1>4 DEF Caller, Claim, GiveBack
  <2> QED BY <1>1, <2>1
<1>5. ASSUME NEW d \in Dbns, MissLru(d) PROVE lru.state[s] = "warm" /\ lru.tail["warm"] # s
  <2>1. LruVictim \in Slots /\ Caller(LruVictim, d, hash)
    BY <1>3, <1>5, LruVictimIsValid DEF MissLru
  <2>2. s = LruVictim
    BY <1>4, <2>1
  <2> QED BY <1>3, <2>2, VictimIsWarm
<1>6. ASSUME NEW d \in Dbns, MissFree(d) PROVE FALSE
  <2>1. PICK ls : HashOk(ls)
    BY DEF ListsInv
  <2> DEFINE v == hash.invalid
             st == [cache_state EXCEPT ![v] = "LIMBO"]
  <2>2. v # Null /\ Caller(v, d, InvalidRemove(hash, v))
    BY <1>6 DEF MissFree
  <2>3. v \in Slots
    <3>1. v \in Link
      BY <2>1 DEF HashOk, Right, Chained, Family, Hashes
    <3> QED BY <2>2, <3>1 DEF Link
  <2>4. Right(hash, ls, cache_state, dbn)
    BY <2>1 DEF HashOk
  <2>5. But(v, cache_state, dbn, st, dbn) /\ st[v] = "LIMBO"
    BY <1>1, <2>3 DEF But
  <2> HIDE DEF st
  <2>6. cache_state[v] = "INVALID"
    BY <2>2, <2>4, <2>5, InvalidTakes
  <2>7. s = v
    BY <1>4, <2>2, <2>3
  <2> QED BY <2>6, <2>7
<1>7. ASSUME NEW b \in Slots,
             IoEnds(b) \/ WriteBack(b) \/ Invalidate(b) \/ EnterLimbo(b) \/ LeaveLimbo(b)
      PROVE  FALSE
  <2>1. CASE IoEnds(b) \/ WriteBack(b) \/ LeaveLimbo(b)
    BY <1>2, <2>1 DEF IoEnds, WriteBack, LeaveLimbo
  <2>2. CASE Invalidate(b) \/ EnterLimbo(b)
    <3>1. /\ dbn' = [dbn EXCEPT ![b] = Null]
          /\ \/ cache_state' = [cache_state EXCEPT ![b] = "INVALID"]
             \/ cache_state' = [cache_state EXCEPT ![b] = "LIMBO"]
      BY <2>2 DEF Invalidate, EnterLimbo
    <3>2. s = b
      BY <1>1, <3>1
    <3> QED BY <1>1, <3>1, <3>2
  <2> QED BY <1>7, <2>1, <2>2
<1>8. ASSUME NEW d \in Dbns, Hit(d) \/ MissFifo(d) PROVE FALSE
  <2>1. Hit(d)
    BY <1>8 DEF MissFifo
  <2> QED BY <1>2, <2>1 DEF Hit
<1>9. ASSUME \/ \E p \in Policies : SetPolicy(p)
             \/ \E pct \in HotPcts : Rebalance(pct)
             \/ UNCHANGED vars
      PROVE  FALSE
  BY <1>2, <1>9 DEF SetPolicy, Rebalance, vars
<1> QED BY <1>5, <1>6, <1>7, <1>8, <1>9 DEF Next

(* Reclaim under LRU never takes a hot block, nor the block used last,     *)
(* while another block can be taken from the warm list.                    *)
THEOREM WarmBlocksGoFirstAlways == Spec => WarmBlocksGoFirst
<1>1. ListsInv /\ [Next]_vars =>
        \A s \in Slots :
          /\ cache_state[s] = "VALID" /\ cache_state'[s] = "INPROG" /\ dbn'[s] # dbn[s]
          /\ reclaim_policy = "LRU"
          /\ \E t \in Slots \ {s} : lru.state[t] = "warm" /\ cache_state[t] = "VALID"
          => lru.state[s] = "warm" /\ lru.tail["warm"] # s
  BY WarmFirst
<1> QED BY <1>1, BlockListsHold, PTL DEF Spec, WarmBlocksGoFirst

-----------------------------------------------------------------------------
(* The links implement the sequences                                       *)

LEMMA PartsAreOut ==
  ASSUME NEW seq \in Seq(Slots), NEW i \in 1..Len(seq)
  PROVE  /\ RemoveAt(seq, i) = Out(seq, i)
         /\ Tail(seq) = Out(seq, 1) /\ Head(seq) = seq[1]
         /\ Front(seq) = Out(seq, Len(seq)) /\ Last(seq) = seq[Len(seq)]
<1> DEFINE n == Len(seq)
           u == Out(seq, i)
           a == SubSeq(seq, 1, i - 1)
           b == SubSeq(seq, i + 1, n)
<1>1. n \in Nat /\ i \in 1..n /\ 1 \in 1..n /\ n \in 1..n
  OBVIOUS
<1>2. ASSUME NEW j \in 1..n
      PROVE  /\ Out(seq, j) \in Seq(Slots) /\ Len(Out(seq, j)) = n - 1
             /\ \A x \in 1..n - 1 : Out(seq, j)[x] = IF x < j THEN seq[x] ELSE seq[x + 1]
  BY OutIsShorter
<1>3. RemoveAt(seq, i) = a \o b
  BY DEF RemoveAt
<1>4. a \in Seq(Slots) /\ Len(a) = i - 1 /\ \A x \in 1..i - 1 : a[x] = seq[x]
  <2>1. \A x \in 1..i - 1 : seq[x] \in Slots
    BY <1>1
  <2>2. i - 1 \in Nat /\ 1 \in Int
    BY <1>1
  <2> QED BY <2>1, <2>2
<1>5. b \in Seq(Slots) /\ Len(b) = n - i /\ \A x \in 1..n - i : b[x] = seq[i + x]
  <2>1. \A x \in i + 1..n : seq[x] \in Slots
    BY <1>1
  <2>2. b \in Seq(Slots)
    BY <1>1, <2>1
  <2>3. Len(b) = n - i
    BY <1>1, <2>1
  <2>4. \A x \in 1..n - i : b[x] = seq[i + x]
    BY <1>1, <2>1
  <2> QED BY <2>2, <2>3, <2>4
<1> HIDE DEF a, b
<1>6. /\ a \o b \in Seq(Slots) /\ Len(a \o b) = Len(a) + Len(b)
      /\ \A x \in 1..Len(a) + Len(b) : (a \o b)[x] = IF x <= Len(a) THEN a[x] ELSE b[x - Len(a)]
  <2>1. a \in Seq(Slots) /\ b \in Seq(Slots)
    BY <1>4, <1>5
  <2> QED BY <2>1
<1>7. a \o b = u
  <2> DEFINE c == a \o b
  <2>1. c \in Seq(Slots) /\ Len(c) = n - 1
    BY <1>1, <1>4, <1>5, <1>6
  <2>2. u \in Seq(Slots) /\ Len(u) = n - 1
        /\ \A x \in 1..n - 1 : u[x] = IF x < i THEN seq[x] ELSE seq[x + 1]
    BY <1>2
  <2>3. ASSUME NEW x \in 1..n - 1 PROVE c[x] = u[x]
    <3>1. x \in 1..Len(a) + Len(b)
      BY <1>1, <1>4, <1>5
    <3>2. c[x] = IF x <= i - 1 THEN a[x] ELSE b[x - (i - 1)]
      BY <1>4, <1>6, <3>1
    <3>3. CASE x < i
      <4>1. x <= i - 1 /\ x \in 1..i - 1
        BY <1>1, <3>3
      <4> QED BY <1>4, <2>2, <3>2, <3>3, <4>1
    <3>4. CASE ~(x < i)
      <4>1. ~(x <= i - 1) /\ x - (i - 1) \in 1..n - i /\ i + (x - (i - 1)) = x + 1
        BY <1>1, <3>4
      <4> QED BY <1>5, <2>2, <3>2, <3>4, <4>1
    <3> QED BY <3>3, <3>4
  <2> HIDE DEF c, u, n
  <2>4. c = u
    BY <2>1, <2>2, <2>3
  <2> QED BY <2>4 DEF c
<1>8. Tail(seq) = Out(seq, 1)
  <2> DEFINE t == Tail(seq)
             o == Out(seq, 1)
  <2>1. t \in Seq(Slots) /\ Len(t) = n - 1 /\ \A x \in 1..n - 1 : t[x] = seq[x + 1]
    BY <1>1
  <2>2. /\ o \in Seq(Slots) /\ Len(o) = n - 1
        /\ \A x \in 1..n - 1 : o[x] = IF x < 1 THEN seq[x] ELSE seq[x + 1]
    BY <1>1, <1>2
  <2>3. \A x \in 1..n - 1 : t[x] = o[x]
    BY <1>1, <2>1, <2>2
  <2> HIDE DEF t, o, n
  <2>4. t = o
    BY <2>1, <2>2, <2>3
  <2> QED BY <2>4 DEF t, o
<1>9. Front(seq) = Out(seq, n)
  <2> DEFINE t == SubSeq(seq, 1, n - 1)
             o == Out(seq, n)
  <2>1. t \in Seq(Slots) /\ Len(t) = n - 1 /\ \A x \in 1..n - 1 : t[x] = seq[x]
    <3>1. \A x \in 1..n - 1 : seq[x] \in Slots
      BY <1>1
    <3>2. t \in Seq(Slots)
      BY <1>1, <3>1
    <3>3. Len(t) = n - 1
      <4>1. 1 \in Int /\ n - 1 \in Int /\ n - 1 >= 0
        BY <1>1
      <4>2. Len(t) = IF 1 <= n - 1 THEN (n - 1) - 1 + 1 ELSE 0
        BY <3>1, <4>1
      <4> HIDE DEF t, n
      <4> QED BY <1>1, <4>1, <4>2
    <3>4. \A x \in 1..n - 1 : t[x] = seq[x]
      BY <1>1, <3>1
    <3> QED BY <3>2, <3>3, <3>4
  <2>2. /\ o \in Seq(Slots) /\ Len(o) = n - 1
        /\ \A x \in 1..n - 1 : o[x] = IF x < n THEN seq[x] ELSE seq[x + 1]
    BY <1>1, <1>2
  <2>3. \A x \in 1..n - 1 : t[x] = o[x]
    BY <1>1, <2>1, <2>2
  <2>4. Front(seq) = t
    BY DEF Front
  <2> HIDE DEF t, o, n
  <2>5. t = o
    BY <2>1, <2>2, <2>3
  <2> QED BY <2>4, <2>5 DEF o
<1>10. Head(seq) = seq[1] /\ Last(seq) = seq[n]
  BY <1>1 DEF Last
<1> QED BY <1>3, <1>7, <1>8, <1>9, <1>10 DEF n

(* The operators on sequences are those of BlockOrder.                     *)
LEMMA SameOperators ==
  /\ \A seq, i : Order!RemoveAt(seq, i) = RemoveAt(seq, i)
  /\ \A seq : /\ Order!Reverse(seq) = Reverse(seq) /\ Order!Front(seq) = Front(seq)
              /\ Order!Last(seq) = Last(seq) /\ Order!ToSet(seq) = ToSet(seq)
              /\ Order!IsInjective(seq) <=> IsInjective(seq)
BY DEF Order!RemoveAt, RemoveAt, Order!Reverse, Reverse, Order!Front, Front, Order!Last, Last,
       Order!ToSet, ToSet, Order!IsInjective, IsInjective

LEMMA OrderMoveIsStep ==
  ASSUME NEW hot \in Seq(Slots), NEW warm \in Seq(Slots), NEW hot2, NEW warm2,
         OrderMove(hot, warm, hot2, warm2),
         ListOf(lru, "hot") = hot, ListOf(lru, "warm") = warm,
         ListOf(lru, "hot")' = hot2, ListOf(lru, "warm")' = warm2
  PROVE  Order!OrderStep
<1>1. DOMAIN hot = 1..Len(hot) /\ DOMAIN warm = 1..Len(warm)
  OBVIOUS
<1>2. \A i \in 1..Len(hot) : Order!RemoveAt(hot, i) = Out(hot, i)
  BY PartsAreOut, SameOperators
<1>3. \A i \in 1..Len(warm) : Order!RemoveAt(warm, i) = Out(warm, i)
  BY PartsAreOut, SameOperators
<1>4. Len(hot) # 0 => hot # <<>> /\ Tail(hot) = Out(hot, 1) /\ Head(hot) = hot[1]
  <2>1. Len(hot) # 0 => 1 \in 1..Len(hot)
    OBVIOUS
  <2>2. Len(hot) # 0 => Tail(hot) = Out(hot, 1) /\ Head(hot) = hot[1]
    BY <2>1, PartsAreOut
  <2> QED BY <2>2
<1>5. Len(warm) # 0 => /\ warm # <<>> /\ Order!Front(warm) = Out(warm, Len(warm))
                       /\ Order!Last(warm) = warm[Len(warm)]
  <2>1. Len(warm) # 0 => Len(warm) \in 1..Len(warm)
    OBVIOUS
  <2>2. Len(warm) # 0 => /\ Front(warm) = Out(warm, Len(warm))
                         /\ Last(warm) = warm[Len(warm)]
    BY <2>1, PartsAreOut
  <2> QED BY <2>2, SameOperators
<1>6. CASE (Touched(warm, warm2) /\ hot2 = hot) \/ (Touched(hot, hot2) /\ warm2 = warm)
  <2>1. Order!Touch
    BY <1>1, <1>2, <1>3, <1>6 DEF Touched, Order!Touch
  <2> QED BY <2>1 DEF Order!OrderStep
<1>7. CASE Exchanged(hot, warm, hot2, warm2)
  <2>1. Order!Promote \/ Order!Demote
    BY <1>1, <1>2, <1>3, <1>4, <1>5, <1>7 DEF Exchanged, Order!Promote, Order!Demote
  <2> QED BY <2>1 DEF Order!OrderStep
<1>8. CASE Resized(warm, hot, warm2, hot2) \/ Resized(hot, warm, hot2, warm2)
  <2>1. Order!Resize
    BY <1>8, SameOperators DEF Resized, Rest, Over, Order!Resize
  <2> QED BY <2>1 DEF Order!OrderStep
<1>9. CASE hot2 = hot /\ warm2 = warm
  BY <1>9 DEF Order!OrderStep
<1> QED BY <1>6, <1>7, <1>8, <1>9 DEF OrderMove

TakenOut(ls, j, i) ==
  \A k \in Keys : Without(ls, j, i)[k] = IF k = j THEN Out(ls[j], i) ELSE ls[k]

LEMMA OutOfOne ==
  ASSUME NEW ls \in [Keys -> Seq(Slots)], NEW j \in Keys, NEW i \in 1..Len(ls[j])
  PROVE  TakenOut(ls, j, i)
BY DEF TakenOut, Without, With

LEMMA MovedFields ==
  ASSUME NEW ls \in [Keys -> Seq(Slots)], NEW j \in Keys, NEW i \in 1..Len(ls[j])
  PROVE  /\ Without(ls, j, i) \in [Keys -> Seq(Slots)] /\ ls[j][i] \in Slots
         /\ \A k \in Keys : Without(ls, j, i)[k] = IF k = j THEN Out(ls[j], i) ELSE ls[k]
         /\ \A b \in Keys, k \in Keys :
              InFront(Without(ls, j, i), b, ls[j][i])[k] =
                IF k = b THEN <<ls[j][i]>> \o Without(ls, j, i)[k] ELSE Without(ls, j, i)[k]
<1>1. ls[j] \in Seq(Slots) /\ ls[j][i] \in Slots
  OBVIOUS
<1>2. Out(ls[j], i) \in Seq(Slots)
  BY <1>1, OutIsShorter
<1> DEFINE rest == Without(ls, j, i)
<1>3. rest \in [Keys -> Seq(Slots)] /\ \A k \in Keys : rest[k] = IF k = j THEN Out(ls[j], i) ELSE ls[k]
  BY <1>2 DEF Without, With
<1> HIDE DEF rest
<1>4. \A b \in Keys, k \in Keys :
        InFront(rest, b, ls[j][i])[k] = IF k = b THEN <<ls[j][i]>> \o rest[k] ELSE rest[k]
  BY <1>3 DEF InFront, With
<1> QED BY <1>1, <1>3, <1>4 DEF rest

LEMMA HashMoveIsStep ==
  ASSUME NEW ls \in [Keys -> Seq(Slots)], NEW ls2, HashMove(ls, ls2),
         FreeOf(hash) = ls[Free], FreeOf(hash)' = ls2[Free],
         NEW c, c = [k \in Buckets |-> ls[k]], NEW c2, c2 = [k \in Buckets |-> ls2[k]],
         [k \in Buckets |-> ChainOf(hash, k)] = c,
         [k \in Buckets |-> ChainOf(hash, k)]' = c2,
         \A s \in Slots : s \in Order!ToSet(ListOf(lru, "hot")) \cup Order!ToSet(ListOf(lru, "warm"))
  PROVE  Order!IdentityStep
<1>1. /\ Free \in Keys /\ Free \notin Buckets /\ Buckets \subseteq Keys
      /\ \A k \in Keys : k # Free => k \in Buckets
  BY FreeIsNoBucket DEF Keys
<1>2. \A k \in Buckets : c[k] = ls[k] /\ c2[k] = ls2[k] /\ c[k] \in Seq(Slots)
  BY <1>1
<1>3. \A j \in Keys : \A i \in 1..Len(ls[j]) : Order!RemoveAt(ls[j], i) = Out(ls[j], i)
  BY PartsAreOut, SameOperators
<1>4. CASE ls2 = ls
  <2>1. c2 = c
    BY <1>4
  <2> QED BY <1>4, <2>1 DEF Order!IdentityStep
<1>5. ASSUME NEW j \in Buckets, NEW i \in 1..Len(ls[j]), ls2 = Without(ls, j, i)
      PROVE  Order!IdentityStep
  <2>1. \A k \in Keys : ls2[k] = IF k = j THEN Out(ls[j], i) ELSE ls[k]
    <3>1. j \in Keys
      BY <1>1
    <3>2. TakenOut(ls, j, i)
      BY <3>1, OutOfOne
    <3> QED BY <1>5, <3>2 DEF TakenOut
  <2>2. c2 = [c EXCEPT ![j] = Order!RemoveAt(@, i)]
    BY <1>1, <1>2, <1>3, <2>1
  <2>3. ls2[Free] = ls[Free]
    BY <1>1, <2>1
  <2>4. i \in DOMAIN c[j]
    BY <1>2
  <2>5. Order!Unhash(j, i)
    BY <2>2 DEF Order!Unhash
  <2>6. Order!EnterLimbo
    BY <2>3, <2>4, <2>5 DEF Order!EnterLimbo
  <2> QED BY <2>6 DEF Order!IdentityStep
<1>6. ASSUME NEW j \in Buckets, NEW i \in 1..Len(ls[j]), NEW b \in Keys,
             ls2 = InFront(Without(ls, j, i), b, ls[j][i])
      PROVE  Order!IdentityStep
  <2> DEFINE s == ls[j][i]
             r == [c EXCEPT ![j] = Order!RemoveAt(@, i)]
  <2>1. /\ \A k \in Keys : Without(ls, j, i)[k] = IF k = j THEN Out(ls[j], i) ELSE ls[k]
        /\ \A k \in Keys : ls2[k] = IF k = b THEN <<s>> \o Without(ls, j, i)[k]
                                             ELSE Without(ls, j, i)[k]
    BY <1>1, <1>6, MovedFields
  <2>2. i \in DOMAIN c[j] /\ c[j][i] = s
    BY <1>2
  <2>3. r = [k \in Buckets |-> Without(ls, j, i)[k]]
    BY <1>1, <1>2, <1>3, <2>1
  <2>4. \A k \in Buckets : r[k] = Without(ls, j, i)[k]
    BY <2>3
  <2>5. DOMAIN r = Buckets
    OBVIOUS
  <2> HIDE DEF s
  <2>6. CASE b = Free
    <3>1. c2 = r
      BY <1>1, <2>1, <2>3, <2>6
    <3>2. ls2[Free] = <<s>> \o ls[Free]
      BY <1>1, <2>1, <2>6
    <3>3. Order!Unhash(j, i)
      BY <3>1 DEF Order!Unhash
    <3>4. Order!Drop
      BY <2>2, <3>2, <3>3 DEF Order!Drop
    <3> QED BY <3>4 DEF Order!IdentityStep
  <2>7. CASE b # Free
    <3>1. b \in Buckets
      BY <1>1, <2>7
    <3>2. ls2[Free] = ls[Free]
      BY <1>1, <2>1, <2>7
    <3>3. c2 = [r EXCEPT ![b] = <<s>> \o @]
      <4> HIDE DEF r
      <4> QED BY <1>1, <2>1, <2>3, <3>1
    <3>4. Order!Rehash
      BY <2>2, <3>1, <3>2, <3>3 DEF Order!Rehash
    <3> QED BY <3>4 DEF Order!IdentityStep
  <2> QED BY <2>6, <2>7
<1>7. ASSUME Len(ls[Free]) # 0, NEW b \in Buckets,
             ls2 = InFront(Without(ls, Free, 1), b, ls[Free][1])
      PROVE  Order!IdentityStep
  <2> DEFINE s == ls[Free][1]
  <2>1. 1 \in 1..Len(ls[Free]) /\ ls[Free] \in Seq(Slots)
    BY <1>1, <1>7
  <2>2. /\ \A k \in Keys : Without(ls, Free, 1)[k] = IF k = Free THEN Out(ls[Free], 1) ELSE ls[k]
        /\ \A k \in Keys : ls2[k] = IF k = b THEN <<s>> \o Without(ls, Free, 1)[k]
                                             ELSE Without(ls, Free, 1)[k]
    BY <1>1, <1>7, <2>1, MovedFields
  <2>3. ls2[Free] = Tail(ls[Free]) /\ Head(ls[Free]) = s /\ ls[Free] # <<>>
    BY <1>1, <2>1, <2>2, PartsAreOut
  <2> HIDE DEF s
  <2>4. c2 = [c EXCEPT ![b] = <<s>> \o @]
    <3>1. \A k \in Buckets : c2[k] = IF k = b THEN <<s>> \o c[k] ELSE c[k]
      BY <1>1, <1>2, <2>2
    <3> QED BY <3>1
  <2>5. Order!Hash(b, s)
    BY <2>4 DEF Order!Hash
  <2>6. Order!Claim
    BY <2>3, <2>5 DEF Order!Claim
  <2> QED BY <2>6 DEF Order!IdentityStep
<1>8. ASSUME NEW s \in Slots, \A k \in Keys : s \notin ToSet(ls[k]), ls2 = InFront(ls, Free, s)
      PROVE  Order!IdentityStep
  <2>1. \A k \in Keys : ls2[k] = IF k = Free THEN <<s>> \o ls[k] ELSE ls[k]
    BY <1>1, <1>8 DEF InFront, With
  <2>2. c2 = c
    BY <1>1, <2>1
  <2>3. ls2[Free] = <<s>> \o ls[Free]
    BY <1>1, <2>1
  <2>4. s \notin Order!ToSet(ls[Free]) /\ \A k \in Buckets : s \notin Order!ToSet(c[k])
    BY <1>1, <1>2, <1>8, SameOperators
  <2>5. Order!LeaveLimbo
    BY <2>2, <2>3, <2>4 DEF Order!LeaveLimbo
  <2> QED BY <2>5 DEF Order!IdentityStep
<1> QED BY <1>4, <1>5, <1>6, <1>7, <1>8 DEF HashMove

LEMMA StepIsOrderStep ==
  ASSUME ListsInv, [Next]_vars
  PROVE  Order!Next
<1>1. PICK hot, warm : LruOk(hot, warm)
  BY DEF ListsInv
<1>2. PICK ls : HashOk(ls)
  BY DEF ListsInv
<1>3. Stepped(hot, warm, ls)
  BY <1>1, <1>2, EveryStep
<1>4. PICK hot2, warm2 : LruNext(hot2, warm2) /\ OrderMove(hot, warm, hot2, warm2)
  BY <1>3 DEF Stepped
<1>5. PICK ls2 : HashNext(ls2) /\ HashMove(ls, ls2)
  BY <1>3 DEF Stepped
<1>6. ListOf(lru, "hot") = hot /\ ListOf(lru, "warm") = warm
  BY <1>1, ListsAreWalked DEF LruOk
<1>7. ListOf(lru', "hot") = hot2 /\ ListOf(lru', "warm") = warm2
  BY <1>4, ListsAreWalked DEF LruNext
<1>8. hot \in Seq(Slots) /\ warm \in Seq(Slots)
  BY <1>1, FullFields, TwoFields DEF LruOk
<1>9. Order!OrderStep
  BY <1>4, <1>6, <1>7, <1>8, OrderMoveIsStep
<1>10. /\ ls \in [Keys -> Seq(Slots)] /\ FreeOf(hash) = ls[Free]
       /\ \A k \in Buckets : ChainOf(hash, k) = ls[k]
  BY <1>2, ChainsAreWalked DEF HashOk, Right, Chained, Family
<1>11. FreeOf(hash') = ls2[Free] /\ \A k \in Buckets : ChainOf(hash', k) = ls2[k]
  BY <1>5, ChainsAreWalked DEF HashNext, Right
<1>12. \A s \in Slots :
         s \in Order!ToSet(ListOf(lru, "hot")) \cup Order!ToSet(ListOf(lru, "warm"))
  <2>1. \A s \in Slots : lru.state[s] = "hot" \/ lru.state[s] = "warm"
    BY <1>1, FullFields DEF LruOk, Kinds
  <2>2. \A s \in Slots : s \in ToSet(hot) \/ s \in ToSet(warm)
    BY <1>1, <2>1 DEF LruOk, Full, Placed
  <2> QED BY <1>6, <2>2, SameOperators
<1>13. Order!IdentityStep
  <2> DEFINE c == [k \in Buckets |-> ls[k]]
             c2 == [k \in Buckets |-> ls2[k]]
  <2>1. [k \in Buckets |-> ChainOf(hash, k)] = c
    BY <1>10
  <2>2. [k \in Buckets |-> ChainOf(hash, k)]' = c2
    BY <1>11
  <2>3. c = [k \in Buckets |-> ls[k]] /\ c2 = [k \in Buckets |-> ls2[k]]
    OBVIOUS
  <2> HIDE DEF c, c2
  <2> QED BY <1>5, <1>10, <1>11, <1>12, <2>1, <2>2, <2>3, HashMoveIsStep
<1> QED BY <1>9, <1>13 DEF Order!Next

LEMMA InitIsOrderInit == Init => Order!Init
<1> SUFFICES ASSUME Init PROVE Order!Init
  OBVIOUS
<1>1. ListsInv
  BY InitMakesLists
<1>2. PICK hot, warm : LruOk(hot, warm)
  BY <1>1 DEF ListsInv
<1>3. PICK ls : HashOk(ls)
  BY <1>1 DEF ListsInv
<1>4. ListOf(lru, "hot") = hot /\ ListOf(lru, "warm") = warm
  BY <1>2, ListsAreWalked DEF LruOk
<1>5. /\ hot \in Seq(Slots) /\ warm \in Seq(Slots) /\ Different(hot) /\ Different(warm)
      /\ ToSet(hot) \cap ToSet(warm) = {} /\ ToSet(hot) \cup ToSet(warm) = Slots
  <2>1. /\ hot \in Seq(Slots) /\ warm \in Seq(Slots) /\ Different(hot) /\ Different(warm)
        /\ ToSet(hot) \cap ToSet(warm) = {}
        /\ ToSet(hot) \subseteq Slots /\ ToSet(warm) \subseteq Slots
    BY <1>2, FullFields, TwoFields DEF LruOk
  <2>2. \A s \in Slots : lru.state[s] = "hot" \/ lru.state[s] = "warm"
    BY <1>2, FullFields DEF LruOk, Kinds
  <2>3. \A s \in Slots : s \in ToSet(hot) \/ s \in ToSet(warm)
    BY <1>2, <2>2 DEF LruOk, Full, Placed
  <2> QED BY <2>1, <2>3
<1>6. Order!IsInjective(hot \o warm)
  <2> DEFINE a == Len(hot)
             b == Len(warm)
             all == hot \o warm
  <2>1. a \in Nat /\ b \in Nat
    BY <1>5
  <2>2. DOMAIN all = 1..a + b /\ \A i \in 1..a + b : all[i] = IF i <= a THEN hot[i] ELSE warm[i - a]
    BY <1>5
  <2>3. /\ \A i \in 1..a : hot[i] \in ToSet(hot)
        /\ \A i \in 1..b : warm[i] \in ToSet(warm)
    BY <1>5 DEF ToSet
  <2>4. /\ \A i, j \in 1..a : hot[i] = hot[j] => i = j
        /\ \A i, j \in 1..b : warm[i] = warm[j] => i = j
    BY <1>5 DEF Different
  <2> HIDE DEF all, a, b
  <2>5. ASSUME NEW i \in 1..a + b, NEW j \in 1..a + b, all[i] = all[j] PROVE i = j
    <3>1. /\ i <= a => i \in 1..a
          /\ j <= a => j \in 1..a
          /\ ~(i <= a) => i - a \in 1..b
          /\ ~(j <= a) => j - a \in 1..b
      BY <2>1
    <3>2. CASE i <= a /\ j <= a
      BY <2>2, <2>4, <2>5, <3>1, <3>2
    <3>3. CASE ~(i <= a) /\ ~(j <= a)
      <4>1. i - a = j - a
        BY <2>2, <2>4, <2>5, <3>1, <3>3
      <4> QED BY <2>1, <4>1
    <3>4. CASE i <= a /\ ~(j <= a)
      BY <1>5, <2>2, <2>3, <2>5, <3>1, <3>4
    <3>5. CASE ~(i <= a) /\ j <= a
      BY <1>5, <2>2, <2>3, <2>5, <3>1, <3>5
    <3> QED BY <3>2, <3>3, <3>4, <3>5
  <2>6. Order!IsInjective(all)
    BY <2>2, <2>5 DEF Order!IsInjective
  <2> QED BY <2>6 DEF all
<1>7. /\ Chained(hash, ls) /\ Filed(cache_state, dbn, ls) /\ FreeOf(hash) = ls[Free]
      /\ \A k \in Buckets : ChainOf(hash, k) = ls[k]
  BY <1>3, ChainsAreWalked DEF HashOk, Right
<1>8. Free \in Keys /\ Buckets \subseteq Keys /\ \A s \in Slots : cache_state[s] = "INVALID"
  BY DEF Keys, Init
<1>9. Order!IsInjective(ls[Free]) /\ ToSet(ls[Free]) = Slots
  <2>1. ls[Free] \in Seq(Slots) /\ Different(ls[Free]) /\ ToSet(ls[Free]) \subseteq Slots
    BY <1>7, <1>8, FamilyFields DEF Chained
  <2>2. Order!IsInjective(ls[Free])
    BY <2>1 DEF Different, Order!IsInjective
  <2> QED BY <1>7, <1>8, <2>1, <2>2 DEF Filed
<1>10. \A k \in Buckets : ls[k] = <<>>
  <2> SUFFICES ASSUME NEW k \in Buckets PROVE ls[k] = <<>>
    OBVIOUS
  <2>1. /\ ls[k] \in Seq(Slots) /\ Len(ls[k]) \in Nat
        /\ \A i \in 1..Len(ls[k]) : ls[k][i] \in Slots /\ ls[k][i] \in ToSet(ls[k])
    BY <1>7, <1>8, FamilyFields DEF Chained
  <2>2. \A s \in Slots : s \notin ToSet(ls[k])
    BY <1>7, <1>8 DEF Filed, HashedStates
  <2>3. Len(ls[k]) = 0
    <3>1. Len(ls[k]) # 0 => 1 \in 1..Len(ls[k])
      BY <2>1
    <3> QED BY <2>1, <2>2, <3>1
  <2> QED BY <2>1, <2>3
<1>11. [k \in Buckets |-> ChainOf(hash, k)] = [k \in Buckets |-> <<>>]
  BY <1>7, <1>10
<1>12. Order!ToSet(FreeOf(hash)) = Order!ToSet(ListOf(lru, "hot")) \cup Order!ToSet(ListOf(lru, "warm"))
  BY <1>4, <1>5, <1>7, <1>9, SameOperators
<1> QED BY <1>4, <1>6, <1>7, <1>9, <1>11, <1>12 DEF Order!Init

(* The links implement the sequences of BlockOrder.                        *)
THEOREM LinksImplementOrder == Spec => ImplementsBlockOrder
<1>1. Init => Order!Init
  BY InitIsOrderInit
<1>2. ListsInv /\ [Next]_vars => [Order!Next]_(Order!vars)
  BY StepIsOrderStep
<1> QED BY <1>1, <1>2, BlockListsHold, PTL DEF Spec, ImplementsBlockOrder, Order!Spec
=============================================================================
