---------------------------- MODULE PfdStatProofs ----------------------------
(***************************************************************************)
(* The records of PfdStat, for every number of records, streams and blocks *)
(* and every size of a block: a stream has one record, which claims no     *)
(* more than the stream has read.                                          *)
(***************************************************************************)
EXTENDS PfdStat, WellFoundedInduction, SequenceTheorems, TLAPS

Run == [start : Int, count : Nat]
Record == [stream : Streams \cup {None}, stride : Int, stride_count : Nat,
           curr : Run, prev : Run]

(* The runs of a stride do not overlap.                                    *)
Spaced(r) == r.prev.count * block_size <= Abs(r.stride)

(* The shape of a record that is in use: a record of a stride is in the    *)
(* middle of a run that is not longer than the runs before it.             *)
InUse(r) ==
  /\ r \in Record /\ r.stream \in Streams
  /\ {r.curr.start, r.prev.start} \subseteq Sectors /\ r.curr.count # 0
  /\ r.prev.count = 0 => r.stride = 0 /\ r.stride_count = 0
  /\ r.prev.count # 0 => r.stride_count # 0 /\ r.curr.count <= r.prev.count /\ Spaced(r)

(* All that record r claims is what seen tells.                            *)
Backed(r, seen) ==
  /\ seen \in Seq(Sectors) /\ Len(seen) = Claimed(r)
  /\ \A k \in 0..Len(seen) - 1 : seen[Len(seen) - k] = Pattern(r, r.curr.count - 1 - k)

StatInv ==
  /\ queue \in [1..STAT_COUNT -> Record]
  /\ \A i \in 1..STAT_COUNT : queue[i] = ResetStat(None) \/ InUse(queue[i])
  /\ \A i, j \in 1..STAT_COUNT :
       i < j => /\ queue[i].stream = queue[j].stream => queue[i].stream = None
                /\ queue[i].stream = None => queue[j].stream = None
  /\ DOMAIN read = Streams
  /\ \A i \in 1..STAT_COUNT :
       queue[i].stream # None => Backed(queue[i], read[queue[i].stream])

-----------------------------------------------------------------------------
(* Arithmetic                                                              *)

LEMMA Constants ==
  /\ STAT_COUNT \in Nat \ {0} /\ block_size \in Nat \ {0} /\ None \notin Streams
  /\ Sectors \subseteq Int
<1>1. STAT_COUNT \in Nat \ {0} /\ block_size \in Nat \ {0} /\ nr_sects \in Nat \ {0} /\ None \notin Streams
  BY PfdStatAssumption
<1>2. \A n \in 0..(nr_sects \div block_size) - 1 : n * block_size \in Int
  BY <1>1
<1> QED BY <1>1, <1>2 DEF Sectors

(* Quotient and remainder are unique.                                      *)
LEMMA Quotient ==
  ASSUME NEW a \in Int, a > 0, NEW q \in Int, NEW r \in Int, 0 <= r, r < a
  PROVE  /\ (a * q + r) \div a = q
         /\ (a * q + r) % a = r
<1> DEFINE n == a * q + r
           p == n \div a
           s == n % a
<1>1. n \in Int /\ p \in Int /\ s \in Int /\ n = a * p + s /\ 0 <= s /\ s < a
  OBVIOUS
<1>2. a * (p - q) = r - s /\ -a < r - s /\ r - s < a
  BY <1>1
<1>3. p - q = 0
  <2> DEFINE z == p - q
  <2>1. z \in Int /\ a * z < a /\ -a < a * z
    BY <1>1, <1>2
  <2> HIDE DEF z
  <2>2. ~(z >= 1)
    BY <2>1
  <2>3. ~(z <= -1)
    BY <2>1
  <2> QED BY <2>1, <2>2, <2>3 DEF z
<1> QED BY <1>1, <1>3

(* One run further back.                                                   *)
LEMMA OneRunBack ==
  ASSUME NEW p \in Int, p > 0, NEW n \in Int
  PROVE  /\ (n - p) \div p = (n \div p) - 1 /\ (n - p) % p = n % p
         /\ n \div p \in Int /\ n % p \in Int
         /\ 0 <= n /\ n < p => n \div p = 0 /\ n % p = n
<1> DEFINE q == n \div p
           r == n % p
<1>1. q \in Int /\ r \in Int /\ n = p * q + r /\ 0 <= r /\ r < p
  OBVIOUS
<1>2. n - p = p * (q - 1) + r
  <2> HIDE DEF q, r
  <2> QED BY <1>1
<1>3. (p * (q - 1) + r) \div p = q - 1 /\ (p * (q - 1) + r) % p = r
  <2> HIDE DEF q, r
  <2> q - 1 \in Int
    BY <1>1
  <2> QED BY <1>1, Quotient
<1>4. ASSUME 0 <= n, n < p PROVE n \div p = 0 /\ n % p = n
  <2>1. p * 0 + n = n
    OBVIOUS
  <2> QED BY <1>4, <2>1, Quotient
<1> QED BY <1>1, <1>2, <1>3, <1>4

-----------------------------------------------------------------------------
(* A record and a sector                                                   *)

(* The reads that a record vouches for are the end of what was read.       *)
LEMMA NewestIsBacked ==
  ASSUME NEW u \in Record, NEW past \in Seq(Sectors), Claimed(u) \in Nat, Claimed(u) <= Len(past),
         \A k \in 0..Claimed(u) - 1 : past[Len(past) - k] = Pattern(u, u.curr.count - 1 - k)
  PROVE  Backed(u, Newest(past, Claimed(u)))
<1> DEFINE n == Claimed(u)
           m == Len(past) - n + 1
           seen == SubSeq(past, m, Len(past))
<1>1. n \in Nat /\ Len(past) \in Nat /\ m \in 1..Len(past) + 1
  OBVIOUS
<1> HIDE DEF n
<1>2. seen \in Seq(Sectors) /\ Len(seen) = Len(past) - m + 1
      /\ \A i \in 1..Len(past) - m + 1 : seen[i] = past[m + i - 1]
  BY <1>1
<1>3. Len(seen) = n
  BY <1>1, <1>2
<1>4. ASSUME NEW k \in 0..n - 1 PROVE seen[n - k] = past[Len(past) - k]
  <2>1. n - k \in 1..Len(past) - m + 1 /\ m + (n - k) - 1 = Len(past) - k
    BY <1>1
  <2> QED BY <1>2, <2>1
<1> QED BY <1>2, <1>3, <1>4 DEF Backed, Newest, n

(* The start of a stream.                                                  *)
LEMMA FirstRead ==
  ASSUME NEW s \in Streams, NEW sector \in Sectors
  PROVE  LET u == Updated(ResetStat(s), sector)
         IN  /\ InUse(u) /\ u.stream = s /\ Claimed(u) = 1
             /\ Backed(u, Newest(<<sector>>, 1))
<1> DEFINE r == ResetStat(s)
           u == Updated(r, sector)
<1>1. sector \in Int /\ 0 \in Int
  BY Constants
<1>2. /\ r \in Record /\ r.stream = s /\ r.stride = 0 /\ r.stride_count = 0
      /\ r.prev = NoSeq /\ r.curr.count = 0
  BY <1>1 DEF ResetStat, NoSeq, Record, Run
<1> HIDE DEF r
<1>3. /\ u.stream = s /\ u.stride = 0 /\ u.stride_count = 0 /\ u.prev = NoSeq
      /\ u.curr = Begin(sector) /\ u \in Record
  <2>1. u = [r EXCEPT !.curr = Begin(sector)]
    BY <1>2 DEF Updated
  <2>2. Begin(sector) \in Run
    BY <1>1 DEF Begin, Run
  <2> HIDE DEF u
  <2> QED BY <1>2, <2>1, <2>2 DEF Record
<1> HIDE DEF u
<1>4. u.curr.start = sector /\ u.curr.count = 1 /\ u.prev.start = 0 /\ u.prev.count = 0
  BY <1>3 DEF Begin, NoSeq
<1>5. 0 \in Sectors
  BY Constants, PfdStatAssumption DEF Sectors
<1>6. InUse(u)
  BY <1>3, <1>4, <1>5 DEF InUse
<1>7. Claimed(u) = 1
  BY <1>3, <1>4 DEF Claimed
<1>8. Backed(u, Newest(<<sector>>, 1))
  <2>1. <<sector>> \in Seq(Sectors) /\ Len(<<sector>>) = 1 /\ <<sector>>[1] = sector
    OBVIOUS
  <2>2. Pattern(u, 0) = sector
    BY <1>1, <1>4, Constants DEF Pattern
  <2>3. \A k \in 0..Claimed(u) - 1 :
          <<sector>>[Len(<<sector>>) - k] = Pattern(u, u.curr.count - 1 - k)
    BY <1>4, <1>7, <2>1, <2>2
  <2>4. Claimed(u) \in Nat /\ Claimed(u) <= Len(<<sector>>)
    BY <1>7, <2>1
  <2>5. Backed(u, Newest(<<sector>>, Claimed(u)))
    BY <1>3, <2>1, <2>3, <2>4, NewestIsBacked
  <2> QED BY <1>7, <2>5
<1> QED BY <1>3, <1>6, <1>7, <1>8 DEF u, r

LEMMA ClaimedIsNat ==
  ASSUME NEW r \in Record
  PROVE  Claimed(r) \in Nat
<1>1. r.stride_count \in Nat /\ r.prev.count \in Nat /\ r.curr.count \in Nat
  BY DEF Record, Run
<1> QED BY <1>1 DEF Claimed

(* A further read goes on with what the record claims.                     *)
LEMMA ReadGoesOn ==
  ASSUME NEW r, InUse(r), NEW seen, Backed(r, seen), NEW sector \in Sectors, NEW u \in Record,
         Claimed(u) <= Claimed(r) + 1, Pattern(u, u.curr.count - 1) = sector,
         \A k \in 1..Claimed(u) - 1 :
           Pattern(u, u.curr.count - 1 - k) = Pattern(r, r.curr.count - k)
  PROVE  /\ Claimed(u) <= Len(Append(seen, sector))
         /\ Backed(u, Newest(Append(seen, sector), Claimed(u)))
<1> DEFINE past == Append(seen, sector)
<1>1. r \in Record /\ seen \in Seq(Sectors) /\ Len(seen) = Claimed(r)
  BY DEF InUse, Backed
<1>2. Claimed(r) \in Nat /\ Claimed(u) \in Nat /\ r.curr.count \in Nat /\ u.curr.count \in Nat
  BY <1>1, ClaimedIsNat DEF Record, Run
<1>3. /\ past \in Seq(Sectors) /\ Len(past) = Len(seen) + 1 /\ past[Len(seen) + 1] = sector
      /\ \A i \in 1..Len(seen) : past[i] = seen[i]
  BY <1>1
<1> HIDE DEF past
<1>4. ASSUME NEW k \in 0..Claimed(u) - 1
      PROVE  past[Len(past) - k] = Pattern(u, u.curr.count - 1 - k)
  <2>1. CASE k = 0
    <3>1. Len(past) - 0 = Len(seen) + 1 /\ u.curr.count - 1 - 0 = u.curr.count - 1
      BY <1>1, <1>2, <1>3
    <3> QED BY <1>3, <2>1, <3>1
  <2>2. CASE k # 0
    <3>1. k \in 1..Claimed(u) - 1 /\ k - 1 \in 0..Len(seen) - 1
      BY <1>1, <1>2, <2>2
    <3>2. Len(past) - k = Len(seen) - (k - 1) /\ Len(past) - k \in 1..Len(seen)
      BY <1>1, <1>2, <1>3, <3>1
    <3>3. past[Len(past) - k] = seen[Len(seen) - (k - 1)]
      BY <1>3, <3>2
    <3>4. seen[Len(seen) - (k - 1)] = Pattern(r, r.curr.count - 1 - (k - 1))
      BY <3>1 DEF Backed
    <3>5. r.curr.count - 1 - (k - 1) = r.curr.count - k
      BY <1>2
    <3> QED BY <3>1, <3>3, <3>4, <3>5
  <2> QED BY <2>1, <2>2
<1> QED BY <1>1, <1>2, <1>3, <1>4, NewestIsBacked DEF past

Is(u, s, st, n, t, q) ==
  /\ u.stream = s /\ u.stride = st /\ u.stride_count = n /\ u.curr = t /\ u.prev = q
  /\ u \in Record

(* The updates of a record.                                                *)
LEMMA Updates ==
  ASSUME NEW r \in Record, NEW t \in Run, NEW q \in Run, NEW st \in Int, NEW n \in Nat
  PROVE  /\ Is([r EXCEPT !.prev = q, !.stride = st, !.stride_count = n],
                r.stream, st, n, r.curr, q)
         /\ Is([r EXCEPT !.curr = t, !.stride = st, !.stride_count = n],
                r.stream, st, n, t, r.prev)
         /\ Is([r EXCEPT !.prev = q, !.curr = t, !.stride = st, !.stride_count = n],
                r.stream, st, n, t, q)
         /\ Is([r EXCEPT !.prev = q, !.curr = t, !.stride_count = n],
                r.stream, r.stride, n, t, q)
<1>1. Is([r EXCEPT !.prev = q, !.stride = st, !.stride_count = n], r.stream, st, n, r.curr, q)
  BY DEF Record, Is
<1>2. Is([r EXCEPT !.curr = t, !.stride = st, !.stride_count = n], r.stream, st, n, t, r.prev)
  BY DEF Record, Is
<1>3. Is([r EXCEPT !.prev = q, !.curr = t, !.stride = st, !.stride_count = n],
         r.stream, st, n, t, q)
  BY DEF Record, Is
<1>4. Is([r EXCEPT !.prev = q, !.curr = t, !.stride_count = n], r.stream, r.stride, n, t, q)
  BY DEF Record, Is
<1> QED BY <1>1, <1>2, <1>3, <1>4

(* The run goes on.                                                        *)
LEMMA ContinuesRead ==
  ASSUME NEW r, InUse(r), NEW sector \in Sectors, Fits(r.curr, sector)
  PROVE  LET u == Continues(r)
         IN  /\ InUse(u) /\ u.stream = r.stream /\ Claimed(u) <= Claimed(r) + 1
             /\ Pattern(u, u.curr.count - 1) = sector
             /\ \A k \in 1..Claimed(u) - 1 :
                  Pattern(u, u.curr.count - 1 - k) = Pattern(r, r.curr.count - k)
<1> DEFINE u == Continues(r)
           longer == [r EXCEPT !.curr.count = @ + 1]
           c == r.curr.count
           p == r.prev.count
<1>1. /\ r \in Record /\ c \in Nat \ {0} /\ p \in Nat /\ r.stride \in Int
      /\ r.stride_count \in Nat /\ r.curr.start \in Int /\ r.curr \in Run /\ r.prev \in Run
      /\ sector \in Int /\ block_size \in Nat
  BY Constants DEF InUse, Record, Run
<1>2. sector = r.curr.start + c * block_size
  BY DEF Fits
<1>3. /\ longer \in Record /\ longer.stream = r.stream /\ longer.stride = r.stride
      /\ longer.stride_count = r.stride_count /\ longer.prev = r.prev
      /\ longer.curr = [r.curr EXCEPT !.count = @ + 1]
  <2>1. longer = [r EXCEPT !.curr = [r.curr EXCEPT !.count = @ + 1]]
    BY <1>1 DEF Record, Run
  <2>2. [r.curr EXCEPT !.count = @ + 1] \in Run
    BY <1>1 DEF Run
  <2> QED BY <1>1, <2>1, <2>2 DEF Record
<1>4. longer.curr.start = r.curr.start /\ longer.curr.count = c + 1
  BY <1>1, <1>3 DEF Run
<1>5. Claimed(r) = r.stride_count * p + c
  BY DEF Claimed
<1> HIDE DEF longer
<1>6. CASE p = 0 \/ c + 1 <= p
  <2>1. u = longer
    BY <1>3, <1>4, <1>6 DEF Continues, longer
  <2> HIDE DEF u
  <2>2. InUse(u)
    <3>1. /\ u \in Record /\ u.stream \in Streams /\ u.curr.count # 0 /\ u.prev = r.prev
          /\ u.curr.start = r.curr.start /\ u.stride = r.stride
          /\ u.stride_count = r.stride_count /\ u.curr.count = c + 1
      <4>1. u.stream \in Streams /\ c + 1 # 0
        BY <1>1, <1>3, <2>1 DEF InUse
      <4> HIDE DEF c, p
      <4> QED BY <1>3, <1>4, <2>1, <4>1
    <3>2. u.prev.count # 0 => u.curr.count <= u.prev.count
      BY <1>6, <3>1
    <3>3. u.prev.count # 0 => Spaced(u)
      BY <3>1 DEF InUse, Spaced
    <3> QED BY <3>1, <3>2, <3>3 DEF InUse
  <2>3. Claimed(u) = Claimed(r) + 1
    <3>1. r.stride_count * p \in Nat
      BY <1>1
    <3>2. Claimed(u) = r.stride_count * p + (c + 1)
      BY <1>3, <1>4, <2>1 DEF Claimed
    <3> HIDE DEF c, p
    <3> QED BY <1>1, <1>5, <3>1, <3>2
  <2>4. \A n \in Int : Pattern(u, n) = Pattern(r, n)
    BY <1>3, <1>4, <2>1 DEF Pattern
  <2>5. Pattern(r, c) = sector
    <3>1. CASE p = 0
      BY <1>1, <1>2, <3>1 DEF Pattern
    <3>2. CASE p # 0
      <4>1. p > 0 /\ 0 <= c /\ c < p /\ p \in Int /\ c \in Int
        BY <1>1, <1>6, <3>2
      <4>2. c \div p = 0 /\ c % p = c
        BY <4>1, OneRunBack
      <4>3. Pattern(r, c) = r.curr.start + 0 * r.stride + c * block_size
        BY <3>2, <4>2 DEF Pattern
      <4>4. 0 * r.stride = 0 /\ c * block_size \in Int
        BY <1>1
      <4> QED BY <1>1, <1>2, <4>3, <4>4
    <3> QED BY <3>1, <3>2
  <2>6. u.curr.count = c + 1
    BY <1>4, <2>1
  <2>7. u.curr.count - 1 = c /\ \A k \in Int : u.curr.count - 1 - k = c - k
    BY <1>1, <2>6
  <2>8. Claimed(u) \in Int /\ Claimed(r) \in Int
    BY <1>1, <2>3, ClaimedIsNat
  <2>9. \A k \in 1..Claimed(u) - 1 : k \in Int /\ c - k \in Int
    BY <1>1, <2>8
  <2> HIDE DEF c, p
  <2>10. \A k \in 1..Claimed(u) - 1 : Pattern(u, u.curr.count - 1 - k) = Pattern(r, c - k)
    BY <2>4, <2>7, <2>9
  <2>11. Pattern(u, u.curr.count - 1) = sector
    BY <1>1, <2>4, <2>5, <2>7
  <2>12. Claimed(u) <= Claimed(r) + 1
    BY <2>3, <2>8
  <2> QED BY <1>3, <2>1, <2>2, <2>10, <2>11, <2>12 DEF u, c
<1>7. CASE ~(p = 0 \/ c + 1 <= p)
  <2>1. u = [longer EXCEPT !.prev = NoSeq, !.stride = 0, !.stride_count = 0]
    BY <1>3, <1>4, <1>7 DEF Continues, longer
  <2> HIDE DEF u
  <2>2. /\ u \in Record /\ u.stream = r.stream /\ u.stride = 0 /\ u.stride_count = 0
        /\ u.prev = NoSeq /\ u.curr = longer.curr
    <3>1. NoSeq \in Run
      BY DEF NoSeq, Run
    <3>2. longer \in Record /\ longer.curr \in Run
      BY <1>3 DEF Record
    <3>3. Is(u, longer.stream, 0, 0, longer.curr, NoSeq)
      <4>1. 0 \in Int /\ 0 \in Nat
        OBVIOUS
      <4>2. Is([longer EXCEPT !.prev = NoSeq, !.stride = 0, !.stride_count = 0],
               longer.stream, 0, 0, longer.curr, NoSeq)
        BY <3>1, <3>2, <4>1, Updates
      <4> QED BY <2>1, <4>2
    <3> QED BY <1>3, <3>3 DEF Is
  <2>3. u.prev.count = 0 /\ u.prev.start = 0 /\ 0 \in Sectors
    BY <2>2, Constants, PfdStatAssumption DEF NoSeq, Sectors
  <2>4. u.curr.count = c + 1 /\ u.curr.start = r.curr.start
    BY <1>4, <2>2
  <2>5. InUse(u)
    BY <1>1, <2>2, <2>3, <2>4 DEF InUse
  <2>6. c = p /\ p > 0 /\ r.stride_count >= 1
    BY <1>1, <1>7 DEF InUse
  <2>7. Claimed(u) = c + 1
    BY <1>1, <2>2, <2>3, <2>4 DEF Claimed
  <2>8. c <= Claimed(r) /\ Claimed(r) \in Nat
    <3>1. r.stride_count * p \in Nat
      BY <1>1
    <3> HIDE DEF c, p
    <3> QED BY <1>1, <1>5, <3>1
  <2>9. Pattern(u, c) = sector
    BY <1>1, <1>2, <2>3, <2>4 DEF Pattern
  <2>10. ASSUME NEW k \in 1..c PROVE Pattern(u, c - k) = Pattern(r, c - k)
    <3>1. p \in Int /\ p > 0 /\ c - k \in Int /\ 0 <= c - k /\ c - k < p
      BY <1>1, <2>6
    <3>2. (c - k) \div p = 0 /\ (c - k) % p = c - k
      BY <3>1, OneRunBack
    <3>3. Pattern(r, c - k) = r.curr.start + 0 * r.stride + (c - k) * block_size
      BY <2>6, <3>2 DEF Pattern
    <3>4. Pattern(u, c - k) = r.curr.start + (c - k) * block_size
      BY <2>3, <2>4 DEF Pattern
    <3>5. 0 * r.stride = 0 /\ (c - k) * block_size \in Int
      BY <1>1, <3>1
    <3> QED BY <1>1, <3>3, <3>4, <3>5
  <2>11. u.curr.count - 1 = c /\ \A k \in Int : u.curr.count - 1 - k = c - k
    BY <1>1, <2>4
  <2>12. \A k \in 1..Claimed(u) - 1 : Pattern(u, u.curr.count - 1 - k) = Pattern(r, c - k)
    <3>1. \A k \in 1..Claimed(u) - 1 : k \in Int /\ k \in 1..c
      BY <1>1, <2>7
    <3> HIDE DEF c
    <3> QED BY <2>10, <2>11, <3>1
  <2>13. Claimed(u) <= Claimed(r) + 1
    BY <1>1, <2>7, <2>8
  <2>14. Pattern(u, u.curr.count - 1) = sector
    BY <2>9, <2>11
  <2> QED BY <2>2, <2>5, <2>12, <2>13, <2>14 DEF u
<1> QED BY <1>6, <1>7

(* A run begins, after a jump that is not a stride.                        *)
LEMMA BeginsRead ==
  ASSUME NEW r, InUse(r), NEW sector \in Sectors, NEW u, NEW q \in Run, q.count = 0,
         q.start \in Sectors, Is(u, r.stream, 0, 0, Begin(sector), q)
  PROVE  /\ InUse(u) /\ u.stream = r.stream /\ Claimed(u) <= Claimed(r) + 1
         /\ Pattern(u, u.curr.count - 1) = sector
         /\ \A k \in 1..Claimed(u) - 1 :
              Pattern(u, u.curr.count - 1 - k) = Pattern(r, r.curr.count - k)
<1>1. /\ u.curr.start = sector /\ u.curr.count = 1 /\ u.prev = q /\ u.stride_count = 0
      /\ u.stride = 0 /\ u.stream = r.stream /\ u \in Record
  BY DEF Is, Begin
<1>2. InUse(u)
  BY <1>1 DEF InUse
<1>3. Claimed(u) = 1
  BY <1>1 DEF Claimed
<1>4. Claimed(r) \in Nat
  BY ClaimedIsNat DEF InUse
<1>5. Pattern(u, 0) = sector
  BY <1>1, Constants DEF Pattern
<1> QED BY <1>1, <1>2, <1>3, <1>4, <1>5

(* The first jump of a stride.                                             *)
LEMMA JumpsRead ==
  ASSUME NEW r, InUse(r), NEW sector \in Sectors, r.prev.count = 0
  PROVE  LET u == Jumps(r, sector)
         IN  /\ InUse(u) /\ u.stream = r.stream /\ Claimed(u) <= Claimed(r) + 1
             /\ Pattern(u, u.curr.count - 1) = sector
             /\ \A k \in 1..Claimed(u) - 1 :
                  Pattern(u, u.curr.count - 1 - k) = Pattern(r, r.curr.count - k)
<1> DEFINE u == Jumps(r, sector)
           c == r.curr.count
           jump == sector - r.curr.start
<1>1. /\ r \in Record /\ c \in Nat \ {0} /\ r.curr.start \in Int
      /\ r.curr \in Run /\ r.prev \in Run /\ r.stride = 0 /\ r.stride_count = 0
      /\ sector \in Int /\ block_size \in Nat /\ Begin(sector) \in Run
  BY Constants DEF InUse, Record, Run, Begin
<1>2. jump \in Int /\ 0 \in Int /\ 0 \in Nat /\ 1 \in Nat
  BY <1>1
<1>3. CASE Abs(jump) \div block_size < c
  <2>1. u = [r EXCEPT !.curr = Begin(sector), !.stride = 0, !.stride_count = 0]
    BY <1>3 DEF Jumps
  <2> HIDE DEF u
  <2>2. Is([r EXCEPT !.curr = Begin(sector), !.stride = 0, !.stride_count = 0],
           r.stream, 0, 0, Begin(sector), r.prev)
    BY <1>1, <1>2, Updates
  <2>3. r.prev.start \in Sectors
    BY DEF InUse
  <2>4. Is(u, r.stream, 0, 0, Begin(sector), r.prev)
    BY <2>1, <2>2
  <2>5. /\ InUse(u) /\ u.stream = r.stream /\ Claimed(u) <= Claimed(r) + 1
        /\ Pattern(u, u.curr.count - 1) = sector
        /\ \A k \in 1..Claimed(u) - 1 :
             Pattern(u, u.curr.count - 1 - k) = Pattern(r, r.curr.count - k)
    BY <1>1, <2>3, <2>4, BeginsRead
  <2> QED BY <2>5 DEF u
<1>4. CASE ~(Abs(jump) \div block_size < c)
  <2>1. u = [r EXCEPT !.prev = r.curr, !.curr = Begin(sector), !.stride = jump, !.stride_count = 1]
    BY <1>4 DEF Jumps
  <2> HIDE DEF u
  <2>2. Is([r EXCEPT !.prev = r.curr, !.curr = Begin(sector), !.stride = jump, !.stride_count = 1],
           r.stream, jump, 1, Begin(sector), r.curr)
    BY <1>1, <1>2, Updates
  <2>3. /\ u.stream = r.stream /\ u.stride = jump /\ u.stride_count = 1
        /\ u.curr.start = sector /\ u.curr.count = 1 /\ u.prev = r.curr /\ u \in Record
    BY <2>1, <2>2 DEF Is, Begin
  <2>4. InUse(u)
    <3>1. Spaced(u)
      <4>1. Abs(jump) \in Int /\ block_size > 0
        BY <1>2, Constants DEF Abs
      <4> DEFINE a == Abs(jump)
                 d == a \div block_size
      <4>0. a \in Int
        BY <4>1
      <4> HIDE DEF a
      <4>2. d \in Int /\ block_size * d <= a
        BY <1>1, <4>0, <4>1
      <4>3. c <= d
        BY <1>1, <1>4, <4>2 DEF a
      <4> HIDE DEF d, c
      <4>4. c * block_size <= d * block_size
        BY <1>1, <4>1, <4>2, <4>3
      <4>5. c * block_size <= a
        BY <1>1, <4>1, <4>2, <4>4 DEF a
      <4> QED BY <2>3, <4>5 DEF Spaced, a, c
    <3> QED BY <1>1, <2>3, <3>1 DEF InUse
  <2>5. Claimed(u) = c + 1 /\ Claimed(r) = c
    BY <1>1, <2>3 DEF Claimed
  <2>6. c \in Int /\ c > 0
    BY <1>1
  <2>7. Pattern(u, 0) = sector
    <3>1. 0 \div c = 0 /\ 0 % c = 0
      BY <2>6, OneRunBack
    <3>2. Pattern(u, 0) = sector + 0 * jump + 0 * block_size
      BY <2>3, <2>6, <3>1 DEF Pattern
    <3> HIDE DEF jump
    <3>3. 0 * jump = 0 /\ 0 * block_size = 0
      BY <1>1, <1>2
    <3> QED BY <1>1, <3>2, <3>3
  <2>8. ASSUME NEW k \in 1..c PROVE Pattern(u, 0 - k) = Pattern(r, c - k)
    <3>1. c - k \in Int /\ 0 <= c - k /\ c - k < c /\ (c - k) - c = 0 - k
      BY <2>6
    <3>2. (c - k) \div c = 0 /\ (c - k) % c = c - k
      BY <2>6, <3>1, OneRunBack
    <3>3. (0 - k) \div c = -1 /\ (0 - k) % c = c - k
      <4>1. /\ ((c - k) - c) \div c = ((c - k) \div c) - 1
            /\ ((c - k) - c) % c = (c - k) % c
        BY <2>6, <3>1, OneRunBack
      <4> HIDE DEF c
      <4> QED BY <3>1, <3>2, <4>1
    <3>4. Pattern(u, 0 - k) = sector + (-1) * jump + (c - k) * block_size
      BY <2>3, <2>6, <3>3 DEF Pattern
    <3>5. Pattern(r, c - k) = r.curr.start + (c - k) * block_size
      BY DEF Pattern
    <3>6. (c - k) * block_size \in Int
      BY <1>1, <3>1
    <3>7. sector + (-1) * jump = r.curr.start
      BY <1>1
    <3> HIDE DEF jump, c
    <3> QED BY <3>4, <3>5, <3>7
  <2>9. u.curr.count - 1 = 0 /\ \A k \in Int : u.curr.count - 1 - k = 0 - k
    BY <2>3
  <2>10. \A k \in 1..Claimed(u) - 1 : Pattern(u, u.curr.count - 1 - k) = Pattern(r, c - k)
    <3>1. \A k \in 1..Claimed(u) - 1 : k \in Int /\ k \in 1..c
      BY <2>5, <2>6
    <3> HIDE DEF c
    <3> QED BY <2>8, <2>9, <3>1
  <2>11. Claimed(u) <= Claimed(r) + 1 /\ Pattern(u, u.curr.count - 1) = sector
    BY <2>5, <2>6, <2>7, <2>9
  <2> QED BY <2>3, <2>4, <2>10, <2>11 DEF u
<1> QED BY <1>3, <1>4

(* A further jump.                                                         *)
LEMMA JumpsAgainRead ==
  ASSUME NEW r, InUse(r), NEW sector \in Sectors, r.prev.count # 0
  PROVE  LET u == JumpsAgain(r, sector)
         IN  /\ InUse(u) /\ u.stream = r.stream /\ Claimed(u) <= Claimed(r) + 1
             /\ Pattern(u, u.curr.count - 1) = sector
             /\ \A k \in 1..Claimed(u) - 1 :
                  Pattern(u, u.curr.count - 1 - k) = Pattern(r, r.curr.count - k)
<1> DEFINE u == JumpsAgain(r, sector)
           c == r.curr.count
           p == r.prev.count
           n == r.stride_count
           st == r.stride
<1>1. /\ r \in Record /\ c \in Nat \ {0} /\ r.curr.start \in Int /\ p \in Nat /\ n \in Nat
      /\ r.curr \in Run /\ r.prev \in Run /\ st \in Int
      /\ sector \in Int /\ block_size \in Nat /\ Begin(sector) \in Run
  BY Constants DEF InUse, Record, Run, Begin
<1>2. 0 \in Int /\ 0 \in Nat /\ n + 1 \in Nat /\ p # 0
  BY <1>1
<1>3. CASE ~(p = c /\ sector - r.curr.start = st)
  <2>1. u = [r EXCEPT !.prev = NoSeq, !.curr = Begin(sector), !.stride = 0, !.stride_count = 0]
    BY <1>3 DEF JumpsAgain
  <2> HIDE DEF u
  <2>2. NoSeq \in Run /\ NoSeq.count = 0 /\ NoSeq.start = 0
    BY DEF NoSeq, Run
  <2>3. Is([r EXCEPT !.prev = NoSeq, !.curr = Begin(sector), !.stride = 0, !.stride_count = 0],
           r.stream, 0, 0, Begin(sector), NoSeq)
    BY <1>1, <1>2, <2>2, Updates
  <2>4. 0 \in Sectors
    BY Constants, PfdStatAssumption DEF Sectors
  <2>5. Is(u, r.stream, 0, 0, Begin(sector), NoSeq)
    BY <2>1, <2>3
  <2>6. /\ InUse(u) /\ u.stream = r.stream /\ Claimed(u) <= Claimed(r) + 1
        /\ Pattern(u, u.curr.count - 1) = sector
        /\ \A k \in 1..Claimed(u) - 1 :
             Pattern(u, u.curr.count - 1 - k) = Pattern(r, r.curr.count - k)
    BY <2>2, <2>4, <2>5, BeginsRead
  <2> QED BY <2>6 DEF u
<1>4. CASE p = c /\ sector - r.curr.start = st
  <2>1. u = [r EXCEPT !.prev = r.curr, !.curr = Begin(sector), !.stride_count = n + 1]
    BY <1>4 DEF JumpsAgain
  <2> HIDE DEF u
  <2>2. Is([r EXCEPT !.prev = r.curr, !.curr = Begin(sector), !.stride_count = n + 1],
           r.stream, st, n + 1, Begin(sector), r.curr)
    BY <1>1, <1>2, Updates
  <2>3. /\ u.stream = r.stream /\ u.stride = st /\ u.stride_count = n + 1
        /\ u.curr.start = sector /\ u.curr.count = 1 /\ u.prev = r.curr /\ u \in Record
    BY <2>1, <2>2 DEF Is, Begin
  <2>4. InUse(u)
    <3>1. Spaced(u)
      BY <1>2, <1>4, <2>3 DEF InUse, Spaced
    <3> QED BY <1>1, <1>2, <2>3, <3>1 DEF InUse
  <2>5. Claimed(u) = Claimed(r) + 1
    <3>1. Claimed(u) = (n + 1) * c + 1 /\ Claimed(r) = n * c + c
      BY <1>4, <2>3 DEF Claimed
    <3> HIDE DEF c, n
    <3>2. (n + 1) * c = n * c + c /\ n * c \in Nat
      BY <1>1
    <3> QED BY <1>1, <3>1, <3>2
  <2>6. c \in Int /\ c > 0
    BY <1>1
  <2>7. Pattern(u, 0) = sector
    <3>1. 0 \div c = 0 /\ 0 % c = 0
      BY <2>6, OneRunBack
    <3>2. Pattern(u, 0) = sector + 0 * st + 0 * block_size
      BY <2>3, <2>6, <3>1 DEF Pattern
    <3> HIDE DEF st
    <3>3. 0 * st = 0 /\ 0 * block_size = 0
      BY <1>1
    <3> QED BY <1>1, <3>2, <3>3
  <2>8. ASSUME NEW k \in Int PROVE Pattern(u, 0 - k) = Pattern(r, c - k)
    <3>1. c - k \in Int /\ (c - k) - c = 0 - k
      BY <2>6
    <3> DEFINE q == (c - k) \div c
               m == (c - k) % c
    <3>2. q \in Int /\ m \in Int
      BY <2>6, <3>1, OneRunBack
    <3>3. (0 - k) \div c = q - 1 /\ (0 - k) % c = m
      <4>1. ((c - k) - c) \div c = q - 1 /\ ((c - k) - c) % c = m
        BY <2>6, <3>1, OneRunBack
      <4> HIDE DEF q, m
      <4> QED BY <3>1, <4>1
    <3>4. Pattern(u, 0 - k) = sector + (q - 1) * st + m * block_size
      BY <2>3, <2>6, <3>3 DEF Pattern
    <3>5. Pattern(r, c - k) = r.curr.start + q * st + m * block_size
      BY <1>2, <1>4 DEF Pattern
    <3> HIDE DEF q, m
    <3>6. (q - 1) * st = q * st - st /\ q * st \in Int /\ m * block_size \in Int
      BY <1>1, <3>2
    <3>7. sector = r.curr.start + st
      BY <1>1, <1>4
    <3> HIDE DEF st, c
    <3> QED BY <1>1, <3>4, <3>5, <3>6, <3>7
  <2>9. u.curr.count - 1 = 0 /\ \A k \in Int : u.curr.count - 1 - k = 0 - k
    BY <2>3
  <2>10. Claimed(r) \in Nat /\ Claimed(u) \in Nat
    BY <1>1, <2>3, ClaimedIsNat
  <2>11. \A k \in 1..Claimed(u) - 1 : Pattern(u, u.curr.count - 1 - k) = Pattern(r, c - k)
    <3>1. \A k \in 1..Claimed(u) - 1 : k \in Int
      BY <2>10
    <3> HIDE DEF c
    <3> QED BY <2>8, <2>9, <3>1
  <2>12. Claimed(u) <= Claimed(r) + 1 /\ Pattern(u, u.curr.count - 1) = sector
    BY <2>5, <2>7, <2>9, <2>10
  <2> QED BY <2>3, <2>4, <2>11, <2>12 DEF u
<1> QED BY <1>3, <1>4

LEMMA NextRead ==
  ASSUME NEW r, InUse(r), NEW seen, Backed(r, seen), NEW sector \in Sectors
  PROVE  LET u == Updated(r, sector)
             past == Append(seen, sector)
         IN  /\ InUse(u) /\ u.stream = r.stream /\ Claimed(u) <= Len(past)
             /\ Backed(u, Newest(past, Claimed(u)))
<1> DEFINE u == Updated(r, sector)
<1>1. /\ InUse(u) /\ u.stream = r.stream /\ Claimed(u) <= Claimed(r) + 1
      /\ Pattern(u, u.curr.count - 1) = sector
      /\ \A k \in 1..Claimed(u) - 1 :
           Pattern(u, u.curr.count - 1 - k) = Pattern(r, r.curr.count - k)
  <2>1. r.curr.count # 0
    BY DEF InUse
  <2>2. CASE Fits(r.curr, sector)
    <3>1. u = Continues(r)
      BY <2>1, <2>2 DEF Updated
    <3> HIDE DEF u
    <3> QED BY <2>2, <3>1, ContinuesRead
  <2>3. CASE ~Fits(r.curr, sector) /\ r.prev.count = 0
    <3>1. u = Jumps(r, sector)
      BY <2>1, <2>3 DEF Updated
    <3> HIDE DEF u
    <3> QED BY <2>3, <3>1, JumpsRead
  <2>4. CASE ~Fits(r.curr, sector) /\ r.prev.count # 0
    <3>1. u = JumpsAgain(r, sector)
      BY <2>1, <2>4 DEF Updated
    <3> HIDE DEF u
    <3> QED BY <2>4, <3>1, JumpsAgainRead
  <2> QED BY <2>2, <2>3, <2>4
<1> HIDE DEF u
<1>2. u \in Record
  BY <1>1 DEF InUse
<1>3. /\ Claimed(u) <= Len(Append(seen, sector))
      /\ Backed(u, Newest(Append(seen, sector), Claimed(u)))
  BY <1>1, <1>2, ReadGoesOn
<1> QED BY <1>1, <1>3 DEF u

-----------------------------------------------------------------------------
(* The queue                                                               *)

LEMMA LeastExists ==
  ASSUME NEW S, S \subseteq Nat, S # {}
  PROVE  Min(S) \in S /\ \A y \in S : Min(S) <= y
<1> DEFINE R == OpToRel(<, Nat)
<1>1. IsWellFoundedOn(R, Nat)
  BY NatLessThanWellFounded
<1>2. PICK x \in S : \A y \in S : ~(<<y, x>> \in R)
  <2> HIDE DEF R
  <2> QED BY <1>1, WFMin
<1>3. \A y \in S : x <= y
  <2> SUFFICES ASSUME NEW y \in S PROVE x <= y
    OBVIOUS
  <2>1. x \in Nat /\ y \in Nat
    OBVIOUS
  <2>2. ~(y < x)
    BY <1>2, <2>1 DEF OpToRel
  <2> QED BY <2>1, <2>2
<1> QED BY <1>3 DEF Min

LEMMA QueueIsSeq ==
  ASSUME queue \in [1..STAT_COUNT -> Record]
  PROVE  queue \in Seq(Record) /\ Len(queue) = STAT_COUNT
  BY Constants, IsASeq, LenProperties

(* The search misses no record of the stream.                              *)
LEMMA FoundProperties ==
  ASSUME StatInv, NEW s \in Streams
  PROVE  LET known == Found(s) # 0 /\ queue[Found(s)].stream = s
         IN  /\ known => Found(s) \in 1..STAT_COUNT
             /\ ~known => \A i \in 1..STAT_COUNT : queue[i].stream # s
<1> DEFINE I == {i \in 1..Len(queue) : queue[i].stream \in {s, None}}
<1>1. Len(queue) = STAT_COUNT /\ STAT_COUNT \in Nat
  BY QueueIsSeq, Constants DEF StatInv
<1>2. Found(s) = IF I # {} THEN Min(I) ELSE 0
  BY DEF Found, SelectInSeq
<1>3. CASE I = {}
  BY <1>1, <1>2, <1>3
<1>4. CASE I # {}
  <2>1. I \subseteq Nat /\ I \subseteq 1..STAT_COUNT
    BY <1>1
  <2>2. Min(I) \in I /\ \A y \in I : Min(I) <= y
    BY <1>4, <2>1, LeastExists
  <2> PICK f \in 1..STAT_COUNT : f = Min(I)
    BY <2>1, <2>2
  <2>3. Found(s) = f /\ f \in I /\ f # 0
    BY <1>1, <1>2, <1>4, <2>2
  <2>4. queue[f].stream \in {s, None}
    BY <2>3
  <2>5. ASSUME queue[f].stream # s, NEW i \in 1..STAT_COUNT PROVE queue[i].stream # s
    <3>1. queue[f].stream = None /\ s # None
      BY <2>4, <2>5, Constants
    <3>2. CASE f < i
      BY <3>1, <3>2 DEF StatInv
    <3>3. CASE f = i
      BY <3>1, <3>3
    <3>4. CASE i < f
      <4>1. i \notin I
        BY <1>1, <2>2, <3>4
      <4> QED BY <1>1, <4>1
    <3> QED BY <1>1, <3>2, <3>3, <3>4
  <2> QED BY <2>3, <2>5
<1> QED BY <1>3, <1>4

(* The record that moves is at the front, and the others keep their order. *)
LEMMA MovedProperties ==
  ASSUME queue \in [1..STAT_COUNT -> Record], NEW i \in 1..STAT_COUNT, NEW u \in Record
  PROVE  /\ Moved(i, u) \in [1..STAT_COUNT -> Record] /\ Moved(i, u)[1] = u
         /\ \A k \in 2..STAT_COUNT :
              Moved(i, u)[k] = queue[IF k <= i THEN k - 1 ELSE k]
<1>1. STAT_COUNT \in Nat \ {0} /\ queue \in Seq(Record) /\ Len(queue) = STAT_COUNT
  BY QueueIsSeq, Constants
<1> DEFINE front == SubSeq(queue, 1, i - 1)
           back == SubSeq(queue, i + 1, STAT_COUNT)
<1>2. /\ front \in Seq(Record) /\ Len(front) = i - 1
      /\ \A k \in 1..i - 1 : front[k] = queue[k]
  BY <1>1
<1>3. /\ back \in Seq(Record) /\ Len(back) = STAT_COUNT - i
      /\ \A k \in 1..STAT_COUNT - i : back[k] = queue[i + k]
  <2>1. back \in Seq(Record) /\ Len(back) = STAT_COUNT - (i + 1) + 1
    BY <1>1
  <2>2. \A k \in 1..STAT_COUNT - (i + 1) + 1 : back[k] = queue[i + 1 + k - 1]
    BY <1>1
  <2> HIDE DEF back
  <2>3. STAT_COUNT - (i + 1) + 1 = STAT_COUNT - i /\ \A k \in Nat : i + 1 + k - 1 = i + k
    BY <1>1
  <2> QED BY <1>1, <2>1, <2>2, <2>3
<1>4. Moved(i, u) = <<u>> \o (front \o back)
  BY <1>1 DEF Moved, RemoveAt
<1> HIDE DEF front, back
<1> DEFINE rest == front \o back
<1>5. /\ rest \in Seq(Record) /\ Len(rest) = STAT_COUNT - 1
      /\ \A k \in 1..STAT_COUNT - 1 : rest[k] = IF k < i THEN queue[k] ELSE queue[k + 1]
  <2>1. /\ rest \in Seq(Record) /\ Len(rest) = Len(front) + Len(back)
        /\ \A k \in 1..Len(front) + Len(back) :
             rest[k] = IF k <= Len(front) THEN front[k] ELSE back[k - Len(front)]
    BY <1>2, <1>3, ConcatProperties
  <2> HIDE DEF rest
  <2>2. Len(front) + Len(back) = STAT_COUNT - 1
    BY <1>1, <1>2, <1>3
  <2>3. ASSUME NEW k \in 1..STAT_COUNT - 1
        PROVE  rest[k] = IF k < i THEN queue[k] ELSE queue[k + 1]
    <3>0. rest[k] = IF k <= i - 1 THEN front[k] ELSE back[k - (i - 1)]
      BY <1>2, <2>1, <2>2
    <3>1. CASE k < i
      <4>1. k <= i - 1 /\ k \in 1..i - 1
        BY <1>1, <3>1
      <4> QED BY <1>2, <3>0, <3>1, <4>1
    <3>2. CASE ~(k < i)
      <4>0. ~(k <= i - 1) /\ k - (i - 1) \in 1..STAT_COUNT - i
        BY <1>1, <3>2
      <4>1. rest[k] = back[k - (i - 1)] /\ k - (i - 1) \in 1..STAT_COUNT - i
        BY <3>0, <4>0
      <4>2. i + (k - (i - 1)) = k + 1
        BY <1>1
      <4> QED BY <1>3, <3>2, <4>1, <4>2
    <3> QED BY <3>1, <3>2
  <2> QED BY <2>1, <2>2, <2>3
<1> HIDE DEF rest
<1>6. <<u>> \in Seq(Record) /\ Len(<<u>>) = 1 /\ <<u>>[1] = u
  OBVIOUS
<1> DEFINE m == <<u>> \o rest
<1>7. /\ m \in Seq(Record) /\ Len(m) = STAT_COUNT /\ m[1] = u
      /\ \A k \in 2..STAT_COUNT : m[k] = rest[k - 1]
  <2>1. /\ m \in Seq(Record) /\ Len(m) = Len(<<u>>) + Len(rest)
        /\ \A k \in 1..Len(<<u>>) + Len(rest) :
             m[k] = IF k <= Len(<<u>>) THEN <<u>>[k] ELSE rest[k - Len(<<u>>)]
    BY <1>5, <1>6, ConcatProperties
  <2> HIDE DEF m
  <2>2. Len(<<u>>) + Len(rest) = STAT_COUNT
    BY <1>1, <1>5, <1>6
  <2> QED BY <1>1, <1>6, <2>1, <2>2
<1> HIDE DEF m
<1>8. m \in [1..STAT_COUNT -> Record]
  BY <1>7, LenProperties, ElementOfSeq
<1>9. ASSUME NEW k \in 2..STAT_COUNT PROVE m[k] = queue[IF k <= i THEN k - 1 ELSE k]
  <2>1. m[k] = rest[k - 1] /\ k - 1 \in 1..STAT_COUNT - 1 /\ (k - 1) + 1 = k
    BY <1>1, <1>7
  <2>2. k - 1 < i <=> k <= i
    BY <1>1
  <2> QED BY <1>5, <2>1, <2>2
<1> QED BY <1>4, <1>7, <1>8, <1>9 DEF m, rest

(* A stream reads: its record, or the last one, is at the front.           *)
LEMMA UpdateInv ==
  ASSUME StatInv, NEW s \in Streams, NEW sector \in Sectors, Update(s, sector)
  PROVE  StatInv'
<1> DEFINE known == Found(s) # 0 /\ queue[Found(s)].stream = s
           i == IF known THEN Found(s) ELSE STAT_COUNT
           r == IF known THEN queue[i] ELSE ResetStat(s)
           u == Updated(r, sector)
           past == IF known THEN Append(read[s], sector) ELSE <<sector>>
<1>1. STAT_COUNT \in Nat \ {0} /\ s # None
  BY Constants
<1>2. /\ i \in 1..STAT_COUNT
      /\ known => queue[i].stream = s
      /\ ~known => \A k \in 1..STAT_COUNT : queue[k].stream # s
  BY <1>1, FoundProperties
<1>3. /\ InUse(u) /\ u.stream = s /\ Claimed(u) <= Len(past)
      /\ Backed(u, Newest(past, Claimed(u)))
  <2>1. CASE known
    <3>1. InUse(r) /\ r.stream = s /\ Backed(r, read[s])
      <4>1. r = queue[i]
        BY <2>1
      <4> HIDE DEF i, r
      <4>2. r # ResetStat(None)
        BY <1>1, <1>2, <2>1, <4>1 DEF ResetStat
      <4> QED BY <1>1, <1>2, <2>1, <4>1, <4>2 DEF StatInv
    <3>2. past = Append(read[s], sector)
      BY <2>1
    <3> HIDE DEF past, r
    <3> QED BY <3>1, <3>2, NextRead
  <2>2. CASE ~known
    <3>1. r = ResetStat(s) /\ past = <<sector>>
      BY <2>2
    <3> HIDE DEF past, r
    <3>2. InUse(u) /\ u.stream = s /\ Claimed(u) = 1 /\ Backed(u, Newest(<<sector>>, 1))
      BY <3>1, FirstRead
    <3>3. Len(past) = 1
      BY <3>1
    <3> HIDE DEF u
    <3> QED BY <3>1, <3>2, <3>3
  <2> QED BY <2>1, <2>2
<1>4. /\ queue' = Moved(i, u)
      /\ read' = [t \in Streams |->
                   IF t = s
                   THEN IF Claimed(u) <= Len(past) THEN Newest(past, Claimed(u)) ELSE past
                   ELSE IF t = queue[i].stream THEN <<>> ELSE read[t]]
  BY DEF Update
<1> HIDE DEF known, i, r, u, past
<1>5. u \in Record /\ u # ResetStat(None) /\ queue \in [1..STAT_COUNT -> Record]
  BY <1>1, <1>3 DEF InUse, ResetStat, StatInv
<1> DEFINE From(k) == IF k <= i THEN k - 1 ELSE k
<1>6. /\ queue' \in [1..STAT_COUNT -> Record] /\ queue'[1] = u
      /\ \A k \in 2..STAT_COUNT : queue'[k] = queue[From(k)]
  BY <1>2, <1>4, <1>5, MovedProperties
<1>7. /\ \A k \in 2..STAT_COUNT : From(k) \in 1..STAT_COUNT /\ From(k) # i
      /\ \A k, l \in 2..STAT_COUNT : k < l => From(k) < From(l)
  BY <1>1, <1>2
<1> HIDE DEF From
<1>8. \A k \in 1..STAT_COUNT : k # i => queue[k].stream # s
  BY <1>1, <1>2 DEF StatInv
<1>9. \A k \in 1..STAT_COUNT : k = 1 \/ k \in 2..STAT_COUNT
  BY <1>1
<1>10. \A k \in 1..STAT_COUNT : queue'[k] = ResetStat(None) \/ InUse(queue'[k])
  BY <1>3, <1>6, <1>7, <1>9 DEF StatInv
<1>11. ASSUME NEW k \in 1..STAT_COUNT, NEW l \in 1..STAT_COUNT, k < l
       PROVE  /\ queue'[k].stream = queue'[l].stream => queue'[k].stream = None
              /\ queue'[k].stream = None => queue'[l].stream = None
  <2>1. l \in 2..STAT_COUNT
    BY <1>1, <1>11
  <2>2. CASE k = 1
    BY <1>1, <1>3, <1>6, <1>7, <1>8, <2>1, <2>2
  <2>3. CASE k \in 2..STAT_COUNT
    BY <1>6, <1>7, <1>11, <2>1, <2>3 DEF StatInv
  <2> QED BY <1>9, <2>2, <2>3
<1>12. DOMAIN read' = Streams /\ read'[s] = Newest(past, Claimed(u))
  BY <1>3, <1>4
<1>13. ASSUME NEW k \in 1..STAT_COUNT, queue'[k].stream # None
       PROVE  Backed(queue'[k], read'[queue'[k].stream])
  <2>1. CASE k = 1
    BY <1>3, <1>6, <1>12, <2>1
  <2>2. CASE k \in 2..STAT_COUNT
    <3> DEFINE t == queue[From(k)].stream
    <3>1. queue'[k] = queue[From(k)] /\ From(k) \in 1..STAT_COUNT /\ From(k) # i
      BY <1>6, <1>7, <2>2
    <3>2. t # None /\ t # s /\ t \in Streams
      BY <1>5, <1>8, <1>13, <3>1 DEF Record
    <3>3. t # queue[i].stream
      <4> From(k) < i \/ i < From(k)
        BY <1>1, <1>2, <3>1
      <4> QED BY <1>2, <3>1, <3>2 DEF StatInv
    <3>4. read'[t] = read[t]
      BY <1>4, <3>2, <3>3
    <3> QED BY <3>1, <3>2, <3>4 DEF StatInv
  <2> QED BY <1>9, <2>1, <2>2
<1> QED BY <1>6, <1>10, <1>11, <1>12, <1>13 DEF StatInv

-----------------------------------------------------------------------------
(* The theorems                                                            *)

LEMMA InitInv == Init => StatInv
<1> SUFFICES ASSUME Init PROVE StatInv
  OBVIOUS
<1>1. ResetStat(None) \in Record /\ ResetStat(None).stream = None
  BY DEF ResetStat, Record, Run, NoSeq
<1>2. queue = [i \in 1..STAT_COUNT |-> ResetStat(None)] /\ DOMAIN read = Streams
  BY DEF Init
<1> QED BY <1>1, <1>2 DEF StatInv

LEMMA NextInv == StatInv /\ [Next]_vars => StatInv'
<1>1. StatInv /\ UNCHANGED vars => StatInv'
  BY DEF vars, StatInv
<1> QED BY <1>1, UpdateInv DEF Next

LEMMA Inductive == Spec => []StatInv
  BY InitInv, NextInv, PTL DEF Spec

(* A record in use is not one that was never used.                         *)
LEMMA RecordsInUse ==
  ASSUME StatInv, NEW r \in Records
  PROVE  InUse(r) /\ r.stream # None /\ Backed(r, read[r.stream])
<1> PICK i \in 1..STAT_COUNT : r = queue[i]
  BY DEF Records
<1>1. InUse(r)
  BY DEF Records, StatInv
<1>2. r.stream # None
  BY <1>1, Constants DEF InUse
<1> QED BY <1>1, <1>2 DEF StatInv

(* Whichever records are moved and reused, a stream has one, and those     *)
(* that are not used are at the end of the queue: the search, which stops  *)
(* at the first of them, misses none.                                      *)
THEOREM StreamsHaveOneRecord == Spec => []OneRecordPerStream
<1>1. StatInv => OneRecordPerStream
  <2> SUFFICES ASSUME StatInv PROVE OneRecordPerStream
    OBVIOUS
  <2>1. Len(queue) = STAT_COUNT
    BY QueueIsSeq DEF StatInv
  <2>2. ASSUME NEW r \in Records
        PROVE  /\ r.stream \in Streams /\ {r.curr.start, r.prev.start} \subseteq Sectors
               /\ r.curr.count \in Nat \ {0} /\ r.prev.count \in Nat
    BY RecordsInUse DEF InUse, Record, Run
  <2> QED BY <2>1, <2>2 DEF OneRecordPerStream, TypeOK, StatInv
<1> QED BY <1>1, Inductive, PTL

(* All that a record claims has been read by its stream, in the order of   *)
(* its pattern, whatever runs and strides came before.                     *)
THEOREM RecordsAreBacked == Spec => []ClaimsAreBacked
<1>1. StatInv => ClaimsAreBacked
  BY RecordsInUse DEF ClaimsAreBacked, Backed
<1> QED BY <1>1, Inductive, PTL

-----------------------------------------------------------------------------
(* Iteration: induction as a statement on sets                             *)

LEMMA AllNaturals ==
  ASSUME NEW S, 0 \in S, \A n \in Nat : n \in S => n + 1 \in S
  PROVE  Nat \subseteq S
<1> DEFINE R == OpToRel(<, Nat)
           T == Nat \ S
<1> SUFFICES ASSUME T # {} PROVE FALSE
  OBVIOUS
<1>1. IsWellFoundedOn(R, Nat) /\ T \subseteq Nat
  BY NatLessThanWellFounded
<1>2. PICK x \in T : \A y \in T : ~(<<y, x>> \in R)
  <2> HIDE DEF R, T
  <2> QED BY <1>1, WFMin
<1>3. x \in Nat /\ x # 0 /\ x \notin S
  OBVIOUS
<1>4. x - 1 \in Nat /\ x - 1 < x /\ (x - 1) + 1 = x
  BY <1>3
<1>5. x - 1 \in S
  BY <1>2, <1>3, <1>4 DEF OpToRel
<1> QED BY <1>3, <1>4, <1>5

(* A function that maps a set into itself can be iterated in it.           *)
Iterates(f, G, first, max) == f[0] = first /\ \A n \in 1..max : f[n] = G[f[n - 1]]

LEMMA IterationExists ==
  ASSUME NEW V, NEW G \in [V -> V], NEW first \in V, NEW max \in Nat
  PROVE  \E f \in [0..max -> V] : Iterates(f, G, first, max)
<1> DEFINE Good(f, m) == f[0] = first /\ \A n \in 1..m : f[n] = G[f[n - 1]]
           S == {m \in Nat : \E f \in [0..m -> V] : Good(f, m)}
<1>1. 0 \in S
  <2> DEFINE f == [n \in 0..0 |-> first]
  <2>1. f \in [0..0 -> V] /\ Good(f, 0)
    OBVIOUS
  <2> QED BY <2>1
<1>2. ASSUME NEW m \in Nat, m \in S PROVE m + 1 \in S
  <2>1. PICK f \in [0..m -> V] : Good(f, m)
    BY <1>2
  <2> DEFINE g == [n \in 0..m + 1 |-> IF n <= m THEN f[n] ELSE G[f[m]]]
  <2>2. g \in [0..m + 1 -> V]
    OBVIOUS
  <2>3. ASSUME NEW n \in 1..m + 1 PROVE g[n] = G[g[n - 1]]
    <3>1. n - 1 \in 0..m /\ n - 1 <= m /\ n \in 0..m + 1 /\ n - 1 \in 0..m + 1
      OBVIOUS
    <3>2. g[n - 1] = f[n - 1]
      BY <3>1
    <3>3. CASE n <= m
      <4>1. n \in 1..m /\ g[n] = f[n]
        BY <3>1, <3>3
      <4> QED BY <2>1, <3>2, <4>1
    <3>4. CASE ~(n <= m)
      <4>1. n = m + 1 /\ n - 1 = m
        BY <3>4
      <4>2. g[n] = G[f[m]]
        BY <3>1, <3>4
      <4> QED BY <3>2, <4>1, <4>2
    <3> QED BY <3>3, <3>4
  <2>4. g[0] = first
    BY <2>1
  <2> HIDE DEF g
  <2> QED BY <1>2, <2>2, <2>3, <2>4
<1>3. max \in S
  <2> HIDE DEF S
  <2> QED BY <1>1, <1>2, AllNaturals
<1> QED BY <1>3 DEF Iterates

-----------------------------------------------------------------------------
(* The two loops                                                           *)

Loops == [arr : Seq(Int), j : Nat, dbn : Int, skip : Nat, done : BOOLEAN]

ForwardStep(r, max, l) ==
  LET next == l.dbn + block_size IN
  IF r.prev.count # 0 /\ l.j >= r.prev.count
  THEN Loop(l.arr, 0, l.dbn + r.stride - r.prev.count * block_size, 0)
  ELSE IF Len(l.arr) >= max \/ next >= nr_sects THEN [l EXCEPT !.done = TRUE]
  ELSE Loop(Append(l.arr, next), l.j + 1, next, 0)

BackwardStep(r, max, l) ==
  LET total == r.prev.count
      next == l.dbn - block_size
      whole == IF Len(l.arr) < l.j THEN 0 ELSE Len(l.arr) - l.j
  IN IF l.j >= total
     THEN Loop(l.arr, 0, l.dbn + r.stride + (total - l.skip) * block_size, 0)
     ELSE IF Len(l.arr) >= max THEN [l EXCEPT !.done = TRUE]
     ELSE IF next < 0 THEN [l EXCEPT !.done = TRUE, !.arr = SubSeq(@, 1, whole)]
     ELSE Loop(Append(l.arr, next), l.j + 1, next, l.skip)

BackwardFirst(r) ==
  LET total == r.prev.count
      count == r.curr.count
  IN IF total = count
     THEN Loop(<<>>, 0, LastSect(r) + r.stride + block_size, 0)
     ELSE Loop(<<>>, count, LastSect(r) + (total - count + 1) * block_size, count)

(* What the steps of a loop preserve holds at its end.                     *)
LEMMA ForwardStays ==
  ASSUME NEW r, NEW max \in Nat, NEW V, Loop(<<>>, r.curr.count, LastSect(r), 0) \in V,
         \A l \in V : ~l.done => ForwardStep(r, max, l) \in V
  PROVE  \E l \in V : Forward(r, max) = l.arr
<1> DEFINE first == Loop(<<>>, r.curr.count, LastSect(r), 0)
           size == 2 * max + 2
           Step(l) == IF l.done THEN l ELSE ForwardStep(r, max, l)
           Computes(f) == f = [n \in 0..size |-> IF n = 0 THEN first ELSE Step(f[n - 1])]
           f == CHOOSE g : Computes(g)
<1>1. Forward(r, max) = f[size].arr
  BY DEF Forward, Iterate, ForwardStep
<1>2. size \in Nat
  OBVIOUS
<1> DEFINE G == [l \in V |-> Step(l)]
<1>3. G \in [V -> V] /\ first \in V /\ \A l \in V : G[l] = Step(l) /\ Step(l) \in V
  OBVIOUS
<1> HIDE DEF first, Step, G, size
<1>4. Computes(f)
  <2>1. PICK g \in [0..size -> V] : Iterates(g, G, first, size)
    BY <1>2, <1>3, IterationExists
  <2>2. ASSUME NEW n \in 0..size PROVE g[n] = IF n = 0 THEN first ELSE Step(g[n - 1])
    <3>1. n # 0 => n \in 1..size /\ n - 1 \in 0..size
      BY <1>2
    <3> QED BY <1>3, <2>1, <3>1 DEF Iterates
  <2>3. Computes(g)
    BY <2>2
  <2> HIDE DEF Computes
  <2> QED BY <2>3
<1> HIDE DEF f
<1> DEFINE S == {n \in Nat : n <= size => f[n] \in V}
<1>5. 0 \in S
  BY <1>2, <1>3, <1>4
<1>6. ASSUME NEW n \in Nat, n \in S PROVE n + 1 \in S
  <2> SUFFICES ASSUME n + 1 <= size PROVE f[n + 1] \in V
    OBVIOUS
  <2>1. n <= size /\ n + 1 \in 0..size /\ n + 1 # 0 /\ (n + 1) - 1 = n
    BY <1>2
  <2>2. f[n + 1] = Step(f[n])
    BY <1>4, <2>1
  <2> QED BY <1>3, <1>6, <2>1, <2>2
<1>7. size \in S
  <2> HIDE DEF S
  <2> QED BY <1>2, <1>5, <1>6, AllNaturals
<1> QED BY <1>1, <1>2, <1>7

LEMMA BackwardStays ==
  ASSUME NEW r, NEW max \in Nat, NEW V, BackwardFirst(r) \in V,
         \A l \in V : ~l.done => BackwardStep(r, max, l) \in V
  PROVE  \E l \in V : Backward(r, max) = l.arr
<1> DEFINE first == BackwardFirst(r)
           size == 2 * max + 2
           Step(l) == IF l.done THEN l ELSE BackwardStep(r, max, l)
           Computes(f) == f = [n \in 0..size |-> IF n = 0 THEN first ELSE Step(f[n - 1])]
           f == CHOOSE g : Computes(g)
<1>1. Backward(r, max) = f[size].arr
  BY DEF Backward, Iterate, BackwardStep, BackwardFirst
<1>2. size \in Nat
  OBVIOUS
<1> DEFINE G == [l \in V |-> Step(l)]
<1>3. G \in [V -> V] /\ first \in V /\ \A l \in V : G[l] = Step(l) /\ Step(l) \in V
  OBVIOUS
<1> HIDE DEF first, Step, G, size
<1>4. Computes(f)
  <2>1. PICK g \in [0..size -> V] : Iterates(g, G, first, size)
    BY <1>2, <1>3, IterationExists
  <2>2. ASSUME NEW n \in 0..size PROVE g[n] = IF n = 0 THEN first ELSE Step(g[n - 1])
    <3>1. n # 0 => n \in 1..size /\ n - 1 \in 0..size
      BY <1>2
    <3> QED BY <1>3, <2>1, <3>1 DEF Iterates
  <2>3. Computes(g)
    BY <2>2
  <2> HIDE DEF Computes
  <2> QED BY <2>3
<1> HIDE DEF f
<1> DEFINE S == {n \in Nat : n <= size => f[n] \in V}
<1>5. 0 \in S
  BY <1>2, <1>3, <1>4
<1>6. ASSUME NEW n \in Nat, n \in S PROVE n + 1 \in S
  <2> SUFFICES ASSUME n + 1 <= size PROVE f[n + 1] \in V
    OBVIOUS
  <2>1. n <= size /\ n + 1 \in 0..size /\ n + 1 # 0 /\ (n + 1) - 1 = n
    BY <1>2
  <2>2. f[n + 1] = Step(f[n])
    BY <1>4, <2>1
  <2> QED BY <1>3, <1>6, <2>1, <2>2
<1>7. size \in S
  <2> HIDE DEF S
  <2> QED BY <1>2, <1>5, <1>6, AllNaturals
<1> QED BY <1>1, <1>2, <1>7

-----------------------------------------------------------------------------
(* The pattern of a record                                                 *)

LEMMA OnDisk == \A s \in Sectors : s \in Int /\ 0 <= s /\ s < nr_sects
<1>1. block_size \in Nat /\ block_size > 0 /\ nr_sects \in Nat
  BY PfdStatAssumption
<1> DEFINE d == nr_sects \div block_size
<1>2. d \in Int /\ block_size * d <= nr_sects
  BY <1>1
<1> HIDE DEF d
<1>3. ASSUME NEW n \in 0..d - 1
      PROVE  n * block_size \in Int /\ 0 <= n * block_size /\ n * block_size < nr_sects
  <2>1. n + 1 <= d /\ n \in Nat
    BY <1>2
  <2>2. (n + 1) * block_size <= d * block_size
    BY <1>1, <1>2, <2>1
  <2>3. (n + 1) * block_size = n * block_size + block_size /\ n * block_size \in Nat
    BY <1>1, <2>1
  <2> QED BY <1>1, <1>2, <2>2, <2>3
<1> QED BY <1>3 DEF Sectors, d

LEMMA InUseFields ==
  ASSUME NEW r, InUse(r)
  PROVE  /\ r.curr.start \in Int /\ 0 <= r.curr.start /\ r.curr.start < nr_sects
         /\ r.curr.count \in Nat \ {0} /\ r.prev.count \in Nat /\ r.stride_count \in Nat
         /\ r.stride \in Int
         /\ r.prev.count = 0 => r.stride = 0
         /\ r.prev.count # 0 => /\ r.curr.count <= r.prev.count /\ r.stride_count # 0
                                /\ r.prev.count * block_size <= Abs(r.stride)
         /\ block_size \in Nat \ {0} /\ nr_sects \in Nat
<1>1. /\ r.curr \in Run /\ r.prev \in Run /\ r.stride \in Int /\ r.stride_count \in Nat
      /\ r.curr.start \in Sectors /\ block_size \in Nat \ {0} /\ nr_sects \in Nat
  BY PfdStatAssumption DEF InUse, Record
<1> QED BY <1>1, OnDisk DEF InUse, Spaced, Run

(* Read j of run q after the current one.                                  *)
LEMMA PatternAt ==
  ASSUME NEW r, InUse(r), NEW q \in Int, NEW j \in Int,
         r.prev.count # 0 => 0 <= j /\ j < r.prev.count
  PROVE  Pattern(r, q * r.prev.count + j) = r.curr.start + q * r.stride + j * block_size
<1> DEFINE p == r.prev.count
<1>1. /\ p \in Nat /\ r.curr.start \in Int /\ r.stride \in Int /\ block_size \in Nat
      /\ p = 0 => r.stride = 0
  BY InUseFields
<1>2. CASE p = 0
  <2>1. q * p + j = j /\ q * r.stride = 0
    BY <1>1, <1>2
  <2>2. Pattern(r, j) = r.curr.start + j * block_size
    BY <1>2 DEF Pattern
  <2>3. j * block_size \in Int
    BY <1>1
  <2> QED BY <1>1, <2>1, <2>2, <2>3
<1>3. CASE p # 0
  <2>1. p \in Int /\ p > 0 /\ 0 <= j /\ j < p
    BY <1>1, <1>3
  <2> HIDE DEF p
  <2>2. (p * q + j) \div p = q /\ (p * q + j) % p = j
    BY <2>1, Quotient
  <2>3. p * q = q * p
    BY <2>1
  <2> QED BY <1>3, <2>2, <2>3 DEF Pattern, p
<1> QED BY <1>2, <1>3

(* Every number is that of a read of some run.                             *)
LEMMA RunOf ==
  ASSUME NEW r, InUse(r), NEW n \in Int
  PROVE  \E q \in Int, j \in Int :
           /\ n = q * r.prev.count + j
           /\ r.prev.count = 0 => q = 0
           /\ r.prev.count # 0 => 0 <= j /\ j < r.prev.count
           /\ 0 <= n => 0 <= q /\ 0 <= j
<1> DEFINE p == r.prev.count
<1>1. p \in Nat
  BY InUseFields
<1>2. CASE p = 0
  <2>1. n = 0 * p + n
    BY <1>2
  <2> QED BY <1>2, <2>1
<1>3. CASE p # 0
  <2> DEFINE q == n \div p
             j == n % p
  <2> HIDE DEF p
  <2>1. q \in Int /\ j \in Int /\ n = p * q + j /\ 0 <= j /\ j < p /\ p > 0
    BY <1>1, <1>3
  <2> HIDE DEF q, j
  <2>2. 0 <= n => 0 <= q
    <3>1. q <= -1 => p * q <= -p
      BY <1>1, <2>1
    <3> QED BY <1>1, <2>1, <3>1
  <2>3. p * q = q * p
    BY <1>1, <2>1
  <2> QED BY <1>3, <2>1, <2>2, <2>3 DEF p
<1> QED BY <1>2, <1>3

(* Runs that far apart do not meet.                                        *)
LEMMA Apart ==
  ASSUME NEW a \in Int, NEW st \in Int, NEW e \in Int, NEW b \in Nat \ {0}, NEW p \in Nat,
         p * b <= Abs(st), -p < e, e < p, a * st + e * b = 0
  PROVE  a = 0 /\ e = 0
<1>1. p * b \in Int /\ a * st \in Int /\ e * b \in Int
  OBVIOUS
<1>2. e * b < p * b /\ -(p * b) < e * b
  <2>1. e + 1 <= p /\ 1 - p <= e
    OBVIOUS
  <2>2. (e + 1) * b <= p * b /\ (1 - p) * b <= e * b
    BY <2>1
  <2>3. (e + 1) * b = e * b + b /\ (1 - p) * b = b - p * b
    OBVIOUS
  <2> QED BY <1>1, <2>2, <2>3
<1>3. Abs(st) \in Nat /\ (st = Abs(st) \/ st = -Abs(st))
  BY DEF Abs
<1> DEFINE m == Abs(st)
<1> HIDE DEF m
<1>4. a * st = a * m \/ a * st = -(a * m)
  BY <1>3 DEF m
<1>5. a >= 1 => a * m >= m
  BY <1>3 DEF m
<1>6. a <= -1 => a * m <= -m
  BY <1>3 DEF m
<1>7. m \in Nat /\ a * m \in Int /\ p * b <= m
  BY <1>3 DEF m
<1>8. a = 0
  BY <1>1, <1>2, <1>4, <1>5, <1>6, <1>7
<1>9. e * b = 0
  BY <1>1, <1>8
<1>10. e = 0
  BY <1>9
<1> QED BY <1>8, <1>10

(* No block twice.                                                         *)
LEMMA PatternInjective ==
  ASSUME NEW r, InUse(r), NEW m \in Int, NEW n \in Int, Pattern(r, m) = Pattern(r, n)
  PROVE  m = n
<1> DEFINE p == r.prev.count
           st == r.stride
           b == block_size
           start == r.curr.start
<1>1. /\ p \in Nat /\ start \in Int /\ st \in Int /\ b \in Nat \ {0}
      /\ p # 0 => p * b <= Abs(st)
  BY InUseFields
<1>2. PICK q1 \in Int, j1 \in Int :
        /\ m = q1 * p + j1
        /\ p = 0 => q1 = 0
        /\ p # 0 => 0 <= j1 /\ j1 < p
  BY RunOf
<1>3. PICK q2 \in Int, j2 \in Int :
        /\ n = q2 * p + j2
        /\ p = 0 => q2 = 0
        /\ p # 0 => 0 <= j2 /\ j2 < p
  BY RunOf
<1>4. Pattern(r, m) = start + q1 * st + j1 * b
  BY <1>2, PatternAt
<1>5. Pattern(r, n) = start + q2 * st + j2 * b
  BY <1>3, PatternAt
<1> HIDE DEF p, st, b, start
<1>6. (q1 - q2) * st + (j1 - j2) * b = 0
  <2> DEFINE x1 == q1 * st
             x2 == q2 * st
             y1 == j1 * b
             y2 == j2 * b
  <2>1. /\ (q1 - q2) * st = x1 - x2 /\ (j1 - j2) * b = y1 - y2
        /\ x1 \in Int /\ x2 \in Int /\ y1 \in Int /\ y2 \in Int
    BY <1>1
  <2>2. start + x1 + y1 = start + x2 + y2
    BY <1>4, <1>5
  <2> HIDE DEF x1, x2, y1, y2
  <2> QED BY <1>1, <2>1, <2>2
<1>7. q1 = q2 /\ j1 = j2
  <2>1. CASE p = 0
    <3>1. q1 = 0 /\ q2 = 0 /\ (0 - 0) * st = 0 /\ (j1 - j2) * b \in Int
      BY <1>1, <1>2, <1>3, <2>1
    <3>2. (j1 - j2) * b = 0
      BY <1>6, <3>1
    <3>3. j1 - j2 = 0
      BY <1>1, <3>2
    <3> QED BY <3>1, <3>3
  <2>2. CASE p # 0
    <3>1. -p < j1 - j2 /\ j1 - j2 < p /\ q1 - q2 \in Int /\ j1 - j2 \in Int
      BY <1>1, <1>2, <1>3, <2>2
    <3>2. q1 - q2 = 0 /\ j1 - j2 = 0
      BY <1>1, <1>6, <2>2, <3>1, Apart
    <3> QED BY <3>2
  <2> QED BY <2>1, <2>2
<1> QED BY <1>2, <1>3, <1>7

-----------------------------------------------------------------------------
(* The window forwards                                                     *)

(* The k-th read after the last one.                                       *)
Coming(r, k) == Pattern(r, r.curr.count - 1 + k)

IsLoop(l, arr, j, dbn, skip) ==
  l \in Loops /\ l.arr = arr /\ l.j = j /\ l.dbn = dbn /\ l.skip = skip

LEMMA LoopFields ==
  ASSUME NEW arr \in Seq(Int), NEW j \in Nat, NEW dbn \in Int, NEW skip \in Nat
  PROVE  IsLoop(Loop(arr, j, dbn, skip), arr, j, dbn, skip)
  BY DEF Loop, Loops, IsLoop

LEMMA DoneFields ==
  ASSUME NEW l \in Loops, NEW arr \in Seq(Int)
  PROVE  /\ [l EXCEPT !.done = TRUE] \in Loops
         /\ [l EXCEPT !.done = TRUE].arr = l.arr
         /\ [l EXCEPT !.done = TRUE].done
         /\ [l EXCEPT !.done = TRUE, !.arr = arr] \in Loops
         /\ [l EXCEPT !.done = TRUE, !.arr = arr].arr = arr
         /\ [l EXCEPT !.done = TRUE, !.arr = arr].done
  BY DEF Loops

LEMMA Appended ==
  ASSUME NEW arr \in Seq(Int), NEW x \in Int
  PROVE  /\ Len(arr) \in Nat
         /\ Append(arr, x) \in Seq(Int) /\ Len(Append(arr, x)) = Len(arr) + 1
         /\ Append(arr, x)[Len(arr) + 1] = x
         /\ \A k \in 1..Len(arr) : arr[k] \in Int /\ Append(arr, x)[k] = arr[k]
  OBVIOUS

(* The loop stands before read j of run q, which comes next or, if the run *)
(* is over, is the first one of the next run.                              *)
StandsAt(r, l, q) ==
  /\ r.curr.count + Len(l.arr) = q * r.prev.count + l.j
  /\ r.prev.count # 0 => l.j <= r.prev.count
  /\ l.dbn = r.curr.start + q * r.stride + (l.j - 1) * block_size

Ahead(r, max) ==
  {l \in Loops :
     /\ Len(l.arr) <= max
     /\ \A k \in 1..Len(l.arr) : l.arr[k] = Coming(r, k) /\ l.arr[k] < nr_sects
     /\ l.done \/ \E q \in Int : StandsAt(r, l, q)}

LEMMA AheadStep ==
  ASSUME NEW r, InUse(r), NEW max \in Nat, NEW l \in Ahead(r, max), ~l.done
  PROVE  ForwardStep(r, max, l) \in Ahead(r, max)
<1> DEFINE p == r.prev.count
           c == r.curr.count
           st == r.stride
           start == r.curr.start
           b == block_size
           arr == l.arr
           j == l.j
           next == l.dbn + b
<1>1. /\ p \in Nat /\ c \in Nat \ {0} /\ start \in Int /\ st \in Int /\ b \in Nat \ {0}
      /\ nr_sects \in Nat
  BY InUseFields
<1>2. /\ l \in Loops /\ arr \in Seq(Int) /\ j \in Nat /\ l.dbn \in Int /\ Len(arr) \in Nat
      /\ Len(arr) <= max
      /\ \A k \in 1..Len(arr) : arr[k] = Coming(r, k) /\ arr[k] < nr_sects
  BY DEF Ahead, Loops
<1>3. PICK q \in Int : StandsAt(r, l, q)
  BY DEF Ahead
<1>4. CASE p # 0 /\ j >= p
  <2> DEFINE dbn == l.dbn + st - p * b
             m == Loop(arr, 0, dbn, 0)
  <2>1. ForwardStep(r, max, l) = m
    BY <1>4 DEF ForwardStep
  <2>2. dbn \in Int /\ 0 \in Nat
    BY <1>1, <1>2
  <2>3. m \in Loops /\ m.arr = arr /\ m.j = 0 /\ m.dbn = dbn
    <3> HIDE DEF dbn
    <3>1. IsLoop(m, arr, 0, dbn, 0)
      BY <1>2, <2>2, LoopFields
    <3> QED BY <3>1 DEF IsLoop
  <2>4. j = p
    BY <1>1, <1>2, <1>3, <1>4 DEF StandsAt
  <2>5. c + Len(arr) = (q + 1) * p + 0
    <3>1. c + Len(arr) = q * p + p
      BY <1>3, <2>4 DEF StandsAt
    <3> HIDE DEF p, c
    <3>2. (q + 1) * p = q * p + p /\ q * p \in Int
      BY <1>1
    <3> QED BY <1>1, <3>1, <3>2
  <2>6. dbn = start + (q + 1) * st + (0 - 1) * b
    <3>1. dbn = start + q * st + (p - 1) * b + st - p * b
      BY <1>3, <2>4 DEF StandsAt
    <3> HIDE DEF p, st, b, start, dbn
    <3> DEFINE x == q * st
               y == p * b
    <3>2. /\ (q + 1) * st = x + st /\ (p - 1) * b = y - b /\ (0 - 1) * b = -b
          /\ x \in Int /\ y \in Int
      BY <1>1
    <3>3. dbn = start + x + (p - 1) * b + st - y
      BY <3>1
    <3> HIDE DEF x, y
    <3> QED BY <1>1, <3>2, <3>3
  <2>7. StandsAt(r, m, q + 1) /\ q + 1 \in Int
    <3> HIDE DEF m, dbn
    <3> QED BY <1>1, <2>3, <2>5, <2>6 DEF StandsAt
  <2> HIDE DEF m, dbn
  <2>8. m \in Ahead(r, max)
    BY <1>2, <2>3, <2>7 DEF Ahead
  <2> QED BY <2>1, <2>8
<1>5. CASE ~(p # 0 /\ j >= p) /\ (Len(arr) >= max \/ next >= nr_sects)
  <2> DEFINE m == [l EXCEPT !.done = TRUE]
  <2>1. ForwardStep(r, max, l) = m
    BY <1>5 DEF ForwardStep
  <2>2. m \in Loops /\ m.arr = arr /\ m.done
    BY <1>2, DoneFields
  <2> HIDE DEF m
  <2>3. m \in Ahead(r, max)
    BY <1>2, <2>2 DEF Ahead
  <2> QED BY <2>1, <2>3
<1>6. CASE ~(p # 0 /\ j >= p) /\ ~(Len(arr) >= max \/ next >= nr_sects)
  <2> DEFINE longer == Append(arr, next)
             m == Loop(longer, j + 1, next, 0)
  <2>1. ForwardStep(r, max, l) = m
    BY <1>6 DEF ForwardStep
  <2>2. next \in Int /\ j + 1 \in Nat /\ 0 \in Nat
    BY <1>1, <1>2
  <2>3. /\ longer \in Seq(Int) /\ Len(longer) = Len(arr) + 1 /\ longer[Len(arr) + 1] = next
        /\ \A k \in 1..Len(arr) : longer[k] = arr[k]
    <3> HIDE DEF next
    <3> QED BY <1>2, <2>2, Appended
  <2> HIDE DEF longer
  <2>4. m \in Loops /\ m.arr = longer /\ m.j = j + 1 /\ m.dbn = next
    <3> HIDE DEF next
    <3>1. IsLoop(m, longer, j + 1, next, 0)
      BY <2>2, <2>3, LoopFields
    <3> QED BY <3>1 DEF IsLoop
  <2>5. next = start + q * st + j * b
    <3>1. next = start + q * st + (j - 1) * b + b
      BY <1>3 DEF StandsAt
    <3> HIDE DEF next, st, b, start, j
    <3> DEFINE x == q * st
               y == j * b
    <3>0. j \in Int /\ b \in Int /\ st \in Int
      BY <1>1, <1>2
    <3>2. (j - 1) * b = y - b /\ x \in Int /\ y \in Int
      BY <3>0
    <3> HIDE DEF x, y
    <3>3. next = start + x + (y - b) + b
      BY <3>1, <3>2 DEF x
    <3>4. next = start + x + y
      BY <1>1, <3>2, <3>3
    <3> QED BY <3>4 DEF x, y
  <2>6. next = Coming(r, Len(arr) + 1)
    <3>1. Pattern(r, q * p + j) = next
      <4>1. j \in Int /\ (p # 0 => 0 <= j /\ j < p)
        BY <1>1, <1>2, <1>6
      <4> QED BY <2>5, <4>1, PatternAt
    <3>2. c - 1 + (Len(arr) + 1) = q * p + j
      <4>1. c - 1 + (Len(arr) + 1) = c + Len(arr)
        <5>1. c \in Int /\ Len(arr) \in Int
          BY <1>1, <1>2
        <5> HIDE DEF c, arr
        <5> QED BY <5>1
      <4> QED BY <1>3, <4>1 DEF StandsAt
    <3> QED BY <3>1, <3>2 DEF Coming
  <2>7. \A k \in 1..Len(longer) : longer[k] = Coming(r, k) /\ longer[k] < nr_sects
    <3>1. next < nr_sects
      BY <1>1, <1>6, <2>2
    <3>2. \A k \in 1..Len(longer) : k \in 1..Len(arr) \/ k = Len(arr) + 1
      BY <1>2, <2>3
    <3> HIDE DEF next
    <3> QED BY <1>2, <2>3, <2>6, <3>1, <3>2
  <2>8. Len(longer) <= max
    BY <1>2, <1>6, <2>3
  <2>9. StandsAt(r, m, q)
    <3>1. c + Len(longer) = q * p + (j + 1)
      <4>1. c + Len(arr) = q * p + j
        BY <1>3 DEF StandsAt
      <4> HIDE DEF p, c, j
      <4>2. /\ q * p \in Int /\ c \in Int /\ j \in Int /\ Len(arr) \in Int
            /\ Len(longer) = Len(arr) + 1
        BY <1>1, <1>2, <2>3
      <4> QED BY <4>1, <4>2
    <3>2. p # 0 => j + 1 <= p
      BY <1>1, <1>2, <1>6
    <3>3. (j + 1) - 1 = j
      BY <1>2
    <3> HIDE DEF m, next
    <3> QED BY <2>4, <2>5, <3>1, <3>2, <3>3 DEF StandsAt
  <2> HIDE DEF m
  <2>10. m \in Ahead(r, max)
    BY <2>4, <2>7, <2>8, <2>9 DEF Ahead
  <2> QED BY <2>1, <2>10
<1> QED BY <1>4, <1>5, <1>6

(* Forwards, the window is what comes next in the pattern.                 *)
LEMMA ForwardFollows ==
  ASSUME NEW r, InUse(r), NEW max \in Nat
  PROVE  LET w == Forward(r, max)
         IN  /\ w \in Seq(Int) /\ Len(w) <= max
             /\ \A k \in 1..Len(w) : w[k] = Coming(r, k) /\ w[k] < nr_sects
<1> DEFINE first == Loop(<<>>, r.curr.count, LastSect(r), 0)
<1>1. /\ r.curr.count \in Nat \ {0} /\ r.prev.count \in Nat /\ r.curr.start \in Int
      /\ r.stride \in Int /\ block_size \in Nat \ {0}
      /\ r.prev.count # 0 => r.curr.count <= r.prev.count
  BY InUseFields
<1>2. LastSect(r) \in Int /\ <<>> \in Seq(Int) /\ 0 \in Nat /\ Len(<<>>) = 0
  BY <1>1 DEF LastSect
<1>3. first \in Loops /\ first.arr = <<>> /\ first.j = r.curr.count /\ first.dbn = LastSect(r)
  <2>1. IsLoop(first, <<>>, r.curr.count, LastSect(r), 0)
    BY <1>1, <1>2, LoopFields
  <2> QED BY <2>1 DEF IsLoop
<1> HIDE DEF first
<1>4. StandsAt(r, first, 0)
  <2>1. 0 * r.prev.count = 0 /\ 0 * r.stride = 0 /\ (r.curr.count - 1) * block_size \in Int
    BY <1>1
  <2> QED BY <1>1, <1>2, <1>3, <2>1 DEF StandsAt, LastSect
<1>5. first \in Ahead(r, max)
  BY <1>2, <1>3, <1>4 DEF Ahead
<1>6. \E l \in Ahead(r, max) : Forward(r, max) = l.arr
  BY <1>5, AheadStep, ForwardStays DEF first
<1> QED BY <1>6 DEF Ahead, Loops

-----------------------------------------------------------------------------
(* The window backwards                                                    *)

(* The loop has taken the end of run q, all but the first left reads of it.*)
Left(r, l) == r.prev.count - (l.j - l.skip)

StandsIn(r, l, q) ==
  /\ r.curr.count + Len(l.arr) = q * r.prev.count + l.j /\ l.j <= r.prev.count
  /\ q = 0 => l.skip = r.curr.count /\ l.skip <= l.j
  /\ q # 0 => l.skip = 0
  /\ l.dbn = r.curr.start + q * r.stride + Left(r, l) * block_size

(* Block x is that of a later read, one of those that are in question for  *)
(* place i of the window.                                                  *)
Later(r, x, i) ==
  \E n \in Int : x = Pattern(r, n) /\ r.curr.count <= n /\ n < r.curr.count + i + r.prev.count

(* Block x is that of a read of an earlier run, or of this one and taken.  *)
Taken(r, l, q, x) ==
  \E n \in Int :
    /\ x = Pattern(r, n) /\ n < q * r.prev.count + r.prev.count
    /\ n < q * r.prev.count \/ n >= q * r.prev.count + Left(r, l)

Onward(r, arr) ==
  \A i \in 1..Len(arr) :
    /\ 0 <= arr[i] /\ Later(r, arr[i], i)
    /\ \A k \in 1..Len(arr) : arr[i] = arr[k] => i = k

Behind(r, max) ==
  {l \in Loops :
     /\ Len(l.arr) <= max /\ Onward(r, l.arr)
     /\ \/ l.done
        \/ \E q \in Nat : /\ StandsIn(r, l, q)
                          /\ \A i \in 1..Len(l.arr) : Taken(r, l, q, l.arr[i])}

(* The loop goes on to the end of the next run.                            *)
LEMMA BehindRun ==
  ASSUME NEW r, InUse(r), r.prev.count # 0, NEW l \in Loops, NEW q \in Nat, StandsIn(r, l, q),
         l.j >= r.prev.count, \A i \in 1..Len(l.arr) : Taken(r, l, q, l.arr[i]),
         NEW m, IsLoop(m, l.arr, 0, l.dbn + r.stride + (r.prev.count - l.skip) * block_size, 0)
  PROVE  StandsIn(r, m, q + 1) /\ \A i \in 1..Len(m.arr) : Taken(r, m, q + 1, m.arr[i])
<1> DEFINE p == r.prev.count
           c == r.curr.count
           st == r.stride
           start == r.curr.start
           b == block_size
           size == Len(l.arr)
           skip == l.skip
<1>1. /\ p \in Int /\ c \in Int /\ start \in Int /\ st \in Int /\ b \in Int /\ p > 0
  BY InUseFields
<1>2. size \in Int /\ l.j \in Int /\ skip \in Int /\ l.arr \in Seq(Int)
  BY DEF Loops
<1>3. m.arr = l.arr /\ m.j = 0 /\ m.skip = 0 /\ m.dbn = l.dbn + st + (p - skip) * b
  BY DEF IsLoop
<1>4. l.j = p
  BY <1>1, <1>2 DEF StandsIn
<1>5. Left(r, l) = skip /\ Left(r, m) = p
  <2>1. p - (p - skip) = skip /\ p - (0 - 0) = p
    <3> HIDE DEF p, skip
    <3> QED BY <1>1, <1>2
  <2> QED BY <1>3, <1>4, <2>1 DEF Left
<1> DEFINE x == q * p
           y == (q + 1) * p
<1>6. x \in Int /\ y \in Int /\ y = x + p
  <2> HIDE DEF p
  <2> QED BY <1>1
<1>7. c + size = y + 0
  <2>1. c + size = x + p
    BY <1>4 DEF StandsIn
  <2> HIDE DEF c, size, x, y, p
  <2> QED BY <1>1, <1>2, <1>6, <2>1
<1>8. m.dbn = start + (q + 1) * st + p * b
  <2> DEFINE d == m.dbn
             u == q * st
             v == skip * b
             w == p * b
  <2>1. d = start + u + v + st + (p - skip) * b
    BY <1>3, <1>5 DEF StandsIn
  <2>2. /\ (p - skip) * b = w - v /\ (q + 1) * st = u + st
        /\ u \in Int /\ v \in Int /\ w \in Int
    <3>1. p \in Int /\ skip \in Int /\ b \in Int /\ st \in Int
      BY <1>1, <1>2
    <3> HIDE DEF p, skip, b, st
    <3>2. (p - skip) * b = w - v
      BY <3>1
    <3>3. (q + 1) * st = u + st
      BY <3>1
    <3> QED BY <3>1, <3>2, <3>3
  <2> HIDE DEF d, u, v, w, p, skip, b, st, start
  <2>3. d = start + (u + st) + w
    BY <1>1, <2>1, <2>2
  <2> QED BY <2>2, <2>3 DEF d, w
<1>9. StandsIn(r, m, q + 1)
  <2>1. 0 <= p /\ q + 1 # 0
    BY <1>1
  <2> QED BY <1>3, <1>5, <1>7, <1>8, <2>1 DEF StandsIn
<1>10. ASSUME NEW i \in 1..Len(m.arr) PROVE Taken(r, m, q + 1, m.arr[i])
  <2>1. PICK n \in Int : l.arr[i] = Pattern(r, n) /\ n < x + p
    BY <1>3 DEF Taken
  <2>2. n < y /\ n < y + p
    <3> HIDE DEF x, y, p
    <3> QED BY <1>1, <1>6, <2>1
  <2> QED BY <1>3, <2>1, <2>2 DEF Taken
<1> QED BY <1>9, <1>10

(* The loop takes the block before.                                        *)
LEMMA BehindBlock ==
  ASSUME NEW r, InUse(r), r.prev.count # 0, NEW l \in Loops, NEW q \in Nat, StandsIn(r, l, q),
         l.j < r.prev.count, \A i \in 1..Len(l.arr) : Taken(r, l, q, l.arr[i]),
         Onward(r, l.arr), 0 <= l.dbn - block_size,
         NEW m, IsLoop(m, Append(l.arr, l.dbn - block_size), l.j + 1, l.dbn - block_size, l.skip)
  PROVE  /\ StandsIn(r, m, q) /\ Onward(r, m.arr)
         /\ \A i \in 1..Len(m.arr) : Taken(r, m, q, m.arr[i])
<1> DEFINE p == r.prev.count
           c == r.curr.count
           st == r.stride
           start == r.curr.start
           b == block_size
           size == Len(l.arr)
           next == l.dbn - b
           e == Left(r, l) - 1
           x == q * p
           n == x + e
<1>1. /\ p \in Int /\ c \in Int /\ start \in Int /\ st \in Int /\ b \in Int /\ p > 0 /\ c <= p
      /\ c > 0
  BY InUseFields
<1>2. size \in Int /\ l.j \in Nat /\ l.skip \in Nat /\ l.arr \in Seq(Int) /\ next \in Int
  BY <1>1 DEF Loops
<1>3. /\ m.arr = Append(l.arr, next) /\ m.j = l.j + 1 /\ m.skip = l.skip /\ m.dbn = next
  BY DEF IsLoop
<1>4. /\ Len(m.arr) = size + 1 /\ m.arr[size + 1] = next
      /\ \A i \in 1..size : m.arr[i] = l.arr[i] /\ l.arr[i] \in Int
  BY <1>2, <1>3, Appended
<1>5. l.skip <= l.j /\ l.j < p /\ l.skip <= c
  BY <1>1, <1>2 DEF StandsIn
<1>6. e \in Int /\ 0 <= e /\ e < p /\ Left(r, m) = e
  <2>1. Left(r, l) = p - (l.j - l.skip) /\ Left(r, m) = p - ((l.j + 1) - l.skip)
    <3>1. m.j = l.j + 1 /\ m.skip = l.skip
      BY <1>3
    <3>2. Left(r, m) = p - (m.j - m.skip) /\ Left(r, l) = p - (l.j - l.skip)
      BY DEF Left
    <3> QED BY <3>1, <3>2
  <2> DEFINE j == l.j
             skip == l.skip
             f == Left(r, l)
             g == Left(r, m)
  <2>2. /\ f = p - (j - skip) /\ g = p - ((j + 1) - skip) /\ e = f - 1
        /\ p \in Int /\ j \in Nat /\ skip \in Nat /\ skip <= j /\ j < p
    BY <1>1, <1>2, <1>5, <2>1
  <2> HIDE DEF p, j, skip, f, g, e
  <2>3. e \in Int /\ 0 <= e /\ e < p /\ g = e
    BY <2>2
  <2> QED BY <2>3 DEF g
<1>7. x \in Int /\ n \in Int
  <2> HIDE DEF p, e
  <2> QED BY <1>1, <1>6
<1>8. next = start + q * st + e * b
  <2> DEFINE u == q * st
             f == Left(r, l)
             v == f * b
             d == l.dbn
  <2>1. d = start + u + v
    BY DEF StandsIn
  <2>2. f \in Int /\ e = f - 1
    BY <1>1, <1>2 DEF Left
  <2> HIDE DEF f, e
  <2>3. e * b = v - b /\ u \in Int /\ v \in Int
    <3> HIDE DEF b, st
    <3> QED BY <1>1, <2>2
  <2>4. next = d - b
    OBVIOUS
  <2> HIDE DEF u, v, d, next, start, b
  <2>5. next = start + u + (v - b)
    BY <1>1, <2>1, <2>3, <2>4
  <2> QED BY <2>3, <2>5 DEF u
<1>9. next = Pattern(r, n)
  <2>1. q \in Int /\ e \in Int /\ (p # 0 => 0 <= e /\ e < p)
    BY <1>6
  <2>2. Pattern(r, q * p + e) = start + q * st + e * b
    <3> HIDE DEF e
    <3> QED BY <2>1, PatternAt
  <2> QED BY <1>8, <2>2
<1>10. c + size = x + l.j
  BY DEF StandsIn
<1>11. c <= n /\ n < c + (size + 1) + p
  <2>1. q = 0 => x = 0 /\ l.skip = c
    BY <1>1 DEF StandsIn
  <2>2. q # 0 => x >= p
    <3> HIDE DEF p
    <3> QED BY <1>1
  <2>3. e = p - (l.j - l.skip) - 1
    BY DEF Left
  <2> HIDE DEF x, e, p, c, size
  <2>4. c <= n
    BY <1>1, <1>2, <1>5, <1>6, <1>7, <2>1, <2>2, <2>3
  <2>5. n < c + (size + 1) + p
    BY <1>1, <1>2, <1>5, <1>6, <1>7, <1>10, <2>3
  <2> QED BY <2>4, <2>5
<1>12. Later(r, next, size + 1)
  BY <1>7, <1>9, <1>11 DEF Later
<1>13. ASSUME NEW i \in 1..size PROVE l.arr[i] # next /\ Taken(r, m, q, l.arr[i])
  <2>1. PICK k \in Int : /\ l.arr[i] = Pattern(r, k) /\ k < x + p
                         /\ k < x \/ k >= x + Left(r, l)
    BY DEF Taken
  <2>2. Left(r, l) = e + 1
    BY <1>1, <1>2 DEF Left
  <2>3. k # n /\ (k < x \/ k >= x + e)
    <3> HIDE DEF x, e
    <3> QED BY <1>6, <1>7, <2>1, <2>2
  <2>4. l.arr[i] # next
    BY <1>7, <1>9, <2>1, <2>3, PatternInjective
  <2>5. Taken(r, m, q, l.arr[i])
    BY <1>6, <2>1, <2>3 DEF Taken
  <2> QED BY <2>4, <2>5
<1>14. Taken(r, m, q, next)
  <2>1. n < x + p /\ n >= x + e
    <3> HIDE DEF x, e, p
    <3> QED BY <1>1, <1>6, <1>7
  <2> QED BY <1>6, <1>7, <1>9, <2>1 DEF Taken
<1>15. \A i \in 1..Len(m.arr) : i \in 1..size \/ i = size + 1
  BY <1>2, <1>4
<1>16. \A i \in 1..Len(m.arr) : Taken(r, m, q, m.arr[i])
  BY <1>4, <1>13, <1>14, <1>15
<1>17. Onward(r, m.arr)
  <2> SUFFICES ASSUME NEW i \in 1..Len(m.arr)
               PROVE  /\ 0 <= m.arr[i] /\ Later(r, m.arr[i], i)
                      /\ \A k \in 1..Len(m.arr) : m.arr[i] = m.arr[k] => i = k
    BY DEF Onward
  <2> HIDE DEF next, size
  <2>1. CASE i \in 1..size
    BY <1>4, <1>13, <1>15, <2>1 DEF Onward, size
  <2>2. CASE i = size + 1
    BY <1>4, <1>12, <1>13, <1>15, <2>2 DEF next
  <2> QED BY <1>15, <2>1, <2>2
<1>18. StandsIn(r, m, q)
  <2>1. c + (size + 1) = x + (l.j + 1) /\ l.j + 1 <= p
    <3> DEFINE j == l.j
    <3>1. j \in Int /\ j < p /\ c + size = x + j /\ {c, size, x, p} \subseteq Int
      BY <1>1, <1>2, <1>5, <1>7, <1>10
    <3> HIDE DEF c, size, x, p, j
    <3>2. c + (size + 1) = x + (j + 1) /\ j + 1 <= p
      BY <3>1
    <3> QED BY <3>2 DEF j
  <2>2. q = 0 => l.skip = c /\ l.skip <= l.j + 1
    BY <1>2, <1>5 DEF StandsIn
  <2>3. q # 0 => l.skip = 0
    BY DEF StandsIn
  <2> HIDE DEF next, e
  <2> QED BY <1>3, <1>4, <1>6, <1>8, <2>1, <2>2, <2>3 DEF StandsIn
<1> QED BY <1>16, <1>17, <1>18

LEMMA Shortened ==
  ASSUME NEW r, NEW arr \in Seq(Int), Onward(r, arr), NEW n \in 0..Len(arr)
  PROVE  LET short == SubSeq(arr, 1, n)
         IN short \in Seq(Int) /\ Len(short) = n /\ Onward(r, short)
<1> DEFINE short == SubSeq(arr, 1, n)
<1>1. short \in Seq(Int) /\ Len(short) = n /\ \A i \in 1..n : short[i] = arr[i]
  OBVIOUS
<1>2. \A i \in 1..n : i \in 1..Len(arr)
  OBVIOUS
<1> HIDE DEF short
<1>3. Onward(r, short)
  BY <1>1, <1>2 DEF Onward
<1> QED BY <1>1, <1>3 DEF short

LEMMA BehindStep ==
  ASSUME NEW r, InUse(r), r.prev.count # 0, NEW max \in Nat, NEW l \in Behind(r, max), ~l.done
  PROVE  BackwardStep(r, max, l) \in Behind(r, max)
<1> DEFINE p == r.prev.count
           next == l.dbn - block_size
           size == Len(l.arr)
           whole == IF size < l.j THEN 0 ELSE size - l.j
<1>1. /\ p \in Int /\ block_size \in Int /\ r.stride \in Int
  BY InUseFields
<1>2. /\ l \in Loops /\ l.arr \in Seq(Int) /\ l.j \in Nat /\ l.skip \in Nat /\ l.dbn \in Int
      /\ size \in Nat /\ size <= max /\ Onward(r, l.arr)
  BY DEF Behind, Loops
<1>3. PICK q \in Nat : /\ StandsIn(r, l, q)
                       /\ \A i \in 1..Len(l.arr) : Taken(r, l, q, l.arr[i])
  BY DEF Behind
<1>4. CASE l.j >= p
  <2> DEFINE dbn == l.dbn + r.stride + (p - l.skip) * block_size
             m == Loop(l.arr, 0, dbn, 0)
  <2>1. BackwardStep(r, max, l) = m
    BY <1>4 DEF BackwardStep
  <2>2. dbn \in Int
    BY <1>1, <1>2
  <2>3. IsLoop(m, l.arr, 0, dbn, 0)
    BY <1>2, <2>2, LoopFields
  <2> HIDE DEF m
  <2>4. StandsIn(r, m, q + 1) /\ \A i \in 1..Len(m.arr) : Taken(r, m, q + 1, m.arr[i])
    BY <1>2, <1>3, <1>4, <2>3, BehindRun
  <2>5. m \in Loops /\ m.arr = l.arr /\ q + 1 \in Nat
    BY <2>3 DEF IsLoop
  <2>6. m \in Behind(r, max)
    BY <1>2, <2>4, <2>5 DEF Behind
  <2> QED BY <2>1, <2>6
<1>5. CASE ~(l.j >= p) /\ size >= max
  <2> DEFINE m == [l EXCEPT !.done = TRUE]
  <2>1. BackwardStep(r, max, l) = m
    BY <1>5 DEF BackwardStep
  <2>2. m \in Loops /\ m.arr = l.arr /\ m.done
    BY <1>2, DoneFields
  <2> HIDE DEF m
  <2>3. m \in Behind(r, max)
    BY <1>2, <2>2 DEF Behind
  <2> QED BY <2>1, <2>3
<1>6. CASE ~(l.j >= p) /\ ~(size >= max) /\ next < 0
  <2> DEFINE short == SubSeq(l.arr, 1, whole)
             m == [l EXCEPT !.done = TRUE, !.arr = short]
  <2>1. BackwardStep(r, max, l) = m
    BY <1>6 DEF BackwardStep
  <2>2. whole \in 0..size /\ whole <= max
    BY <1>2
  <2>3. short \in Seq(Int) /\ Len(short) = whole /\ Onward(r, short)
    <3> HIDE DEF whole
    <3> QED BY <1>2, <2>2, Shortened
  <2>4. m \in Loops /\ m.arr = short /\ m.done
    BY <1>2, <2>3, DoneFields
  <2> HIDE DEF m, short, whole
  <2>5. m \in Behind(r, max)
    BY <2>2, <2>3, <2>4 DEF Behind
  <2> QED BY <2>1, <2>5
<1>7. CASE ~(l.j >= p) /\ ~(size >= max) /\ ~(next < 0)
  <2> DEFINE longer == Append(l.arr, next)
             m == Loop(longer, l.j + 1, next, l.skip)
  <2>1. BackwardStep(r, max, l) = m
    BY <1>7 DEF BackwardStep
  <2>2. next \in Int /\ l.j + 1 \in Nat /\ 0 <= next /\ l.j < p
    BY <1>1, <1>2, <1>7
  <2>3. longer \in Seq(Int) /\ Len(longer) = size + 1 /\ size + 1 <= max
    BY <1>2, <1>7, <2>2, Appended
  <2>4. IsLoop(m, longer, l.j + 1, next, l.skip)
    BY <1>2, <2>2, <2>3, LoopFields
  <2> HIDE DEF m
  <2>5. /\ StandsIn(r, m, q) /\ Onward(r, m.arr)
        /\ \A i \in 1..Len(m.arr) : Taken(r, m, q, m.arr[i])
    BY <1>2, <1>3, <2>2, <2>4, BehindBlock
  <2>6. m \in Loops /\ m.arr = longer
    BY <2>4 DEF IsLoop
  <2> HIDE DEF longer
  <2>7. m \in Behind(r, max)
    BY <2>3, <2>5, <2>6 DEF Behind
  <2> QED BY <2>1, <2>7
<1> QED BY <1>4, <1>5, <1>6, <1>7

(* Backwards, the window has later reads of the pattern, each once.        *)
LEMMA BackwardFollows ==
  ASSUME NEW r, InUse(r), r.prev.count # 0, NEW max \in Nat
  PROVE  LET w == Backward(r, max) IN w \in Seq(Int) /\ Len(w) <= max /\ Onward(r, w)
<1> DEFINE p == r.prev.count
           c == r.curr.count
           st == r.stride
           start == r.curr.start
           b == block_size
           first == BackwardFirst(r)
           last == (c - 1) * b
<1>1. /\ p \in Nat /\ c \in Nat /\ start \in Int /\ st \in Int /\ b \in Int /\ c <= p
      /\ p # 0 /\ c # 0
  BY InUseFields
<1>2. <<>> \in Seq(Int) /\ Len(<<>>) = 0 /\ 0 \in Nat /\ 1 \in Nat
  OBVIOUS
<1>3. LastSect(r) = start + last /\ last \in Int
  <2>1. last \in Int
    <3> HIDE DEF c, b
    <3> QED BY <1>1
  <2> QED BY <2>1 DEF LastSect
<1>4. \E q \in Nat : first \in Loops /\ first.arr = <<>> /\ StandsIn(r, first, q)
  <2>1. CASE p = c
    <3> DEFINE dbn == LastSect(r) + st + b
    <3>1. first = Loop(<<>>, 0, dbn, 0)
      BY <2>1 DEF BackwardFirst
    <3>2. dbn = start + 1 * st + (p - (0 - 0)) * b /\ dbn \in Int
      <4>1. dbn = start + last + st + b /\ last = (p - 1) * b
        BY <1>3, <2>1
      <4> DEFINE w == p * b
      <4>2. (p - 1) * b = w - b /\ (p - (0 - 0)) * b = w /\ 1 * st = st /\ w \in Int
        <5> HIDE DEF p, b, st
        <5> QED BY <1>1
      <4> HIDE DEF p, b, st, start, last, dbn, w
      <4> QED BY <1>1, <1>3, <4>1, <4>2
    <3> HIDE DEF first, dbn
    <3>3. IsLoop(first, <<>>, 0, dbn, 0)
      BY <1>2, <3>1, <3>2, LoopFields
    <3>4. first \in Loops /\ first.arr = <<>> /\ first.j = 0 /\ first.skip = 0 /\ first.dbn = dbn
      BY <3>3 DEF IsLoop
    <3>5. c + 0 = 1 * p + 0 /\ 0 <= p
      BY <1>1, <2>1
    <3>6. StandsIn(r, first, 1)
      BY <1>2, <3>2, <3>4, <3>5 DEF StandsIn, Left
    <3> QED BY <1>2, <3>4, <3>6
  <2>2. CASE p # c
    <3> DEFINE dbn == LastSect(r) + (p - c + 1) * b
    <3>1. first = Loop(<<>>, c, dbn, c)
      BY <2>2 DEF BackwardFirst
    <3>2. dbn = start + 0 * st + (p - (c - c)) * b /\ dbn \in Int
      <4>1. dbn = start + last + (p - c + 1) * b
        BY <1>3
      <4> DEFINE w == p * b
                 v == c * b
      <4>2. /\ (c - 1) * b = v - b /\ (p - c + 1) * b = w - v + b /\ (p - (c - c)) * b = w
            /\ 0 * st = 0 /\ w \in Int /\ v \in Int
        <5> HIDE DEF p, b, st, c
        <5> QED BY <1>1
      <4>3. last = v - b
        BY <4>2
      <4> HIDE DEF p, b, st, start, last, dbn, w, v
      <4> QED BY <1>1, <1>3, <4>1, <4>2, <4>3
    <3> HIDE DEF first, dbn
    <3>3. IsLoop(first, <<>>, c, dbn, c)
      BY <1>1, <1>2, <3>1, <3>2, LoopFields
    <3>4. first \in Loops /\ first.arr = <<>> /\ first.j = c /\ first.skip = c /\ first.dbn = dbn
      BY <3>3 DEF IsLoop
    <3>5. c + 0 = 0 * p + c /\ c <= p /\ c <= c
      BY <1>1
    <3>6. StandsIn(r, first, 0)
      BY <1>2, <3>2, <3>4, <3>5 DEF StandsIn, Left
    <3> QED BY <1>2, <3>4, <3>6
  <2> QED BY <2>1, <2>2
<1> HIDE DEF first
<1>5. first \in Behind(r, max)
  BY <1>2, <1>4 DEF Behind, Onward
<1>6. \E l \in Behind(r, max) : Backward(r, max) = l.arr
  BY <1>5, BehindStep, BackwardStays DEF first
<1> QED BY <1>6 DEF Behind, Loops

-----------------------------------------------------------------------------
(* The window of a record                                                  *)

LEMMA MaxStepBound ==
  ASSUME NEW r, InUse(r)
  PROVE  MaxStep(r) \in Nat /\ MaxStep(r) <= MinOf(Claimed(r), MAX_STEP)
<1>1. Claimed(r) \in Nat /\ MAX_STEP \in Nat /\ BLOCK_COUNT \in Nat /\ THRESHOLD_STEP \in Nat
  BY ClaimedIsNat, PfdStatAssumption DEF InUse
<1> DEFINE step == MinOf(Claimed(r), MAX_STEP)
           room == (BLOCK_COUNT \div Abs(r.stride)) * r.prev.count
<1>2. step \in Nat
  BY <1>1 DEF MinOf
<1>3. r.stride # 0 => room \in Nat
  <2> SUFFICES ASSUME r.stride # 0 PROVE room \in Nat
    OBVIOUS
  <2> DEFINE a == Abs(r.stride)
             d == BLOCK_COUNT \div a
             p == r.prev.count
  <2>1. a \in Nat /\ a > 0 /\ p \in Nat
    BY InUseFields DEF Abs
  <2> HIDE DEF a, p
  <2>2. d \in Nat
    BY <1>1, <2>1
  <2> HIDE DEF d
  <2>3. d * p \in Nat
    BY <2>1, <2>2
  <2> QED BY <2>3 DEF d, p, a
<1> HIDE DEF room
<1>4. r.stride # 0 => MinOf(step, room) \in Nat /\ MinOf(step, room) <= step
  BY <1>2, <1>3 DEF MinOf
<1>5. MaxStep(r) = IF Claimed(r) < THRESHOLD_STEP THEN 0
                   ELSE IF r.stride = 0 THEN step ELSE MinOf(step, room)
  BY DEF MaxStep, room
<1> HIDE DEF step
<1> QED BY <1>2, <1>4, <1>5 DEF step

(* The pattern does not come back to what has been read.                   *)
LEMMA ComingIsNew ==
  ASSUME NEW r, InUse(r), NEW seen, Backed(r, seen), NEW n \in Int, r.curr.count <= n
  PROVE  Pattern(r, n) \notin ToSet(seen)
<1> SUFFICES ASSUME NEW i \in 1..Len(seen), seen[i] = Pattern(r, n) PROVE FALSE
  BY DEF ToSet, Backed
<1> DEFINE size == Len(seen)
           k == size - i
           c == r.curr.count
<1>1. size \in Nat /\ c \in Nat
  BY InUseFields DEF Backed
<1>2. k \in 0..size - 1 /\ size - k = i
  <2>1. i \in 1..size
    OBVIOUS
  <2> HIDE DEF size
  <2> QED BY <1>1, <2>1
<1>3. seen[i] = Pattern(r, c - 1 - k)
  <2>1. seen[size - k] = Pattern(r, c - 1 - k)
    <3> HIDE DEF k
    <3> QED BY <1>2 DEF Backed
  <2> QED BY <1>2, <2>1
<1>4. c - 1 - k \in Int /\ c - 1 - k # n
  <2> HIDE DEF size, k, c
  <2>1. r.curr.count = c
    BY DEF c
  <2> QED BY <1>1, <1>2, <2>1
<1> QED BY <1>3, <1>4, PatternInjective

(* What is coming is on the disk: above its start when the pattern goes    *)
(* up, and below what was read when it goes down.                          *)
LEMMA ComingIsAbove ==
  ASSUME NEW r, InUse(r), r.stride >= 0, NEW n \in Int, 0 <= n
  PROVE  Pattern(r, n) \in Int /\ 0 <= Pattern(r, n)
<1>1. PICK q \in Int, j \in Int :
        /\ n = q * r.prev.count + j /\ 0 <= q /\ 0 <= j
        /\ r.prev.count # 0 => 0 <= j /\ j < r.prev.count
  BY RunOf
<1> DEFINE st == r.stride
           start == r.curr.start
           b == block_size
<1>2. start \in Int /\ st \in Int /\ st >= 0 /\ b \in Nat /\ 0 <= start
  BY InUseFields
<1>3. Pattern(r, n) = start + q * st + j * b
  BY <1>1, PatternAt
<1>4. q * st \in Nat /\ j * b \in Nat
  <2> HIDE DEF st, b
  <2> QED BY <1>1, <1>2
<1> QED BY <1>2, <1>3, <1>4

LEMMA ComingIsBelow ==
  ASSUME NEW r, InUse(r), r.prev.count # 0, r.stride < 0, NEW seen, Backed(r, seen),
         NEW n \in Int, 0 <= n
  PROVE  Pattern(r, n) \in Int /\ Pattern(r, n) < nr_sects
<1> DEFINE p == r.prev.count
           c == r.curr.count
           st == r.stride
           start == r.curr.start
           b == block_size
<1>1. /\ p \in Nat /\ p # 0 /\ c \in Nat /\ start \in Int /\ st \in Int /\ st < 0 /\ b \in Nat
      /\ nr_sects \in Nat /\ r.stride_count \in Nat /\ r.stride_count # 0 /\ c # 0
  BY InUseFields
<1>2. PICK q \in Int, j \in Int : n = q * p + j /\ 0 <= q /\ 0 <= j /\ j < p
  BY RunOf
<1>3. Pattern(r, n) = start + q * st + j * b
  BY <1>2, PatternAt
<1>4. Pattern(r, -1) = start + (-1) * st + (p - 1) * b
  <2>1. -1 \in Int /\ p - 1 \in Int /\ 0 <= p - 1 /\ p - 1 < p
    BY <1>1
  <2>2. Pattern(r, (-1) * p + (p - 1)) = start + (-1) * st + (p - 1) * b
    BY <2>1, PatternAt
  <2>3. (-1) * p + (p - 1) = -1
    <3> HIDE DEF p
    <3> QED BY <1>1
  <2> QED BY <2>2, <2>3
<1>5. Pattern(r, -1) < nr_sects
  <2> DEFINE size == Len(seen)
  <2>1. c \in 0..size - 1
    <3> DEFINE m == r.stride_count
    <3>1. size = m * p + c
      BY DEF Backed, Claimed
    <3> HIDE DEF m, p, c, size
    <3>2. m * p >= p
      BY <1>1 DEF m
    <3>3. m * p \in Nat
      BY <1>1 DEF m
    <3> QED BY <1>1, <3>1, <3>2, <3>3
  <2>2. size \in Nat /\ \A i \in 1..size : seen[i] \in Sectors
    BY DEF Backed
  <2>3. size - c \in 1..size
    <3> HIDE DEF size, c
    <3> QED BY <1>1, <2>1, <2>2
  <2>4. seen[size - c] = Pattern(r, c - 1 - c)
    BY <2>1 DEF Backed
  <2>5. c - 1 - c = -1
    <3> HIDE DEF c
    <3> QED BY <1>1
  <2>6. Pattern(r, -1) \in Sectors
    BY <2>2, <2>3, <2>4, <2>5
  <2> QED BY <2>6, OnDisk
<1> HIDE DEF p, c, st, start, b
<1>6. q * st <= 0 /\ q * st \in Int
  BY <1>1, <1>2
<1>7. j * b <= (p - 1) * b /\ j * b \in Int /\ (p - 1) * b \in Int
  BY <1>1, <1>2
<1>8. (-1) * st = -st
  BY <1>1
<1> QED BY <1>1, <1>3, <1>4, <1>5, <1>6, <1>7, <1>8

LEMMA WindowProperties ==
  ASSUME NEW r, InUse(r), NEW seen, Backed(r, seen)
  PROVE  LET w == Window(r) IN
         /\ w \in Seq(Int) /\ Len(w) <= MinOf(Claimed(r), MAX_STEP)
         /\ r.stride >= 0 => \A k \in 1..Len(w) : w[k] = Coming(r, k)
         /\ r.stride < 0 => Onward(r, w)
         /\ \A k \in 1..Len(w) : w[k] \in (0..nr_sects - 1) \ ToSet(seen)
<1> DEFINE w == Window(r)
           c == r.curr.count
<1>1. MaxStep(r) \in Nat /\ MaxStep(r) <= MinOf(Claimed(r), MAX_STEP)
  BY MaxStepBound
<1>2. MinOf(Claimed(r), MAX_STEP) \in Int /\ nr_sects \in Nat /\ c \in Nat /\ c # 0
  BY ClaimedIsNat, PfdStatAssumption, InUseFields DEF InUse, MinOf
<1>3. r.stride \in Int /\ (r.stride < 0 => r.prev.count # 0)
  BY InUseFields
<1>4. CASE r.stride < 0
  <2>1. w = Backward(r, MaxStep(r))
    BY <1>3, <1>4 DEF Window
  <2> HIDE DEF w
  <2>2. w \in Seq(Int) /\ Len(w) <= MaxStep(r) /\ Onward(r, w)
    BY <1>1, <1>3, <1>4, <2>1, BackwardFollows
  <2>3. ASSUME NEW k \in 1..Len(w) PROVE w[k] \in (0..nr_sects - 1) \ ToSet(seen)
    <3>1. 0 <= w[k] /\ Later(r, w[k], k)
      BY <2>2 DEF Onward
    <3>2. PICK n \in Int : w[k] = Pattern(r, n) /\ c <= n
      BY <3>1 DEF Later
    <3>3. 0 <= n
      BY <1>2, <3>2
    <3>4. w[k] \in Int /\ w[k] < nr_sects
      BY <1>3, <1>4, <3>2, <3>3, ComingIsBelow
    <3>5. w[k] \notin ToSet(seen)
      BY <3>2, ComingIsNew
    <3> QED BY <1>2, <3>1, <3>4, <3>5
  <2>4. Len(w) <= MinOf(Claimed(r), MAX_STEP)
    BY <1>1, <1>2, <2>2
  <2> QED BY <1>3, <1>4, <2>2, <2>3, <2>4 DEF w
<1>5. CASE r.stride >= 0
  <2>1. w = Forward(r, MaxStep(r))
    BY <1>3, <1>5 DEF Window
  <2> HIDE DEF w
  <2>2. /\ w \in Seq(Int) /\ Len(w) <= MaxStep(r)
        /\ \A k \in 1..Len(w) : w[k] = Coming(r, k) /\ w[k] < nr_sects
    BY <1>1, <2>1, ForwardFollows
  <2>3. ASSUME NEW k \in 1..Len(w) PROVE w[k] \in (0..nr_sects - 1) \ ToSet(seen)
    <3> DEFINE n == c - 1 + k
    <3>1. n \in Int /\ c <= n /\ 0 <= n
      BY <1>2, <2>2
    <3>2. w[k] = Pattern(r, n) /\ w[k] < nr_sects
      BY <2>2 DEF Coming
    <3> HIDE DEF n
    <3>3. w[k] \in Int /\ 0 <= w[k]
      BY <1>5, <3>1, <3>2, ComingIsAbove
    <3>4. w[k] \notin ToSet(seen)
      BY <3>1, <3>2, ComingIsNew
    <3> QED BY <1>2, <3>2, <3>3, <3>4
  <2>4. Len(w) <= MinOf(Claimed(r), MAX_STEP)
    BY <1>1, <1>2, <2>2
  <2> QED BY <1>3, <1>5, <2>2, <2>3, <2>4 DEF w
<1> QED BY <1>3, <1>4, <1>5

(* Whatever the record, its window is as long as its evidence allows and   *)
(* holds what comes next in its pattern: in order when it runs forwards,   *)
(* and run by run from the end, no block twice, when it runs backwards.    *)
THEOREM WindowsFollowThePattern == Spec => []WindowFollowsPattern
<1>1. StatInv => WindowFollowsPattern
  <2> SUFFICES ASSUME StatInv, NEW r \in Records
               PROVE  LET w == Window(r)
                          Expected(k) == Pattern(r, r.curr.count - 1 + k)
                      IN /\ Len(w) <= MinOf(Claimed(r), MAX_STEP)
                         /\ IF r.stride >= 0
                            THEN \A k \in DOMAIN w : w[k] = Expected(k)
                            ELSE /\ IsInjective(w)
                                 /\ ToSet(w) \subseteq
                                      {Expected(k) : k \in 1..Len(w) + r.prev.count}
    BY DEF WindowFollowsPattern
  <2> DEFINE w == Window(r)
             c == r.curr.count
  <2>1. InUse(r) /\ Backed(r, read[r.stream])
    BY RecordsInUse
  <2>2. c \in Nat /\ r.prev.count \in Nat /\ r.stride \in Int
    BY <2>1, InUseFields
  <2>3. /\ w \in Seq(Int) /\ Len(w) <= MinOf(Claimed(r), MAX_STEP)
        /\ r.stride >= 0 => \A k \in 1..Len(w) : w[k] = Coming(r, k)
    BY <2>1, WindowProperties
  <2>4. r.stride < 0 => Onward(r, w)
    BY <2>1, WindowProperties
  <2> HIDE DEF w
  <2>5. DOMAIN w = 1..Len(w)
    BY <2>3
  <2>6. CASE r.stride >= 0
    BY <2>3, <2>5, <2>6 DEF Coming, w
  <2>7. CASE r.stride < 0
    <3>1. IsInjective(w)
      BY <2>4, <2>5, <2>7 DEF IsInjective, Onward
    <3>2. ASSUME NEW i \in 1..Len(w)
          PROVE  \E k \in 1..Len(w) + r.prev.count : w[i] = Pattern(r, c - 1 + k)
      <4>1. PICK n \in Int : w[i] = Pattern(r, n) /\ c <= n /\ n < c + i + r.prev.count
        BY <2>4, <2>7 DEF Onward, Later
      <4> DEFINE k == n - c + 1
                 p == r.prev.count
                 size == Len(w)
      <4>2. k \in 1..size + p /\ c - 1 + k = n
        <5>1. size \in Nat /\ p \in Nat /\ i \in 1..size /\ c \in Nat
          BY <2>2, <2>3
        <5>2. c <= n /\ n < c + i + p
          BY <4>1
        <5> HIDE DEF size, p, c
        <5> QED BY <4>1, <5>1, <5>2
      <4> HIDE DEF k
      <4> QED BY <4>1, <4>2
    <3>3. ToSet(w) \subseteq {Pattern(r, c - 1 + k) : k \in 1..Len(w) + r.prev.count}
      BY <2>5, <3>2 DEF ToSet
    <3>4. ~(r.stride >= 0)
      BY <2>2, <2>7
    <3> QED BY <2>3, <3>1, <3>3, <3>4 DEF w
  <2> QED BY <2>2, <2>6, <2>7
<1> QED BY <1>1, Inductive, PTL

(* No window leaves the disk, and none holds a block that its stream has   *)
(* read, as far as the record tells.                                       *)
THEOREM WindowsAreAhead == Spec => []WindowIsAhead
<1>1. StatInv => WindowIsAhead
  <2> SUFFICES ASSUME StatInv, NEW r \in Records
               PROVE  ToSet(Window(r)) \subseteq (0..nr_sects - 1) \ ToSet(read[r.stream])
    BY DEF WindowIsAhead
  <2> DEFINE w == Window(r)
  <2>1. InUse(r) /\ Backed(r, read[r.stream])
    BY RecordsInUse
  <2>2. /\ w \in Seq(Int)
        /\ \A k \in 1..Len(w) : w[k] \in (0..nr_sects - 1) \ ToSet(read[r.stream])
    BY <2>1, WindowProperties
  <2> HIDE DEF w
  <2>3. ToSet(w) = {w[k] : k \in 1..Len(w)}
    BY <2>2 DEF ToSet
  <2> QED BY <2>2, <2>3 DEF w
<1> QED BY <1>1, Inductive, PTL
=============================================================================
