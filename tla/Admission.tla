----------------------------- MODULE Admission ------------------------------
(***************************************************************************)
(* Which I/O may enter the cache (flashcache_ioctl.c, and flashcache_map   *)
(* in flashcache_main.c): the white and black lists of pids with their     *)
(* bound and their expiry, the rules that apply them to a thread and its   *)
(* thread group, and the tracker that spots sequential I/O.                *)
(*                                                                         *)
(* All of it runs under ioctl_lock, so a handler is one action.  jiffies   *)
(* is kept as the seconds left until each timeout.                         *)
(***************************************************************************)
EXTENDS Integers, Sequences, FiniteSets

CONSTANTS
  Pids,             \* what may be put on a list: pids and tgids
  Threads,          \* the threads that do I/O, each a pid
  Tgid,             \* Tgid[t]: the thread group of t
  max_pids,         \* sysctl_max_pids
  pid_expiry_secs,  \* sysctl_pid_expiry_secs
  skip_seq_thresh,  \* sysctl_skip_seq_thresh_kb, in blocks
  Depth,            \* SEQUENTIAL_TRACKER_QUEUE_DEPTH
  MaxBlock          \* bound: the blocks are 0..MaxBlock

ASSUME AdmissionAssumption ==
  /\ Threads \subseteq Pids /\ Tgid \in [Threads -> Pids]
  /\ max_pids \in Nat \ {0} /\ pid_expiry_secs \in Nat /\ skip_seq_thresh \in Nat
  /\ Depth \in Nat \ {0} /\ MaxBlock \in Nat

Lists == {"WHITELIST", "BLACKLIST"}
Blocks == 0..MaxBlock

VARIABLES
  list,              \* list[l]: the entries of list l, from head to tail
  num_pids,          \* num_pids[l]: the count kept of them
  pid_expire_check,  \* the seconds left until lists are next looked at
  flows,             \* the sequential_ios, from seq_io_head to seq_io_tail
  verdict,           \* what skip_sequential_io last said
  run,               \* ghost: the consecutive blocks that were just asked for
  touched,           \* ghost: the blocks asked for so far
  postponed          \* ghost: the last step put off the expiry of both lists

vars == <<list, num_pids, pid_expire_check, flows, verdict, run, touched, postponed>>
lists == <<list, num_pids, pid_expire_check>>
tracker == <<flows, verdict, run, touched>>

PidsOf(entries) == {entries[i].pid : i \in DOMAIN entries}

(* The entries that are left when those of S are taken off, in order.      *)
Without(entries, S) ==
  LET kept == {i \in DOMAIN entries : entries[i].pid \notin S}
      Rank(i) == Cardinality({j \in kept : j <= i})
  IN [n \in 1..Cardinality(kept) |-> entries[CHOOSE i \in kept : Rank(i) = n]]

Init ==
  /\ list = [l \in Lists |-> <<>>]
  /\ num_pids = [l \in Lists |-> 0]
  /\ pid_expire_check = 0
  /\ flows = [i \in 1..Depth |-> [sector |-> 0, count |-> 0]]
  /\ verdict = "none" /\ run = 0 /\ touched = {} /\ postponed = FALSE

-----------------------------------------------------------------------------
(* The pid lists                                                           *)

(* Refuted variant: the newest entry alone makes room.                     *)
DropOne(l) == IF num_pids[l] > max_pids + 1 THEN SubSeq(list[l], 1, num_pids[l] - 1) ELSE list[l]

(* flashcache_drop_pids, if there are more than the limit: entries go from *)
(* the tail until there is room for one.                                   *)
Dropped(l) == IF num_pids[l] > max_pids THEN SubSeq(list[l], 1, max_pids - 1) ELSE list[l]

(* Refuted variant: each new entry restarts the timeout.                   *)
CheckAfterAny(entries) == pid_expiry_secs + 1

(* The first entry of a list restarts the timeout that both lists share.   *)
CheckAfter(entries) == IF entries = <<>> THEN pid_expiry_secs + 1 ELSE pid_expire_check

(* flashcache_add_pid: a pid that is on the list keeps its expiry.         *)
AddPid(l, p) ==
  LET kept == Dropped(l)
      new == p \notin PidsOf(kept)
  IN /\ list' = [list EXCEPT ![l] =
          IF new THEN Append(kept, [pid |-> p, left |-> pid_expiry_secs]) ELSE kept]
     /\ num_pids' = [num_pids EXCEPT ![l] = Len(kept) + (IF new THEN 1 ELSE 0)]
     /\ pid_expire_check' = IF new THEN CheckAfter(kept) ELSE pid_expire_check
     /\ postponed' = (new /\ kept = <<>>)
     /\ UNCHANGED tracker

(* flashcache_del_pid, and flashcache_del_all_pids, which spares the pids  *)
(* of the tasks that are alive: S are those that go.                       *)
DelPids(l, S) ==
  /\ list' = [list EXCEPT ![l] = Without(@, S)]
  /\ num_pids' = [num_pids EXCEPT ![l] = @ - Cardinality(S \cap PidsOf(list[l]))]
  /\ postponed' = FALSE
  /\ UNCHANGED <<pid_expire_check, tracker>>

Expired(entries) == {i \in DOMAIN entries : entries[i].left = 0}

(* flashcache_pid_expiry_list_locked removes the expired entries, n of     *)
(* them: it finds the next in the memory of the one it has just freed,     *)
(* which may have been wiped.                                              *)
Shortened(l, n) == SubSeq(list[l], n + 1, Len(list[l]))

Removable(l) == IF Expired(list[l]) = {} THEN {0} ELSE 1..Cardinality(Expired(list[l]))

(* flashcache_pid_expiry_all_locked, as flashcache_map calls it.           *)
ExpireAll ==
  /\ postponed' = FALSE
  /\ IF pid_expire_check > 0 \/ \A l \in Lists : list[l] = <<>>
     THEN UNCHANGED lists
     ELSE /\ \E n \in [Lists -> 0..max_pids + 1] :
               /\ \A l \in Lists : n[l] \in Removable(l)
               /\ list' = [l \in Lists |-> Shortened(l, n[l])]
               /\ num_pids' = [l \in Lists |-> num_pids[l] - n[l]]
          /\ pid_expire_check' = pid_expiry_secs + 1

MinusOne(n) == IF n > 0 THEN n - 1 ELSE 0

(* A second passes.                                                        *)
Tick ==
  /\ list' = [l \in Lists |->
       [i \in DOMAIN list[l] |-> [list[l][i] EXCEPT !.left = MinusOne(@)]]]
  /\ pid_expire_check' = MinusOne(pid_expire_check)
  /\ postponed' = FALSE
  /\ UNCHANGED <<num_pids, tracker>>

-----------------------------------------------------------------------------
(* flashcache_uncacheable and skip_sequential_io                           *)

MovedToHead(i, flow) == <<flow>> \o SubSeq(flows, 1, i - 1) \o SubSeq(flows, i + 1, Depth)

(* The first flow, from the head, that block b repeats or continues.       *)
Follows(b) == {i \in 1..Depth : b \in {flows[i].sector, flows[i].sector + 1}}
FlowOf(b) == {i \in Follows(b) : \A j \in Follows(b) : i <= j}

Repeats(b, i) ==
  /\ b = flows[i].sector
  /\ flows' = MovedToHead(i, flows[i])
  /\ verdict' = "cache"

(* Refuted variant: a flow that goes on is not counted on.                 *)
ContinuesUncounted(b, i) ==
  /\ b = flows[i].sector + 1
  /\ flows' = MovedToHead(i, [sector |-> b, count |-> flows[i].count])
  /\ verdict' = IF flows[i].count + 1 > skip_seq_thresh THEN "skip" ELSE "cache"

Continues(b, i) ==
  /\ b = flows[i].sector + 1
  /\ flows' = MovedToHead(i, [sector |-> b, count |-> flows[i].count + 1])
  /\ verdict' = IF flows[i].count + 1 > skip_seq_thresh THEN "skip" ELSE "cache"

(* Refuted variant: the entry at the tail is reused with its count.        *)
StartsCounted(b) ==
  /\ Follows(b) = {}
  /\ flows' = MovedToHead(Depth, [sector |-> b, count |-> flows[Depth].count + 1])
  /\ verdict' = "cache"

(* The entry at the tail is reused for a flow that may start here.         *)
Starts(b) ==
  /\ Follows(b) = {}
  /\ flows' = MovedToHead(Depth, [sector |-> b, count |-> 1])
  /\ verdict' = "cache"

Asked(b) ==
  /\ touched' = touched \cup {b}
  /\ run' = IF run > 0 /\ b = flows[1].sector + 1 THEN run + 1 ELSE 1

SkipSequential(b) ==
  IF skip_seq_thresh = 0 THEN UNCHANGED tracker
  ELSE /\ \/ \E i \in FlowOf(b) : Repeats(b, i) \/ Continues(b, i)
          \/ Starts(b)
       /\ Asked(b)

(* The rules of flashcache_uncacheable, for thread t and the lists L: a    *)
(* thread's own entry comes before that of its group, and lets it off its  *)
(* group's.                                                                *)
Judged(t, L, cache_all) ==
  LET On(p, l) == p \in PidsOf(L[l])
  IN IF cache_all
     THEN IF On(t, "BLACKLIST") THEN "uncached"
          ELSE IF ~On(Tgid[t], "BLACKLIST") THEN "by the tracker"
          ELSE IF On(t, "WHITELIST") THEN "cached" ELSE "uncached"
     ELSE IF On(t, "WHITELIST") THEN "cached"
          ELSE IF On(Tgid[t], "WHITELIST") /\ ~On(t, "BLACKLIST") THEN "cached"
          ELSE "uncached"

(* The sysctl cache_all may have been set to anything, or bypass_cache     *)
(* turned on, in which case nothing is looked at.                          *)
Uncacheable(t, b, L) ==
  \E cache_all, bypass_cache \in BOOLEAN :
    IF ~bypass_cache /\ Judged(t, L, cache_all) = "by the tracker" THEN SkipSequential(b)
    ELSE UNCHANGED tracker

(* flashcache_map: a write is judged by the lists as they are after the    *)
(* expiry.  A read is not, and goes on to look for its block ...           *)
MapWrite(t, b) ==
  /\ ExpireAll
  /\ Uncacheable(t, b, list')

MapRead ==
  /\ ExpireAll
  /\ UNCHANGED tracker

(* ... and is judged when it misses.                                       *)
ReadMiss(t, b) ==
  /\ Uncacheable(t, b, list)
  /\ postponed' = FALSE
  /\ UNCHANGED lists

-----------------------------------------------------------------------------
Next ==
  \/ \E l \in Lists : \/ \E p \in Pids : AddPid(l, p)
                      \/ \E S \in SUBSET Pids \ {{}} : DelPids(l, S)
  \/ Tick \/ MapRead
  \/ \E t \in Threads, b \in Blocks : MapWrite(t, b) \/ ReadMiss(t, b)

Spec == Init /\ [][Next]_vars

(* Time passes; and the cache is read, for nothing but I/O expires the     *)
(* entries.                                                                *)
FairSpec == Spec /\ WF_vars(Tick) /\ WF_vars(MapRead)

-----------------------------------------------------------------------------
(* Properties                                                              *)

AdmissionTypeOK ==
  /\ \A l \in Lists : list[l] \in Seq([pid : Pids, left : 0..pid_expiry_secs])
  /\ num_pids \in [Lists -> Nat]
  /\ pid_expire_check \in 0..pid_expiry_secs + 1
  /\ flows \in [1..Depth -> [sector : Blocks, count : 0..MaxBlock + 1]]
  /\ verdict \in {"none", "cache", "skip"}
  /\ run \in 0..MaxBlock + 1 /\ touched \subseteq Blocks /\ postponed \in BOOLEAN

(* Whatever is added, deleted, dropped and expired: the count is that of   *)
(* the list, a pid is on it once, the entries that expire first are at its *)
(* head, and it is at most one longer than sysctl_max_pids.  (The limit is *)
(* looked at before an entry is added, and is not met exactly.)            *)
PidListsBounded ==
  /\ AdmissionTypeOK
  /\ \A l \in Lists :
    /\ num_pids[l] = Len(list[l])
    /\ num_pids[l] <= max_pids + 1
    /\ \A i, j \in DOMAIN list[l] :
         i < j => list[l][i].pid # list[l][j].pid /\ list[l][i].left <= list[l][j].left

(* A flow never counts more consecutive blocks than were really asked for, *)
(* in however many streams: so what is skipped as sequential was.          *)
FlowIsBacked ==
  \A i \in 1..Depth : \A k \in 0..flows[i].count - 1 : flows[i].sector - k \in touched

(* And a stream that asks for consecutive blocks, with nothing in between, *)
(* is skipped at the latest one block past the threshold, whatever flows   *)
(* its first block matched or pushed out.                                  *)
SequentialIsSkipped ==
  run > skip_seq_thresh + 1 => verdict # "cache"

(* A pid does not stay on a list: it is deleted, dropped or expired, or    *)
(* first entries of a list keep putting off the expiry of both.            *)
ExpiredUnlessPostponed ==
  \A l \in Lists : \A p \in Pids :
    p \in PidsOf(list[l]) ~> p \notin PidsOf(list[l]) \/ postponed
=============================================================================
