---------------------------- MODULE BlockDevice ----------------------------
(***************************************************************************)
(* What flashcache promises to the file system above it: a device whose    *)
(* blocks are regular registers.  A read returns the last write that was   *)
(* complete when it started, or a write that overlaps it; requests may     *)
(* fail; a crash loses the requests that are out, and keeps of every block *)
(* one value that was still possible, so never an older one than the last  *)
(* acknowledged write.                                                     *)
(***************************************************************************)
CONSTANTS Dbns, Bios, None

VARIABLES
  req,   \* req[b]: request b and, once a read has ended, its result
  live,  \* live[d]: the values block d may have
  seen   \* seen[b]: what read b may return; what write b supersedes

bdVars == <<req, live, seen>>

Out(b) == req[b].st = "out"
IsWriteReq(b) == req[b].dir = "WRITE"

Init ==
  /\ req = [b \in Bios |-> [st |-> "new", dir |-> "READ", dbn |-> None, val |-> None]]
  /\ live = [d \in Dbns |-> {d}]
  /\ seen = [b \in Bios |-> {}]

(* A request for block d is submitted, or refused at once.                 *)
Submit(b, d, dir, st) ==
  /\ req[b].st = "new"
  /\ req' = [req EXCEPT ![b] = [st |-> st, dir |-> dir, dbn |-> d, val |-> None]]
  /\ IF dir = "READ"
     THEN /\ seen' = [seen EXCEPT ![b] = live[d]]
          /\ UNCHANGED live
     ELSE /\ live' = [live EXCEPT ![d] = @ \cup {b}]
          /\ seen' = [c \in Bios |->
               IF c = b THEN live[d] \ {w \in Bios : Out(w) /\ IsWriteReq(w)}
               ELSE IF Out(c) /\ ~IsWriteReq(c) /\ req[c].dbn = d
               THEN seen[c] \cup {b} ELSE seen[c]]

(* A read ends with value v, which it may return.                          *)
ReadOk(b, v) ==
  /\ Out(b) /\ ~IsWriteReq(b)
  /\ v \in seen[b]
  /\ req' = [req EXCEPT ![b].st = "ok", ![b].val = v]
  /\ UNCHANGED <<live, seen>>

(* A write ends: what was complete when it started is gone for good.       *)
WriteOk(b) ==
  /\ Out(b) /\ IsWriteReq(b)
  /\ req' = [req EXCEPT ![b].st = "ok"]
  /\ live' = [live EXCEPT ![req[b].dbn] = @ \ seen[b]]
  /\ UNCHANGED seen

(* Requests fail; a write that failed may or may not have happened.        *)
Fail(B) ==
  /\ B # {} /\ \A b \in B : Out(b)
  /\ req' = [b \in Bios |-> IF b \in B THEN [req[b] EXCEPT !.st = "eio"] ELSE req[b]]
  /\ UNCHANGED <<live, seen>>

Crash ==
  /\ req' = [b \in Bios |-> IF Out(b) THEN [req[b] EXCEPT !.st = "lost"] ELSE req[b]]
  /\ \E kept \in [Dbns -> UNION {live[d] : d \in Dbns}] :
       /\ \A d \in Dbns : kept[d] \in live[d]
       /\ live' = [d \in Dbns |-> {kept[d]}]
  /\ UNCHANGED seen

Next ==
  \/ \E b \in Bios, d \in Dbns, dir \in {"READ", "WRITE"}, st \in {"out", "eio"} :
       Submit(b, d, dir, st)
  \/ \E b \in Bios, v \in Bios \cup Dbns : ReadOk(b, v)
  \/ \E b \in Bios : WriteOk(b)
  \/ \E B \in SUBSET Bios : Fail(B)
  \/ Crash

Spec == Init /\ [][Next]_bdVars
=============================================================================
