----------------------------- MODULE BlockOrder -----------------------------
(***************************************************************************)
(* What the block lists of a cache set promise, seen as sequences: the     *)
(* order in which blocks are reclaimed (hot and warm, least recently used  *)
(* first), the stack of free blocks, and the chain of blocks that each     *)
(* hash bucket holds.  BlockLists, with the links the code keeps,          *)
(* implements it.                                                          *)
(***************************************************************************)
EXTENDS Naturals, SequencesExt

CONSTANT Buckets

VARIABLES
  hot, warm, \* the blocks, from the least to the most recently used
  free,      \* the invalid list, its head first
  chain      \* chain[k]: the blocks hashed to bucket k, the newest first

vars == <<hot, warm, free, chain>>

(* A block that is used becomes the most recent of its list.               *)
Touch ==
  \/ \E i \in DOMAIN warm : warm' = Append(RemoveAt(warm, i), warm[i]) /\ UNCHANGED hot
  \/ \E i \in DOMAIN hot : hot' = Append(RemoveAt(hot, i), hot[i]) /\ UNCHANGED warm

(* A warm block changes places with the oldest hot block.                  *)
Promote ==
  /\ hot # <<>>
  /\ \E i \in DOMAIN warm :
       /\ hot' = <<warm[i]>> \o Tail(hot)
       /\ warm' = Append(RemoveAt(warm, i), Head(hot))

(* A hot block changes places with the youngest warm block.                *)
Demote ==
  /\ warm # <<>>
  /\ \E i \in DOMAIN hot :
       /\ hot' = <<Last(warm)>> \o RemoveAt(hot, i)
       /\ warm' = Append(Front(warm), hot[i])

(* The oldest blocks of one list become the oldest of the other.           *)
Resize ==
  \/ \E k \in 1..Len(warm) :
       /\ hot' = Reverse(SubSeq(warm, 1, k)) \o hot
       /\ warm' = SubSeq(warm, k + 1, Len(warm))
  \/ \E k \in 1..Len(hot) :
       /\ warm' = Reverse(SubSeq(hot, 1, k)) \o warm
       /\ hot' = SubSeq(hot, k + 1, Len(hot))

OrderStep == Touch \/ Promote \/ Demote \/ Resize \/ UNCHANGED <<hot, warm>>

Hash(k, b) == chain' = [chain EXCEPT ![k] = <<b>> \o @]
Unhash(k, i) == chain' = [chain EXCEPT ![k] = RemoveAt(@, i)]

(* A block moves from one chain to another, from the stack to a chain and  *)
(* back, or stays out of both for a while, when it is in limbo.            *)
Rehash ==
  /\ UNCHANGED free
  /\ \E j, k \in Buckets : \E i \in DOMAIN chain[j] :
       LET rest == [chain EXCEPT ![j] = RemoveAt(@, i)] IN
       chain' = [rest EXCEPT ![k] = <<chain[j][i]>> \o @]
Claim ==
  /\ free # <<>>
  /\ free' = Tail(free)
  /\ \E k \in Buckets : Hash(k, Head(free))
Drop ==
  \E k \in Buckets : \E i \in DOMAIN chain[k] :
    /\ Unhash(k, i)
    /\ free' = <<chain[k][i]>> \o free
EnterLimbo ==
  /\ UNCHANGED free
  /\ \E k \in Buckets : \E i \in DOMAIN chain[k] : Unhash(k, i)
LeaveLimbo ==
  /\ UNCHANGED chain
  /\ \E b \in ToSet(hot) \cup ToSet(warm) :
       /\ b \notin ToSet(free) /\ \A k \in Buckets : b \notin ToSet(chain[k])
       /\ free' = <<b>> \o free

IdentityStep ==
  Rehash \/ Claim \/ Drop \/ EnterLimbo \/ LeaveLimbo \/ UNCHANGED <<free, chain>>

(* At first every block is on one of the lists and none is hashed.         *)
Init ==
  /\ IsInjective(hot \o warm)
  /\ IsInjective(free)
  /\ ToSet(free) = ToSet(hot) \cup ToSet(warm)
  /\ chain = [k \in Buckets |-> <<>>]

Next == OrderStep /\ IdentityStep

Spec == Init /\ [][Next]_vars
=============================================================================
