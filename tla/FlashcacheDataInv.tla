-------------------------- MODULE FlashcacheDataInv --------------------------
(***************************************************************************)
(* Where the data of a disk block may be at any moment, and for whom it is *)
(* current: the inductive invariant behind ReadsCurrent, whatever fails    *)
(* before the first crash, and behind Durable, if no metadata write fails. *)
(***************************************************************************)
EXTENDS FlashcacheInv

ActiveWrite(b) == Active(b) /\ IsWrite(b)
ActiveRead(b)  == Active(b) /\ ~IsWrite(b)

(* What a write that is out wrote is live, and no other write supersedes  *)
(* it; a read that is out may return whatever is live.                     *)
WritesAreLive == \A x \in Bios : ActiveWrite(x) => x \in live[bio[x].dbn]
NewIsNotLive == \A x \in Bios : bio[x].st = "new" => \A d \in Dbns : x \notin live[d]
NotSuperseded ==
  \A x, w \in Bios : (bio[x].st = "new" \/ ActiveWrite(x)) /\ ActiveWrite(w) => x \notin seen[w]
ReadsMayReturn == \A b \in Bios : ActiveRead(b) => live[bio[b].dbn] \subseteq seen[b]
GhostInv == WritesAreLive /\ NewIsNotLive /\ NotSuperseded /\ ReadsMayReturn /\ ReadsCurrent

(* The bio of a job is for the job's block, and goes the way of its I/O;   *)
(* so are the bios queued on it.  A block is filled only when it is clean. *)
(* (A job that failed in write-back mode may point to a bio that is over.) *)
HasBio(s) ==
  /\ job[s].bio # None
  /\ \/ job[s].phase \in {"hit", "miss", "io", "md"}
     \/ job[s].phase = "pend" /\ job[s].err /\ CacheMode # "WRITE_BACK"
JobBioInv(s) ==
  /\ HasBio(s) => LET b == job[s].bio IN
       /\ bio[b].st = "job" /\ bio[b].dbn = dbn[s]
       /\ IsWrite(b) = (job[s].act = "WRITECACHE")
  /\ \A b \in pending[s] : bio[b].dbn = dbn[s]
  /\ job[s].phase = "hit" => job[s].act \in {"READCACHE", "WRITECACHE"}
  /\ job[s].phase = "miss" => job[s].act \in {"READDISK", "WRITECACHE"}
  /\ job[s].act \in {"READDISK", "READFILL"} /\ job[s].phase \in {"miss", "io"} =>
       "DIRTY" \notin Bits(s)

(* The block holds data that a hit may return.                             *)
Filled(s) ==
  \/ "DIRTY" \in Bits(s)
  \/ job[s].phase \in {"none", "hit", "md"}
  \/ job[s].phase = "io" /\ job[s].act = "READCACHE"

(* Such data is live; so is what a fill has read, and, once a block is     *)
(* copied, what is on the disk.                                            *)
SlotDataInv(s) ==
  /\ s \in hashed /\ Filled(s) => ssd[s] \in live[dbn[s]]
  /\ job[s].phase = "io" /\ job[s].act = "READFILL" =>
       bio[job[s].bio].val \in live[dbn[s]]
  /\ job[s].phase = "md" /\ job[s].act = "WRITEDISK" => disk[dbn[s]] \in live[dbn[s]]
  /\ job[s].phase = "md" /\ job[s].act = "WRITECACHE" => ssd[s] = job[s].bio

(* A block that is not dirty in memory is on the disk.                     *)
NoneDirty(d) == \A s \in Slots : dbn[s] = d => "DIRTY" \notin Bits(s)
DiskLive == \A d \in Dbns : NoneDirty(d) => disk[d] \in live[d]

(* A block that is dirty on flash, or in the image on its way, is dirty in *)
(* memory, and will be, once the update under way is over, if metadata     *)
(* writes do not fail.                                                     *)
BecomesDirty(s) == s \in md_io /\ job[s].act = "WRITECACHE"
BecomesClean(s) == s \in md_io /\ job[s].act = "WRITEDISK"
FlashBehindInv ==
  NoMdWriteFault => \A s \in Slots :
    /\ "DIRTY" \in flash_md[s].state =>
         /\ flash_md[s].dbn = dbn[s]
         /\ \/ "DIRTY" \in Bits(s) /\ ~(BecomesClean(s) /\ MdLanded)
            \/ BecomesDirty(s) /\ MdLanded
    /\ md_phase = "io" /\ "DIRTY" \in md_image[s].state =>
         /\ md_image[s].dbn = dbn[s]
         /\ ("DIRTY" \in Bits(s) /\ ~BecomesClean(s)) \/ BecomesDirty(s)

(* A bio that is at the disk, or will go there without looking again.      *)
AtDisk(b) == bio[b].st \in {"disk", "disk_done"}
Draining(b) == \E s \in Slots : job[s].phase = "limbo" /\ b \in pending[s]
Direct(b) == AtDisk(b) \/ Draining(b)

(* Data that became dirty since a write went to the disk is not superseded *)
(* by that write, nor is what is on the disk once it is there; what a read *)
(* finds on the disk, or has found, is current for it.                     *)
DirectInv(b) ==
  /\ Direct(b) /\ IsWrite(b) =>
       \A t \in hashed : dbn[t] = bio[b].dbn /\ "DIRTY" \in Bits(t) => ssd[t] \notin seen[b]
  /\ bio[b].st = "disk_done" /\ IsWrite(b) /\ ~bio[b].err => disk[bio[b].dbn] \notin seen[b]
  /\ Direct(b) /\ ~IsWrite(b) => disk[bio[b].dbn] \in seen[b]
  /\ bio[b].st = "disk_done" /\ ~IsWrite(b) => bio[b].val \in seen[b]

DataInv == /\ GhostInv /\ DiskLive /\ FlashBehindInv
           /\ \A s \in Slots : JobBioInv(s) /\ SlotDataInv(s)
           /\ \A b \in Bios : DirectInv(b)
=============================================================================
