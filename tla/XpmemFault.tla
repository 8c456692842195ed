------------------------------ MODULE XpmemFault ------------------------------
(***************************************************************************)
(* One exported segment, one importer attachment over it, and the threads  *)
(* that touch its frames:                                                  *)
(*                                                                         *)
(*   Faulters   importer threads faulting on attachment slots: the fault  *)
(*              handler brackets xpmem_ensure_valid_PFN (xpmem_pin_pages)  *)
(*              and xpmem_remap_pages (remap_func per slot) with the      *)
(*              recall gate and the segment's read lock;                   *)
(*   Recallers  the owner's forking thread: xpmem_fork_begin recalls the   *)
(*              segment (xpmem_recall_PFNs_of_tg, xpmem_recall_PFNs), the  *)
(*              fork makes the owner's pages copy-on-write, xpmem_fork_end *)
(*              lets faults in again;                                      *)
(*   Writers    xpmem_unpin_procfs_write on the owner's pid entry: with  *)
(*              the owner stopped, the same recall, then faults allowed;   *)
(*   Destroyers the segment's removal (outside src/, from spec 4.5).      *)
(*                                                                         *)
(* Owner page p is mapped at importer slot p.  The recall gate is the      *)
(* abstract RecallGate, which XpmemRecall is shown to implement.           *)
(***************************************************************************)
EXTENDS Integers, Sequences, FiniteSets, Functions

CONSTANTS
  Faulters, Recallers, Writers, Destroyers,
  NPages,      \* pages of the segment
  MaxBatch,    \* most pages a fault asks xpmem_ensure_valid_PFN to pin
  PTRS_PER_PTE,\* slots per last-level page table of the importer
  MaxForks,    \* forks of the owner in a behaviour
  VmaOf,       \* the owner VMA holding each page of the segment, NoVma in a hole
  WritableVmas,\* the VMAs with VM_WRITE
  XpmemVmas,   \* the VMAs that are xpmem attachments of another thread group
  NoVma,
  NoThread

Pages  == 0 .. NPages - 1
\* Frame numbers: the owner's pages start on frames 1..NPages; each fork can
\* make every page copy on write once more.
MaxFrame == NPages * (1 + MaxForks)
Frames == 1 .. MaxFrame
NoFrame == 0

ASSUME /\ NPages >= 1 /\ MaxBatch >= 1 /\ PTRS_PER_PTE >= 1
       /\ DOMAIN VmaOf = 0 .. NPages - 1
       /\ NoVma \notin WritableVmas \cup XpmemVmas
       /\ NoThread \notin Faulters \cup Recallers \cup Writers \cup Destroyers

VARIABLES
  blocking, recalling,     \* the recall gate of the owner's thread group
  seg_flags,               \* seg->flags: "DESTROYING", "RECALLINGPFNS"
  seg_listed,              \* seg is on seg_tg->seg_list
  sem_readers, sem_writer, \* seg->sema (xpmem_seg_down_read / down_write)
  frame,                   \* the owner's frame for each page
  cow,                     \* the page is write-protected, shared with a child
  next_frame,              \* the next frame a copy-on-write takes
  forks,                   \* forks so far
  pte,                     \* the importer's PTE for each slot, or NoFrame
  refs,                    \* references xpmem holds on each frame (get/put_page)
  n_pinned,                \* atomic_long seg->tg->n_pinned
  fpc, fslot, fpages, findex, fresult,  \* fault handler locals
  recall_PFNs_mutex,       \* tg->recall_PFNs_mutex: its holder or NoThread
  rpc,                     \* where each recaller and writer is
  dpc                      \* where each destroyer is

gate_vars  == <<blocking, recalling>>
seg_vars   == <<seg_flags, seg_listed, sem_readers, sem_writer>>
owner_vars == <<frame, cow, next_frame, forks>>
pin_vars   == <<pte, refs, n_pinned>>
fault_vars == <<fpc, fslot, fpages, findex, fresult>>
recall_vars == <<recall_PFNs_mutex, rpc>>
vars == <<gate_vars, seg_vars, owner_vars, pin_vars, fault_vars, recall_vars, dpc>>

RecallThreads == Recallers \cup Writers

Gate == INSTANCE RecallGate WITH Blockers <- Faulters, RecallerSet <- RecallThreads

-----------------------------------------------------------------------------
(* The fault path.                                                         *)

\* The importer touches slot s while it is not mapped; the fault handler
\* runs for it.
FaultBegin(t, s) ==
  /\ fpc[t] = "idle"
  /\ pte[s] = NoFrame
  /\ fslot' = [fslot EXCEPT ![t] = s]
  /\ fpc' = [fpc EXCEPT ![t] = "block"]
  /\ UNCHANGED <<gate_vars, seg_vars, owner_vars, pin_vars, fpages, findex,
                 fresult, recall_vars, dpc>>

\* xpmem_block_recall_PFNs(seg_tg, 1) returns.
FaultBlock(t) ==
  /\ fpc[t] = "block"
  /\ Gate!Enter(t)
  /\ fpc' = [fpc EXCEPT ![t] = "down_read"]
  /\ UNCHANGED <<seg_vars, owner_vars, pin_vars, fslot, fpages, findex,
                 fresult, recall_vars, dpc>>

\* xpmem_seg_down_read(seg).
FaultDownRead(t) ==
  /\ fpc[t] = "down_read"
  /\ sem_writer = NoThread
  /\ sem_readers' = sem_readers \cup {t}
  /\ fpc' = [fpc EXCEPT ![t] = "pin"]
  /\ UNCHANGED <<gate_vars, seg_flags, seg_listed, sem_writer, owner_vars,
                 pin_vars, fslot, fpages, findex, fresult, recall_vars, dpc>>

\* get_user_pages with FOLL_WRITE (the owner's VMA is writable) breaks
\* copy-on-write on every page it pins: a write-protected page gets a frame
\* of its own, numbered from next_frame in page order.
CowBreak(batch) ==
  LET shared == {p \in batch : cow[p]}
      fresh(p) == next_frame + Cardinality({q \in shared : q < p})
  IN  /\ frame' = [p \in Pages |-> IF p \in shared THEN fresh(p) ELSE frame[p]]
      /\ cow' = [p \in Pages |-> IF p \in batch THEN FALSE ELSE cow[p]]
      /\ next_frame' = next_frame + Cardinality(shared)

\* The pages from p to the end of the owner VMA that holds p.
VmaRest(p) == {q \in p .. NPages - 1 : \A r \in p .. q : VmaOf[r] = VmaOf[p]}

\* How many of the n pages from vaddr get_user_pages reaches: it stops at a
\* page no VMA covers, at an xpmem attachment (VM_PFNMAP), and, with
\* FOLL_WRITE, at a page of a read-only VMA.
GupReach(vaddr, n, write) ==
  LET ok(p) == /\ VmaOf[p] \notin {NoVma} \cup XpmemVmas
               /\ write => VmaOf[p] \in WritableVmas
  IN  Cardinality({k \in 1 .. n : \A p \in vaddr .. vaddr + k - 1 : ok(p)})

\* get_user_pages pins the nr pages from the faulting address; with
\* FOLL_WRITE it breaks their copy-on-write first.  n_pinned grows by nr.
PinBatch(t, nr, write) ==
  LET vaddr == fslot[t]
      batch == vaddr .. vaddr + nr - 1
  IN  /\ IF write THEN CowBreak(batch) ELSE UNCHANGED <<frame, cow, next_frame>>
      /\ fpages' = [fpages EXCEPT ![t] = [i \in 1 .. nr |-> frame'[vaddr + i - 1]]]
      /\ refs' = [f \in Frames |-> refs[f] + Cardinality({p \in batch : frame'[p] = f})]
      /\ n_pinned' = n_pinned + nr
      /\ findex' = [findex EXCEPT ![t] = 1]
      /\ fpc' = [fpc EXCEPT ![t] = IF nr > 0 THEN "remap" ELSE "up"]
      /\ fresult' = [fresult EXCEPT ![t] = IF nr > 0 THEN "none" ELSE "SIGBUS"]

\* find_vma finds no VMA at the faulting address, or the VMA there has
\* xpmem's vm_ops (a range the owner attached from another thread group,
\* whose pages xpmem does not pin): -ENOENT.
PinNoVma(t) ==
  /\ VmaOf[fslot[t]] \in {NoVma} \cup XpmemVmas
  /\ fresult' = [fresult EXCEPT ![t] = "SIGBUS"]
  /\ fpc' = [fpc EXCEPT ![t] = "up"]
  /\ UNCHANGED <<frame, cow, next_frame, refs, n_pinned, fpages, findex>>

(* Mutant: count is not clamped to the pages left in the VMA, so the      *)
(* batch runs into the next VMA with the first one's FOLL_WRITE choice.    *)
xpmem_pin_pages_NoClamp(t, count) ==
  LET vaddr == fslot[t]
      avail == NPages - vaddr
      write == VmaOf[vaddr] \in WritableVmas
  IN  \/ PinNoVma(t)
      \/ /\ VmaOf[vaddr] \notin {NoVma} \cup XpmemVmas
         /\ \E nr \in 0 .. GupReach(vaddr, IF count < avail THEN count ELSE avail, write) :
              PinBatch(t, nr, write)

\* xpmem_pin_pages: -ENOENT when no VMA covers the address or it is an
\* xpmem attachment; else count is
\* clamped to the pages left in the VMA, FOLL_WRITE is passed when the VMA
\* is writable, and get_user_pages pins nr of the pages (fewer when it
\* stops early, none on failure).
xpmem_pin_pages(t, count) ==
  LET vaddr == fslot[t]
      avail == Cardinality(VmaRest(vaddr))
      write == VmaOf[vaddr] \in WritableVmas
  IN  \/ PinNoVma(t)
      \/ /\ VmaOf[vaddr] \notin {NoVma} \cup XpmemVmas
         /\ \E nr \in 0 .. GupReach(vaddr, IF count < avail THEN count ELSE avail, write) :
              PinBatch(t, nr, write)

(* Mutant: xpmem_ensure_valid_PFN without the DESTROYING test.           *)
FaultPinNoDestroyCheck(t) ==
  /\ fpc[t] = "pin"
  /\ \E count \in 1 .. MaxBatch : xpmem_pin_pages(t, count)
  /\ UNCHANGED <<forks, pte>>
  /\ UNCHANGED <<gate_vars, seg_vars, fslot, recall_vars, dpc>>

\* xpmem_ensure_valid_PFN: -ENOENT if the segment is being destroyed, else
\* pin from the faulting address on.
FaultPin(t) ==
  /\ fpc[t] = "pin"
  /\ \/ /\ "DESTROYING" \in seg_flags
        /\ fresult' = [fresult EXCEPT ![t] = "SIGBUS"]
        /\ fpc' = [fpc EXCEPT ![t] = "up"]
        /\ UNCHANGED <<owner_vars, pin_vars, fpages, findex>>
     \/ /\ "DESTROYING" \notin seg_flags
        /\ \E count \in 1 .. MaxBatch : xpmem_pin_pages(t, count)
        /\ UNCHANGED <<forks, pte>>
  /\ UNCHANGED <<gate_vars, seg_vars, fslot, recall_vars, dpc>>

\* The slot remap_func visits next, and the page it installs there.
Slot(t) == fslot[t] + findex[t] - 1
Page(t) == fpages[t][findex[t]]

(* Mutant: a slot already populated keeps the duplicate pin.               *)
remap_func_NoPut(t) ==
  /\ fpc[t] = "remap"
  /\ findex[t] <= Len(fpages[t])
  /\ LET addr == Slot(t)  pfn == Page(t)  old_pfn == pte[addr] IN
     /\ fresult' = [fresult EXCEPT ![t] =
          IF addr = fslot[t] /\ (old_pfn = NoFrame \/ old_pfn = pfn) THEN "NOPAGE" ELSE @]
     /\ pte' = IF old_pfn # NoFrame THEN pte ELSE [pte EXCEPT ![addr] = pfn]
     /\ UNCHANGED <<refs, n_pinned>>
  /\ findex' = [findex EXCEPT ![t] = @ + 1]
  /\ UNCHANGED <<gate_vars, seg_vars, owner_vars, fpc, fslot, fpages, recall_vars, dpc>>

\* remap_func, called by apply_to_page_range under the slot's page-table
\* lock: the faulting slot's result is NOPAGE if it was empty or held this
\* frame already; a populated slot keeps its PTE and the new pin is put
\* back; an empty slot gets a special PTE for the frame.
remap_func(t) ==
  /\ fpc[t] = "remap"
  /\ findex[t] <= Len(fpages[t])
  /\ LET addr == Slot(t)  pfn == Page(t)  old_pfn == pte[addr] IN
     /\ fresult' = [fresult EXCEPT ![t] =
          IF addr = fslot[t] /\ (old_pfn = NoFrame \/ old_pfn = pfn) THEN "NOPAGE" ELSE @]
     /\ IF old_pfn # NoFrame
          THEN /\ refs' = [refs EXCEPT ![pfn] = @ - 1]
               /\ n_pinned' = n_pinned - 1
               /\ UNCHANGED pte
          ELSE /\ pte' = [pte EXCEPT ![addr] = pfn]
               /\ UNCHANGED <<refs, n_pinned>>
  /\ findex' = [findex EXCEPT ![t] = @ + 1]
  /\ UNCHANGED <<gate_vars, seg_vars, owner_vars, fpc, fslot, fpages, recall_vars, dpc>>

(* Mutant: the put loop of xpmem_remap_pages starts at 0, not ctx.index.  *)
xpmem_remap_pages_FromZero(t) ==
  /\ fpc[t] = "remap"
  /\ \/ findex[t] > Len(fpages[t])
     \/ findex[t] = 1
     \/ Slot(t) % PTRS_PER_PTE = 0
  /\ LET left == 1 .. Len(fpages[t]) IN
     /\ refs' = [f \in Frames |-> refs[f] - Cardinality({i \in left : fpages[t][i] = f})]
     /\ n_pinned' = n_pinned - Cardinality(left)
  /\ fpc' = [fpc EXCEPT ![t] = "up"]
  /\ UNCHANGED <<gate_vars, seg_vars, owner_vars, pte, fslot, fpages, findex,
                 fresult, recall_vars, dpc>>

\* apply_to_page_range returns: after the last slot, or early with -ENOMEM
\* when it cannot allocate the page table of the next slot (so before the
\* first slot, or at the first slot of a page table).  xpmem_remap_pages
\* then puts every page remap_func did not reach.
xpmem_remap_pages(t) ==
  /\ fpc[t] = "remap"
  /\ \/ findex[t] > Len(fpages[t])
     \/ findex[t] = 1
     \/ Slot(t) % PTRS_PER_PTE = 0
  /\ LET left == findex[t] .. Len(fpages[t]) IN
     /\ refs' = [f \in Frames |-> refs[f] - Cardinality({i \in left : fpages[t][i] = f})]
     /\ n_pinned' = n_pinned - Cardinality(left)
  /\ fpc' = [fpc EXCEPT ![t] = "up"]
  /\ UNCHANGED <<gate_vars, seg_vars, owner_vars, pte, fslot, fpages, findex,
                 fresult, recall_vars, dpc>>

\* xpmem_seg_up_read(seg); xpmem_unblock_recall_PFNs(seg_tg); return.
FaultEnd(t) ==
  /\ fpc[t] = "up"
  /\ sem_readers' = sem_readers \ {t}
  /\ Gate!Leave(t)
  /\ fpc' = [fpc EXCEPT ![t] = "idle"]
  /\ fpages' = [fpages EXCEPT ![t] = <<>>]
  /\ findex' = [findex EXCEPT ![t] = 1]
  /\ fresult' = [fresult EXCEPT ![t] = "none"]
  /\ UNCHANGED <<seg_flags, seg_listed, sem_writer, owner_vars, pin_vars,
                 fslot, recall_vars, dpc>>

-----------------------------------------------------------------------------
(* The recall on fork and on a procfs write.                               *)

\* xpmem_clear_PTEs(seg) (spec 4.4): every importer PTE of the segment is
\* cleared and its pin put, as xpmem_unpin_pages does (module XpmemUnpin).
ClearPTEs ==
  LET mapped == {s \in Pages : pte[s] # NoFrame} IN
  /\ refs' = [f \in Frames |-> refs[f] - Cardinality({s \in mapped : pte[s] = f})]
  /\ n_pinned' = n_pinned - Cardinality(mapped)
  /\ pte' = [s \in Pages |-> NoFrame]

(* Mutant: xpmem_fork_begin takes the mutex without first disallowing    *)
(* blocking recalls, so faults go on inside the recall.                    *)
RecallBeginNoDisallow(r) ==
  /\ rpc[r] = "idle"
  /\ forks < MaxForks
  /\ rpc' = [rpc EXCEPT ![r] = "lock"]
  /\ UNCHANGED <<gate_vars, seg_vars, owner_vars, pin_vars, fault_vars,
                 recall_PFNs_mutex, dpc>>

\* xpmem_fork_begin: xpmem_disallow_blocking_recall_PFNs.
RecallBegin(r) ==
  /\ rpc[r] = "idle"
  /\ forks < MaxForks
  /\ Gate!StartRecall(r)
  /\ rpc' = [rpc EXCEPT ![r] = "lock"]
  /\ UNCHANGED <<seg_vars, owner_vars, pin_vars, fault_vars, recall_PFNs_mutex, dpc>>

\* xpmem_is_thread_group_stopped: every thread of the owner is stopped or
\* exiting, which a forking thread can be only in user space, before
\* xpmem_fork_begin or between it and xpmem_fork_end.
ThreadGroupStopped ==
  \A k \in Recallers : rpc[k] \in {"idle", "forked"}

\* xpmem_unpin_procfs_write: -EPERM unless the owner is stopped (a return
\* that changes nothing); the test is made once.  Then
\* xpmem_disallow_blocking_recall_PFNs.
WriteBegin(w) ==
  /\ rpc[w] = "idle"
  /\ ThreadGroupStopped
  /\ Gate!StartRecall(w)
  /\ rpc' = [rpc EXCEPT ![w] = "lock"]
  /\ UNCHANGED <<seg_vars, owner_vars, pin_vars, fault_vars, recall_PFNs_mutex, dpc>>

\* mutex_lock(&tg->recall_PFNs_mutex).
RecallLock(r) ==
  /\ rpc[r] = "lock"
  /\ recall_PFNs_mutex = NoThread
  /\ recall_PFNs_mutex' = r
  /\ rpc' = [rpc EXCEPT ![r] = "list"]
  /\ UNCHANGED <<gate_vars, seg_vars, owner_vars, pin_vars, fault_vars, dpc>>

\* xpmem_recall_PFNs_of_tg: a segment on the list and not being destroyed
\* is recalled; otherwise the walk ends.
RecallListWalk(r) ==
  /\ rpc[r] = "list"
  /\ rpc' = [rpc EXCEPT ![r] =
               IF seg_listed /\ "DESTROYING" \notin seg_flags THEN "flag" ELSE "unlock"]
  /\ UNCHANGED <<gate_vars, seg_vars, owner_vars, pin_vars, fault_vars,
                 recall_PFNs_mutex, dpc>>

\* xpmem_recall_PFNs: under seg->lock, a segment being destroyed or
\* recalled is waited on until destroyed; otherwise it is marked.
RecallFlag(r) ==
  /\ rpc[r] = "flag"
  /\ IF seg_flags \cap {"DESTROYING", "RECALLINGPFNS"} # {}
       THEN /\ rpc' = [rpc EXCEPT ![r] = "wait_destroyed"]
            /\ UNCHANGED seg_flags
       ELSE /\ seg_flags' = seg_flags \cup {"RECALLINGPFNS"}
            /\ rpc' = [rpc EXCEPT ![r] = "down_write"]
  /\ UNCHANGED <<gate_vars, seg_listed, sem_readers, sem_writer, owner_vars,
                 pin_vars, fault_vars, recall_PFNs_mutex, dpc>>

\* xpmem_wait_for_seg_destroyed(seg) returns once the segment is gone;
\* back in the list walk the segment has left the list and the walk ends.
RecallWaitDestroyed(r) ==
  /\ rpc[r] = "wait_destroyed"
  /\ ~seg_listed
  /\ rpc' = [rpc EXCEPT ![r] = "unlock"]
  /\ UNCHANGED <<gate_vars, seg_vars, owner_vars, pin_vars, fault_vars,
                 recall_PFNs_mutex, dpc>>

\* xpmem_seg_down_write(seg).
RecallDownWrite(r) ==
  /\ rpc[r] = "down_write"
  /\ sem_writer = NoThread /\ sem_readers = {}
  /\ sem_writer' = r
  /\ rpc' = [rpc EXCEPT ![r] = "clear"]
  /\ UNCHANGED <<gate_vars, seg_flags, seg_listed, sem_readers, owner_vars,
                 pin_vars, fault_vars, recall_PFNs_mutex, dpc>>

\* xpmem_clear_PTEs(seg).
RecallClear(r) ==
  /\ rpc[r] = "clear"
  /\ ClearPTEs
  /\ rpc' = [rpc EXCEPT ![r] = "unflag"]
  /\ UNCHANGED <<gate_vars, seg_vars, owner_vars, fault_vars, recall_PFNs_mutex, dpc>>

(* Mutant: the RECALLINGPFNS flag is left set.                             *)
RecallUnflagKeep(r) ==
  /\ rpc[r] = "unflag"
  /\ sem_writer' = NoThread
  /\ rpc' = [rpc EXCEPT ![r] = "unlock"]
  /\ UNCHANGED <<gate_vars, seg_flags, seg_listed, sem_readers, owner_vars,
                 pin_vars, fault_vars, recall_PFNs_mutex, dpc>>

\* Clear RECALLINGPFNS under seg->lock, xpmem_seg_up_write(seg); the list
\* walk goes on past the segment, or from the list head if it was removed
\* meanwhile, and with one segment ends either way.
RecallUnflag(r) ==
  /\ rpc[r] = "unflag"
  /\ seg_flags' = seg_flags \ {"RECALLINGPFNS"}
  /\ sem_writer' = NoThread
  /\ rpc' = [rpc EXCEPT ![r] = "unlock"]
  /\ UNCHANGED <<gate_vars, seg_listed, sem_readers, owner_vars, pin_vars,
                 fault_vars, recall_PFNs_mutex, dpc>>

\* mutex_unlock; xpmem_fork_begin returns to the forking thread, the
\* procfs write goes on to allow blocking recalls.
RecallUnlock(r) ==
  /\ rpc[r] = "unlock"
  /\ recall_PFNs_mutex' = NoThread
  /\ rpc' = [rpc EXCEPT ![r] = IF r \in Recallers THEN "fork" ELSE "allow"]
  /\ UNCHANGED <<gate_vars, seg_vars, owner_vars, pin_vars, fault_vars, dpc>>

\* The owner forks: every page becomes write-protected and shared with
\* the child.
Fork(r) ==
  /\ rpc[r] = "fork"
  /\ cow' = [p \in Pages |-> TRUE]
  /\ forks' = forks + 1
  /\ rpc' = [rpc EXCEPT ![r] = "forked"]
  /\ UNCHANGED <<gate_vars, seg_vars, frame, next_frame, pin_vars, fault_vars,
                 recall_PFNs_mutex, dpc>>

\* xpmem_fork_end: xpmem_allow_blocking_recall_PFNs.
ForkEnd(r) ==
  /\ rpc[r] = "forked"
  /\ Gate!EndRecall(r)
  /\ rpc' = [rpc EXCEPT ![r] = "idle"]
  /\ UNCHANGED <<seg_vars, owner_vars, pin_vars, fault_vars, recall_PFNs_mutex, dpc>>

\* The procfs write: xpmem_allow_blocking_recall_PFNs, return count.
WriteEnd(w) ==
  /\ rpc[w] = "allow"
  /\ Gate!EndRecall(w)
  /\ rpc' = [rpc EXCEPT ![w] = "idle"]
  /\ UNCHANGED <<seg_vars, owner_vars, pin_vars, fault_vars, recall_PFNs_mutex, dpc>>

-----------------------------------------------------------------------------
(* The owner writes a write-protected page of a writable VMA of its own  *)
(* (an xpmem attachment maps another group's frames and is not copied on  *)
(* write): copy on write gives it a new frame, the child keeps the old one.*)

OwnerWrite(p) ==
  /\ VmaOf[p] \in WritableVmas \ XpmemVmas
  /\ cow[p]
  /\ frame' = [frame EXCEPT ![p] = next_frame]
  /\ cow' = [cow EXCEPT ![p] = FALSE]
  /\ next_frame' = next_frame + 1
  /\ UNCHANGED <<gate_vars, seg_vars, forks, pin_vars, fault_vars, recall_vars, dpc>>

(* The importer detaches (spec 6, DETACH) or unmaps the attachment, and   *)
(* attaches again: its PTEs are zapped and their pins put, as              *)
(* xpmem_unpin_pages does.  munmap holds the importer's mmap lock for      *)
(* writing, which a fault handler holds for reading throughout.            *)
ImporterUnmap ==
  /\ \A t \in Faulters : fpc[t] = "idle"
  /\ \E s \in Pages : pte[s] # NoFrame
  /\ ClearPTEs
  /\ UNCHANGED <<gate_vars, seg_vars, owner_vars, fault_vars, recall_vars, dpc>>

-----------------------------------------------------------------------------
(* The segment's removal (outside src/; spec 4.5 and the flags that       *)
(* xpmem_recall_PFNs and xpmem_ensure_valid_PFN test): mark DESTROYING,    *)
(* take the segment's write lock, clear the importer PTEs, take the        *)
(* segment off the list and release the lock.                              *)

DestroyMark(d) ==
  /\ dpc[d] = "idle"
  /\ "DESTROYING" \notin seg_flags
  /\ seg_flags' = seg_flags \cup {"DESTROYING"}
  /\ dpc' = [dpc EXCEPT ![d] = "down_write"]
  /\ UNCHANGED <<gate_vars, seg_listed, sem_readers, sem_writer, owner_vars,
                 pin_vars, fault_vars, recall_vars>>

DestroyDownWrite(d) ==
  /\ dpc[d] = "down_write"
  /\ sem_writer = NoThread /\ sem_readers = {}
  /\ sem_writer' = d
  /\ dpc' = [dpc EXCEPT ![d] = "clear"]
  /\ UNCHANGED <<gate_vars, seg_flags, seg_listed, sem_readers, owner_vars,
                 pin_vars, fault_vars, recall_vars>>

DestroyClear(d) ==
  /\ dpc[d] = "clear"
  /\ ClearPTEs
  /\ dpc' = [dpc EXCEPT ![d] = "remove"]
  /\ UNCHANGED <<gate_vars, seg_vars, owner_vars, fault_vars, recall_vars>>

DestroyRemove(d) ==
  /\ dpc[d] = "remove"
  /\ seg_listed' = FALSE
  /\ sem_writer' = NoThread
  /\ dpc' = [dpc EXCEPT ![d] = "done"]
  /\ UNCHANGED <<gate_vars, seg_flags, sem_readers, owner_vars, pin_vars,
                 fault_vars, recall_vars>>

-----------------------------------------------------------------------------

Init ==
  /\ blocking = {} /\ recalling = {}
  /\ seg_flags = {} /\ seg_listed = TRUE
  /\ sem_readers = {} /\ sem_writer = NoThread
  /\ frame = [p \in Pages |-> p + 1]
  /\ cow = [p \in Pages |-> FALSE]
  /\ next_frame = NPages + 1
  /\ forks = 0
  /\ pte = [s \in Pages |-> NoFrame]
  /\ refs = [f \in Frames |-> 0]
  /\ n_pinned = 0
  /\ fpc = [t \in Faulters |-> "idle"]
  /\ fslot = [t \in Faulters |-> 0]
  /\ fpages = [t \in Faulters |-> <<>>]
  /\ findex = [t \in Faulters |-> 1]
  /\ fresult = [t \in Faulters |-> "none"]
  /\ recall_PFNs_mutex = NoThread
  /\ rpc = [r \in RecallThreads |-> "idle"]
  /\ dpc = [d \in Destroyers |-> "idle"]

FaultStep(t) ==
  \/ FaultBlock(t) \/ FaultDownRead(t) \/ FaultPin(t) \/ remap_func(t)
  \/ xpmem_remap_pages(t) \/ FaultEnd(t)

RecallStep(r) ==
  \/ RecallLock(r) \/ RecallListWalk(r) \/ RecallFlag(r) \/ RecallWaitDestroyed(r)
  \/ RecallDownWrite(r) \/ RecallClear(r) \/ RecallUnflag(r) \/ RecallUnlock(r)
  \/ Fork(r) \/ ForkEnd(r) \/ WriteEnd(r)

DestroyStep(d) ==
  DestroyDownWrite(d) \/ DestroyClear(d) \/ DestroyRemove(d)

Next ==
  \/ \E t \in Faulters : (\E s \in Pages : FaultBegin(t, s)) \/ FaultStep(t)
  \/ \E r \in Recallers : RecallBegin(r)
  \/ \E w \in Writers : WriteBegin(w)
  \/ \E r \in RecallThreads : RecallStep(r)
  \/ \E d \in Destroyers : DestroyMark(d) \/ DestroyStep(d)
  \/ \E p \in Pages : OwnerWrite(p)
  \/ ImporterUnmap

(* A thread inside a call is eventually run.  Entering the gate and taking *)
(* the segment's semaphore or the recall mutex are strongly fair: rwsem,   *)
(* the mutex and the wait queues hand over to waiters.  Starting a fault,  *)
(* a fork, a procfs write, a removal or an owner write is the program's    *)
(* choice.                                                                 *)
Fairness ==
  /\ \A t \in Faulters : WF_vars(FaultStep(t)) /\ SF_vars(FaultBlock(t))
                          /\ SF_vars(FaultDownRead(t))
  /\ \A r \in RecallThreads : /\ WF_vars(RecallStep(r)) /\ SF_vars(RecallLock(r))
                               /\ SF_vars(RecallDownWrite(r))
  /\ \A d \in Destroyers : WF_vars(DestroyStep(d)) /\ SF_vars(DestroyDownWrite(d))

Spec == Init /\ [][Next]_vars /\ Fairness

-----------------------------------------------------------------------------

TypeOK ==
  /\ blocking \subseteq Faulters /\ recalling \subseteq RecallThreads
  /\ seg_flags \subseteq {"DESTROYING", "RECALLINGPFNS"}
  /\ sem_readers \subseteq Faulters
  /\ sem_writer \in RecallThreads \cup Destroyers \cup {NoThread}
  /\ recall_PFNs_mutex \in RecallThreads \cup {NoThread}
  /\ frame \in [Pages -> Frames] /\ cow \in [Pages -> BOOLEAN]
  /\ pte \in [Pages -> Frames \cup {NoFrame}]
  /\ refs \in [Frames -> Nat] /\ n_pinned \in Nat
  /\ \A t \in Faulters : fpages[t] \in Seq(Frames) /\ Len(fpages[t]) <= MaxBatch

\* Pins a fault handler holds on frame f that remap_func has not consumed.
Held(f) ==
  Cardinality({<<t, i>> \in Faulters \X (1 .. MaxBatch) :
                 /\ fpc[t] = "remap"
                 /\ i \in findex[t] .. Len(fpages[t])
                 /\ fpages[t][i] = f})

(* Pin accounting (spec 3 (i), (iii) and 4.3): every reference xpmem      *)
(* holds on a frame is either an importer PTE mapping it or a page of a    *)
(* fault in flight, and seg->tg->n_pinned counts exactly these references, *)
(* across duplicate installs by racing faulters, early ends of             *)
(* apply_to_page_range, recalls and removal.                               *)
PinAccounting ==
  /\ \A f \in Frames : refs[f] = Cardinality({s \in Pages : pte[s] = f}) + Held(f)
  /\ n_pinned = SumFunction(refs)

(* Coherence (spec 4.4, fork integration): an importer PTE always maps the *)
(* frame the owner maps at that page, through forks, copy-on-write and     *)
(* faults pinning pages that are write-protected.                          *)
ImporterCoherent ==
  \A s \in Pages : pte[s] # NoFrame => pte[s] = frame[s]

\* The fork threads and procfs writers whose recall walk is over and that
\* still keep blocking recalls disallowed.
Recalled ==
  {r \in RecallThreads : rpc[r] \in {"unlock", "fork", "forked", "allow"}}

(* What a recall promises (spec 4.4, and spec 7: writing the pid entry    *)
(* forces a recall): from the end of the walk of xpmem_fork_begin or of    *)
(* the procfs write until its xpmem_allow_blocking_recall_PFNs, no         *)
(* importer PTE maps the segment and no pin is held, however faults, the   *)
(* other recaller and the owner's copy-on-write interleave with it.        *)
RecallClearsAll ==
  Recalled # {} => /\ \A s \in Pages : pte[s] = NoFrame
                    /\ n_pinned = 0

(* Once the segment is removed no importer PTE maps it and no pin of this *)
(* thread group is left: a fault that raced the removal saw DESTROYING in  *)
(* xpmem_ensure_valid_PFN or was cleared by it.                            *)
NothingPinnedAfterRemoval ==
  ~seg_listed => n_pinned = 0 /\ \A s \in Pages : pte[s] = NoFrame

(* A recall walk that has started ends, for the fork and the procfs write *)
(* alike: xpmem_recall_PFNs never waits forever on a flag nobody clears    *)
(* (another walk's RECALLINGPFNS included), nor on the segment's semaphore.*)
RecallTerminates ==
  \A r \in RecallThreads : rpc[r] = "list" ~> rpc[r] \in {"fork", "allow"}

=============================================================================
