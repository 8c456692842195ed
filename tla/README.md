# TLA+ models of xpmem's PFN management (src/kernel/xpmem_pfn.c)

This directory holds TLA+ specifications of the part of xpmem that the
repository's `src/` contains: `src/kernel/xpmem_pfn.c`, which resolves,
pins, remaps and recalls the page frames (PFNs) that an importer process
maps from an exporting process's segment. The rest of the driver
(segment/attachment registry, the fault handler that calls into this file,
the thread-group teardown, the user library) is not under `src/`. Where the
model needs one of these, it is modelled from `spec.md` and marked
`spec_modelled` in `PROJECT.json`.

## The system: parts, state and interactions

| Part | Code | State | Operations |
|---|---|---|---|
| Recall coordinator | `xpmem_block/unblock_recall_PFNs`, `xpmem_disallow/allow_blocking_recall_PFNs` (559-629) | `tg->n_recall_PFNs` (a signed atomic counter), `allow_recall_PFNs_wq`, `block_recall_PFNs_wq` | cmpxchg loops; `wait_event`; wake-ups on `inc_return == 0` and `dec_return == 0` |
| Recall entry points | `xpmem_fork_begin/end` (631-663), `xpmem_unpin_procfs_write` (686-713), `xpmem_is_thread_group_stopped` (668-684) | `recall_PFNs_mutex` | disallow faults, take the mutex, recall every segment, allow faults again |
| Recall walk | `xpmem_recall_PFNs_of_tg`, `xpmem_recall_PFNs` (500-557) | segment flags `RECALLING_PFNs`, `DESTROYING`; `seg_tg->mmap_sem`; the tg's segment list | drop the list lock per segment, clear importer PTEs and unpin them, restart from the list head if the segment left the list |
| Page resolver | `xpmem_hugetlb_pte`, `xpmem_vaddr_to_pte_offset`, `xpmem_vaddr_to_pte_size`, `xpmem_vaddr_to_PFN` (74-238, 480-494) | the owner's page tables | walk pgd/p4d/pud/pmd/pte; a leaf's size and the offset inside it |
| Pin accountant | `xpmem_pin_pages`, `xpmem_unpin_pages`, `xpmem_ensure_valid_PFN` (329-475) | `tg->n_pinned`, page refcounts | get_user_pages for the range; release present pages and skip holes by the level size |
| Fault remapper | `xpmem_remap_func`, `xpmem_remap_pages` (240-322) | importer PTEs, `vmf` result | install the pinned PFNs with apply_to_page_range; release duplicates and left-overs |
| procfs statistics | `xpmem_unpin_procfs_show` (715-736) | none | prints counters |

How the parts meet: an importer's fault handler brackets pin+remap with
`xpmem_block_recall_PFNs` / `xpmem_unblock_recall_PFNs` on the owner's
thread group. A recall (before the owner forks, so that copy-on-write does
not leave importers on stale frames, or on a procfs write by an
administrator) first waits until no fault is inside, then keeps new faults
out while it clears importer PTEs and unpins. The counter carries both
sides: it is negative when faults are inside and positive when recalls are.

Hard behaviours of this code, listed as `hazards` in `PROJECT.json` at the
line where each bites:
- the two cmpxchg loops race each other;
- `waitqueue_active` is read without a lock;
- the wake-ups fire only when the counter crosses exactly 0, and `wait_event`
  tests, queues and re-tests the condition;
- the procfs write checks "stopped" once, before a long recall;
- `xpmem_fork_end` looks the thread group up again;
- the walk of the segment list drops its lock around each recall and
  restarts from the head after a removal;
- `xpmem_pin_pages` keeps the caller's CPU mask in a per-CPU slot while it
  sleeps on another CPU, and restores that mask even if user space set a
  new one meanwhile;
- a PFN installed twice by concurrent faults;
- `apply_to_page_range` failing midway;
- the hole-skipping arithmetic of `xpmem_unpin_pages` and the huge-page
  offsets of `xpmem_hugetlb_pte`.

## Modules

* `RecallGate`: the abstract promise of the coordinator (spec 4.4, 8). It
  has a set of faulters inside and a set of recalls in progress, and the two
  are never both non-empty. A fault may enter only if no recall is in
  progress. A recall may start only if no fault is inside.
* `XpmemRecall`: the coordinator, translated from lines 559-713. Its
  variables are the counter, the two wait queues (sets of queued threads),
  the recall mutex, a program counter and the local `value` of the CAS loop
  per thread, and each faulter's `wait` argument. Every atomic operation and
  every step of the kernel's `wait_event` loop is its own action:
  * `BlockCheckWaiters`, `BlockRead`, `BlockCas`, `BlockWait`, `BlockPrepare`,
    `BlockCondition`, `BlockWakes` and `Unblock` for the faulter side;
  * the `Disallow*` actions, `RecallLock`, `RecallUnlock`, `ForkEnd` and
    `WriteEnd` for the recallers.
  
  `wake_up` empties a queue, since the entries are autoremove entries, and a
  sleeper runs again only once it is off its queue. `Blocking` and
  `Recalling` (sets derived from the program counters) map the module onto
  `RecallGate`.
  `Closers` tear the thread group down (spec 4.5, modelled from the spec):
  `TgDestroy` marks it DESTROYING. After that the tgid lookups of
  `xpmem_fork_begin` and the procfs write fail, and so does the lookup of
  `xpmem_fork_end`, which then returns without
  `xpmem_allow_blocking_recall_PFNs`.
* `MCXpmemRecall`: gives the constants their values: two faulters, one
  forking thread, one procfs writer and one closer.
* `XpmemRecallWalk`: `xpmem_recall_PFNs_of_tg` (lines 500-557) over a list
  of segments.
  * The list is a sequence. `NextOf` is the iterator's step. A segment
    removed by `list_del_init` is its own successor.
  * The walker holds the list's read lock while stepping (`WalkNext`,
    `WalkEnd`), and drops it for `xpmem_recall_PFNs`: `RecallFlag`,
    `RecallWaitDestroyed`, `RecallDownWrite`, `RecallClear` and
    `RecallUnflag`.
  * `WalkRelock` takes the lock again and restarts from the head if the
    segment left the list.
  * Other threads of the owner make segments (`Make`, appended at the tail)
    and remove them (`DestroyMark`, `DestroyDownWrite`, `DestroyRemove`).
    Both are modelled from spec 4.5. The list's write lock is the guard
    `~reading`.
  * The history variable `live` holds the segments listed when the walk
    began that no removal has touched since.
* `MCXpmemRecallWalk`: three segments. Two are listed at the start, and one
  is made during the walk.
* `XpmemPinAffinity`: the CPU-affinity switch of `xpmem_pin_pages` (lines
  324-403). A call that finds the page unmapped, and the owner on another
  NUMA node, does the following:
  * it takes `this_cpu_ptr(&saved_mask_percpu)` and saves its mask there
    (`PinCheck`, `PinSaveMask`);
  * it moves itself to the owner's CPU (`PinMoveToOwner`);
  * it sleeps in get_user_pages (`PinGup`);
  * it restores the mask from the saved slot (`PinRestore`).
  
  The scheduler may move a thread within its mask at any time (`Migrate`),
  because the code is preemptible. The owner may move too. `entry_mask` is
  a history variable: the mask a call began with.
* `MCXpmemPinAffinity`: two CPUs on two nodes, and one or two faulters.
* `XpmemPageTable`: the page walks (lines 74-238, 480-494) as pure
  operators over an address space. The address space is a record of one
  entry function per level (`"none"`, `"table"` or `"leaf"`) and a VMA kind
  per pud region. The module has three parts:
  * the walks: `xpmem_vaddr_to_pte_offset`, `xpmem_hugetlb_pte`,
    `xpmem_vaddr_to_PFN` and `xpmem_vaddr_to_pte_size`;
  * reference definitions written without the walk: `ReferencePFN` and
    `PresentPages`;
  * `IsAddressSpace`, which generates every well-formed address space.
  
  Sizes are scaled: a page is 2 units, a PMD 4, a PUD 8, a P4D 16 and a
  PGDIR 32. The user space is 32 units: one pgd entry, and two entries at
  every level below it. Frames are laid out one to one: the frame of an address is
  `FIRST_PFN` plus its page number.
* `XpmemResolve`: resolves any address of any generated address space, and
  compares the result with `ReferencePFN`.
* `XpmemUnpin`: `xpmem_unpin_pages` (lines 406-458), one loop iteration per
  step. A present page is put. A hole skips to the next boundary of the
  level where the walk stopped.
* `XpmemFault`: one segment of the owner's thread group, with importer
  faults, the owner's forks, copy-on-write, the importer's unmap, and the
  segment's removal.
  * The faulter runs `FaultBegin`, `FaultBlock`, `FaultDownRead` and then
    `FaultPin`, which is `xpmem_ensure_valid_PFN`. The owner's pages lie in
    VMAs (`VmaOf`). Some VMAs are writable (`WritableVmas`), some are xpmem
    attachments the owner made of another group's segment (`XpmemVmas`),
    and a page may be in no VMA (`NoVma`). Pinning (`xpmem_pin_pages`)
    works as follows:
    * with no VMA at the address, or an xpmem attachment there
      (`xpmem_is_vm_ops_set`), it gives SIGBUS (`PinNoVma`);
    * otherwise it clamps the count to the pages left in the VMA
      (`VmaRest`, line 348);
    * it takes `FOLL_WRITE` from that VMA's writability;
    * `GupReach` gives how far get_user_pages gets. It stops at a hole, at
      an xpmem attachment, or at a read-only page when writing;
    * `PinBatch` breaks copy-on-write only on a write, and pins any prefix
      of that reach.
  * It then runs `remap_func`, one slot per step, and `xpmem_remap_pages`,
    which may stop early and puts the leftovers. `FaultEnd` unblocks.
  * The fork runs `RecallBegin` (disallow faults), `RecallLock` (take
    `recall_PFNs_mutex`) and `RecallListWalk`. It may skip a DESTROYING
    segment. `RecallFlag` and `RecallWaitDestroyed` follow, then
    `RecallDownWrite`, `RecallClear` (`xpmem_clear_PTEs`), `RecallUnflag`,
    `RecallUnlock`, `Fork` (every owner page becomes copy-on-write) and
    `ForkEnd`.
  * `Writers` are procfs writers (`xpmem_unpin_procfs_write`). A writer
    starts only when `ThreadGroupStopped` holds, that is, when no fork is
    between `xpmem_fork_begin` and its end (`WriteBegin`). It then runs the
    same walk under the same mutex, and `WriteEnd` allows faults again.
  * Removal (`Destroy*`) and `ImporterUnmap` are modelled from spec 4.5,
    because that code is not under `src/`.
  * `OwnerWrite` is the kernel's copy-on-write fault in the owner: the page
    gets a new frame.
  
  The recall gate is taken as `RecallGate`. `XpmemRecall` is shown to
  refine it, so the composition is sound for safety. `refs` counts
  xpmem's references on each frame, and `n_pinned` is the thread group's
  counter.
* `MCXpmemFault`: two faulters (symmetric), one forking recaller, one
  procfs writer, and zero or one remover. Page 0 is in a read-only VMA,
  pages 1 and 2 are in a writable one, and page 3 is in an xpmem
  attachment. In the removal cfg, page 1 is in no VMA.

## Runs

| Run | cfg | Checks | Result |
|---|---|---|---|
| recall_safety | `MCXpmemRecall.cfg` | `TypeOK`, `CounterAccounts`, `GateSpec`, `NoLostWakeup` | pass (about 129k states) |
| recall_starvation | `MCXpmemRecallStarve.cfg` | `RecallerProgress` | violation (a finding) |
| recall_teardown | `MCXpmemRecallTeardown.cfg` | `SleepingFaulterWoken` | violation (a finding) |
| recall_walk | `MCXpmemRecallWalk.cfg` | `TypeOK`, `RecallsEveryLiveSegment`, `WalkTerminates` | pass (about 4k states) |
| resolve | `MCXpmemResolve.cfg` | `TypeOK`, `ResolvesBackingFrame` | pass (about 56k states) |
| resolve_thp_pud | `MCXpmemResolveThpPud.cfg` | `ResolvesBackingFrame` | violation (a finding) |
| unpin | `MCXpmemUnpin.cfg` | `TypeOK`, `UnpinsExactlyPresent`, `UnpinTerminates` | pass (about 110k states) |
| pin_affinity | `MCXpmemPinAffinity.cfg` | `TypeOK`, `AffinityRestored` | pass (244 states) |
| pin_affinity_shared | `MCXpmemPinAffinityShared.cfg` | `AffinityRestored` | violation (a finding) |
| fault_safety | `MCXpmemFault.cfg` | `TypeOK`, `PinAccounting`, `ImporterCoherent`, `RecallClearsAll` | pass (about 108k states) |
| fault_remove | `MCXpmemFaultRemove.cfg` | `NothingPinnedAfterRemoval`, `RecallTerminates` | pass (about 6k states) |
| fork_during_removal | `MCXpmemFaultRemoveRace.cfg` | `ImporterCoherent` | violation (a finding) |

* `CounterAccounts`: while the thread group is live, the counter equals
  the number of recallers in, less the number of faulters in. No CAS retry, `-EAGAIN` return
  or wait path gains or loses a unit.
* `GateSpec`: the coordinator implements `RecallGate` under the mapping
  above. This is the mutual exclusion of fault sections and recalls, and it
  also forbids any step that lets a fault in during a recall.
* `NoLostWakeup`: no thread stays asleep forever on a wait queue while its
  condition holds.
* `SleepingFaulterWoken` fails once a teardown can occur, in this order:
  1. A fork has passed `xpmem_fork_begin`.
  2. The thread group is marked DESTROYING.
  3. A faulter goes to sleep on `block_recall_PFNs_wq`.
  4. `xpmem_fork_end` fails its lookup (line 655) and returns, so the
     counter stays at 1.
  
  The faulter sleeps forever. The run has no procfs writer, so the hang
  cannot come from two recalls overlapping without end: with one forker,
  every fork's end wakes the queue. Without the teardown the same cfg
  passes. A closer is in `recall_safety`, whose properties all hold with
  it.
* `RecallsEveryLiveSegment`: when the walk ends, every segment that was
  listed and not being removed when it began, and that no removal has
  touched since, has had its PTEs cleared. This holds however segments were
  made and removed while the walk ran unlocked. `WalkTerminates` says the
  walk ends, so the restart never loops on the removed entry.
* `AffinityRestored`: when `xpmem_pin_pages` returns, the thread has the
  mask it was called with. It holds for one faulter. With two faulters that
  start on the same CPU it fails: both save into that CPU's one slot, and
  the first to return takes the other's mask. See `findings`.
* `RecallerProgress`: fails. Under fair scheduling, short faults that keep
  the counter at or below 0 overtake a recaller that has not yet queued
  itself on `allow_recall_PFNs_wq`. The `waitqueue_active` priority only
  helps a recaller already asleep. Spec 4.4 promises priority to a waiting
  recall. See `findings`.
* `ResolvesBackingFrame`: for every address of every address space with
  hugetlb PUD and PMD leaves and THP PMD leaves, the walk returns the frame
  that backs the address. The THP-PUD run allows a PUD leaf in an ordinary
  VMA. The code then takes the offset modulo `HPAGE_PMD_SIZE` (line 100) and
  returns the wrong frame for the upper half of the leaf. This is a finding
  against spec 4.1.
* `UnpinsExactlyPresent`: for every start and size, the loop puts each
  present page in the range exactly once, and nothing else. `n_pinned` ends
  as the number of present pages outside the range. `UnpinTerminates` says
  the loop returns.
* `PinAccounting`: every reference xpmem holds on a frame is either an
  importer PTE or a pin held by a fault in flight, and `n_pinned` is their
  sum. This holds across duplicate installs, early aborts, recalls, unmaps
  and removal.
* `ImporterCoherent`: an importer PTE always maps the frame the owner maps
  at that page. It depends on the clamp at line 348. Without the clamp, a
  fault at the read-only page 0 pins page 1 of the writable VMA without
  `FOLL_WRITE`. That leaves the importer on a copy-on-write frame shared
  with the child, and the owner's next write moves away from it.
* `RecallClearsAll`: once a fork's or a procfs writer's walk is over, and
  until it allows faults again, no importer PTE is present and nothing is
  pinned. A fault that slips past the gate, or a walk that overlaps a fault,
  breaks it.
* `NothingPinnedAfterRemoval`: once the segment has left the list, nothing
  is pinned or mapped.
* `RecallTerminates`: a fork's or a procfs writer's recall always ends,
  including one that waits for a segment's destruction. It needs
  `recall_PFNs_mutex`. Without the mutex, one walk sees `RECALLINGPFNS`
  set by the other and waits in `xpmem_wait_for_seg_destroyed` for a
  destruction that never comes.
* `fork_during_removal` fails in this order:
  1. Removal sets DESTROYING.
  2. The fork's walk skips the segment (line 539), while its PTEs are still
     present.
  3. The fork completes.
  4. The owner's next write gives the owner a new frame.
  
  The importer is then left on the child's frame until removal clears the
  PTEs.

Each property of a passing run has a mutant in `PROJECT.json`, a plausible
bug in the translated code that TLC must catch:
- a lost update in place of the cmpxchg;
- a dropped `value > 0` test;
- the wake-up tested against 1;
- a recaller queued on the wrong queue;
- every huge leaf taken as a THP;
- `-ENOENT` in place of 0;
- a missing decrement or round-down in the unpin loop;
- a `remap_func` that does not put a duplicate;
- the pin count not clamped to the VMA;
- a recall that starts without disallowing faults;
- leftovers put from index 0;
- no DESTROYING check;
- `RECALLINGPFNS` never cleared;
- the walk's restart set to the first entry (it skips that entry), or
  dropped (it loops on the removed one);
- a segment added to the list twice;
- the mask restored from the slot of the CPU the thread now runs on.

**Bounds.**
* **Recall gate.** Two faulters suffice for the races between faulters (one
  CAS overtaking another, one unblock waking the other's recaller). One
  forker and one writer give two concurrent recallers, which the code
  allows because the stopped check is made once. The counter then ranges
  over -2..2, which covers both wake-up thresholds from both sides.
* **Page walks.** The scaled address space has two entries at every level
  below the pgd (which has one), so every kind of hole and leaf occurs at both an aligned and an unaligned
  position.
* **Recall walk.** Three segments, two of them listed, can each be
  removed. So a removal can hit the segment being recalled, one before the
  iterator or one after it, and the first or the last entry. A segment made
  mid-walk is appended behind the iterator.
* **Affinity.** Two CPUs on two nodes, and two threads with any masks.
  This is the least needed for two faulters to share a slot while the
  owner is on the other node.
* **XpmemFault.** The model uses 4 pages, batches of at most 2 pages, and
  page tables of 2 entries, so a batch can cross a page-table boundary. It
  allows 2 forks. Pages are write-protected after the first fork and are
  copied again after the second. Both faulters may hit the same slot. The
  pages span a read-only VMA, a writable one and an xpmem attachment, so a
  batch can reach a VMA boundary on either side of the writable VMA. The removal run has one faulter, two pages and a hole:
  it checks liveness, and with two faulters it takes minutes. Its faulter
  still races the fork, the writer and the remover.

**Fairness.** A thread inside a kernel function is runnable until it
sleeps, so each thread's steps are weakly fair. `recall_PFNs_mutex` is a
kernel mutex with handoff, and the segment's rw-semaphore hands off to
waiters, so taking either is strongly fair (`RecallLock`,
`RecallDownWrite`). Entering the recall gate is
also strongly fair, because the waiter is woken by `wake_up` each time the
gate opens. Starting a fault, a fork, a write, an unmap, a removal, a
segment's creation or a teardown is the program's choice and is not fair.
In `XpmemRecallWalk` the walker's steps are weakly fair. The steps that
take the segment's rw-semaphore, and the list's write lock, are strongly
fair. `XpmemPinAffinity` checks safety only and assumes no fairness.

## Plan

1. **Done:** `RecallGate`, `XpmemRecall` (with the teardown),
   `XpmemPageTable`, `XpmemResolve`, `XpmemUnpin`, `XpmemFault` (with
   VMAs, xpmem attachments, the clamp, the procfs writer and
   `recall_PFNs_mutex`),
   `XpmemRecallWalk` and `XpmemPinAffinity`, with the runs above.
2. **Left open:** more than one segment in `XpmemFault`, so that the
   fork's walk of `XpmemRecallWalk` and the faults of `XpmemFault` meet in
   one model. One segment already takes `fault_safety` to about 108k
   states. A second one multiplies the page, flag and semaphore state, and
   the liveness run `fault_remove` already needs one faulter to finish in
   time. The walk over several segments is checked on its own in
   `recall_walk`.

## Not modelled

* `xpmem_unpin_procfs_show`: pure output.
* The tests' gtest scaffolding (process spawning, `waitpid`, asserts):
  test harness, not the system under test.
* An unpaired `xpmem_fork_end` (line 659): pairing is up to the user-space
  caller (spec 4.4), so it is not listed as a hazard of this code. A lookup that fails in `xpmem_fork_begin` also fails
  in `xpmem_fork_end`, so the kernel code alone never unpairs them.
* A `sched_setaffinity` on a faulting thread while it sleeps in
  get_user_pages (line 396). The restore then overwrites the new mask on
  kernels before 6.2. Showing it needs a run that expects a violation, and
  the 12 runs are spent. `pin_affinity_shared` already shows the same
  restore using a stale mask.
* The zero-frame test of `remap_func` (line 276): frames in the models
  start at 1, as on the architectures the code builds for, where frame 0
  is never handed to a process. It is not listed as a hazard.
* The tests' `Sync` barrier (`src/test/gtest/common/sync.h`): spec.md puts
  the user-space test harness out of scope, and the barrier guards no
  state of the driver.
* The driver outside `src/`, except the removal and unmap steps that
  `XpmemFault` models from the spec.
* The data contents of pages: properties are about which frame is mapped,
  not about its bytes.
