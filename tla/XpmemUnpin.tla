------------------------------ MODULE XpmemUnpin ------------------------------
(***************************************************************************)
(* xpmem_unpin_pages: release the pin of every present base page of an    *)
(* attachment range, skipping holes by the stride of the page-table level  *)
(* that was found missing.  One call, one loop iteration per step.         *)
(***************************************************************************)
EXTENDS XpmemPageTable, FiniteSets

CONSTANTS
  P4Ds,        \* p4d entries that may be present
  Starts,      \* first byte addresses of the ranges unpinned
  Sizes        \* their sizes in bytes

VARIABLES
  mm,              \* the attachment's page tables (base pages only)
  start, size,     \* the arguments vaddr and size of the call
  vaddr,           \* the local vaddr
  n_pgs,           \* pages of the range still to walk
  n_pgs_unpinned,  \* pages released so far
  puts,            \* put_page calls per page frame
  n_pinned,        \* atomic_long seg->tg->n_pinned
  done             \* the call has returned

vars == <<mm, start, size, vaddr, n_pgs, n_pgs_unpinned, puts, n_pinned, done>>

\* num_of_pages(v, s): pages that [v, v + s) touches.
num_of_pages(v, s) == ((v % PAGE_SIZE) + s + (PAGE_SIZE - 1)) \div PAGE_SIZE

\* vaddr &= PAGE_MASK
PageAlign(v) == v - (v % PAGE_SIZE)

(* Mutant: vaddr & ~(vsize - 1), the stride not added before rounding.    *)
RoundDownNoAdd(v, vsize) == (v - vsize) - ((v - vsize) % vsize)

\* ((vaddr + vsize) & ~(vsize - 1)) for a power-of-two vsize.
RoundDown(v, vsize) == v - (v % vsize)

Init ==
  /\ IsAddressSpace(mm, P4Ds, {}, {})
  /\ start \in Starts
  /\ size \in Sizes
  /\ start + size <= TASK_SIZE
  /\ vaddr = PageAlign(start)
  /\ n_pgs = num_of_pages(start, size)
  /\ n_pgs_unpinned = 0
  /\ puts = [p \in Entries("pte") |-> 0]
  \* every present page of the attachment holds one pin of this tg
  /\ n_pinned = Cardinality(PresentPages(mm))
  /\ done = FALSE

(* Mutant: also decrements seg->tg->n_pinned per page, as remap_func does, *)
(* on top of the atomic_long_sub at the end.                               *)
UnpinPresentDec ==
  /\ ~done /\ n_pgs > 0
  /\ xpmem_vaddr_to_pte_size(mm, vaddr).pte # NULL
  /\ puts' = [puts EXCEPT ![pte_pfn(xpmem_vaddr_to_pte_size(mm, vaddr).pte) - FIRST_PFN] = @ + 1]
  /\ n_pgs_unpinned' = n_pgs_unpinned + 1
  /\ vaddr' = vaddr + PAGE_SIZE
  /\ n_pgs' = n_pgs - 1
  /\ n_pinned' = n_pinned - 1
  /\ UNCHANGED <<mm, start, size, done>>

\* A present pte: put_page(page), count it, advance one page.
UnpinPresent ==
  /\ ~done /\ n_pgs > 0
  /\ xpmem_vaddr_to_pte_size(mm, vaddr).pte # NULL
  /\ puts' = [puts EXCEPT ![pte_pfn(xpmem_vaddr_to_pte_size(mm, vaddr).pte) - FIRST_PFN] = @ + 1]
  /\ n_pgs_unpinned' = n_pgs_unpinned + 1
  /\ vaddr' = vaddr + PAGE_SIZE
  /\ n_pgs' = n_pgs - 1
  /\ UNCHANGED <<mm, start, size, n_pinned, done>>

(* Mutant: the hole is skipped by its stride from vaddr, without rounding  *)
(* to the next boundary of that stride.                                    *)
UnpinHoleNoRound ==
  /\ ~done /\ n_pgs > 0
  /\ xpmem_vaddr_to_pte_size(mm, vaddr).pte = NULL
  /\ LET vsize == vaddr + xpmem_vaddr_to_pte_size(mm, vaddr).size
     IN  /\ n_pgs' = n_pgs - (vsize - vaddr) \div PAGE_SIZE
         /\ vaddr' = vsize
  /\ UNCHANGED <<mm, start, size, n_pgs_unpinned, puts, n_pinned, done>>

\* A missing entry at some level: move to the next boundary of that
\* level's stride and count the pages skipped.
UnpinHole ==
  /\ ~done /\ n_pgs > 0
  /\ xpmem_vaddr_to_pte_size(mm, vaddr).pte = NULL
  /\ LET stride == xpmem_vaddr_to_pte_size(mm, vaddr).size
         vsize  == RoundDown(vaddr + stride, stride)
     IN  /\ n_pgs' = n_pgs - (vsize - vaddr) \div PAGE_SIZE
         /\ vaddr' = vsize
  /\ UNCHANGED <<mm, start, size, n_pgs_unpinned, puts, n_pinned, done>>

\* The loop ends; atomic_long_sub(n_pgs_unpinned, &seg->tg->n_pinned).
UnpinReturn ==
  /\ ~done /\ n_pgs <= 0
  /\ n_pinned' = n_pinned - n_pgs_unpinned
  /\ done' = TRUE
  /\ UNCHANGED <<mm, start, size, vaddr, n_pgs, n_pgs_unpinned, puts>>

Next == UnpinPresent \/ UnpinHole \/ UnpinReturn

Spec == Init /\ [][Next]_vars /\ WF_vars(Next)

-----------------------------------------------------------------------------

TypeOK ==
  /\ vaddr \in 0 .. TASK_SIZE /\ n_pgs \in Int /\ n_pgs_unpinned \in Nat
  /\ puts \in [Entries("pte") -> Nat]
  /\ n_pinned \in Nat /\ done \in BOOLEAN

\* The base pages that [start, start + size) touches.
RangePages == Index("pte", start) .. Index("pte", start + size - 1)

(* When xpmem_unpin_pages returns, every present page of the range has    *)
(* been put exactly once and no other page at all, whatever holes the     *)
(* walk skipped at whichever level, and seg->tg->n_pinned has dropped by   *)
(* exactly the number of pages put.                                        *)
UnpinsExactlyPresent ==
  done =>
    /\ \A p \in Entries("pte") :
         puts[p] = IF p \in RangePages \cap PresentPages(mm) THEN 1 ELSE 0
    /\ n_pinned = Cardinality(PresentPages(mm) \ RangePages)

(* The walk terminates: every hole skip moves vaddr forward.              *)
UnpinTerminates == <>done

=============================================================================
