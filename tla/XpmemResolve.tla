----------------------------- MODULE XpmemResolve -----------------------------
(***************************************************************************)
(* A caller of xpmem_vaddr_to_PFN on an owner's address space: the        *)
(* address space is any one a process can have (fixed for the run, as the  *)
(* owner's page tables do not change while its mm is read under recall    *)
(* exclusion), and each step resolves one address.                         *)
(***************************************************************************)
EXTENDS XpmemPageTable

CONSTANTS
  P4Ds,         \* p4d entries that may be present
  PudLeafVmas,  \* VMA kinds that can hold a pud-level huge leaf
  PmdLeafVmas   \* VMA kinds that can hold a pmd-level huge leaf

VARIABLES
  mm,      \* the owner's page tables
  vaddr,   \* the address last resolved, or -1
  pfn      \* what xpmem_vaddr_to_PFN returned for it

vars == <<mm, vaddr, pfn>>

Init ==
  /\ IsAddressSpace(mm, P4Ds, PudLeafVmas, PmdLeafVmas)
  /\ vaddr = -1
  /\ pfn = 0

\* pfn = xpmem_vaddr_to_PFN(mm, v) for a user address v.
Resolve(v) ==
  /\ vaddr' = v
  /\ pfn' = xpmem_vaddr_to_PFN(mm, v)
  /\ UNCHANGED mm

Next == \E v \in Addrs : Resolve(v)

Spec == Init /\ [][Next]_vars

-----------------------------------------------------------------------------

TypeOK ==
  /\ vaddr \in Addrs \cup {-1}
  /\ pfn \in Nat

(* Spec 4.1: the frame returned for an address is the frame that backs it *)
(* (0 when nothing does), with a huge leaf's offset taken in the natural   *)
(* size of its level, whether the VMA is hugetlbfs or transparent huge     *)
(* pages (xpmem_vaddr_to_pte_offset, xpmem_hugetlb_pte, xpmem_vaddr_to_PFN).*)
ResolvesBackingFrame ==
  vaddr # -1 => pfn = ReferencePFN(mm, vaddr)

=============================================================================
