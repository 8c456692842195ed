---------------------------- MODULE XpmemPageTable ----------------------------
(***************************************************************************)
(* The page-table walks of src/kernel/xpmem_pfn.c as pure operators:       *)
(* xpmem_vaddr_to_pte_offset with xpmem_hugetlb_pte, xpmem_vaddr_to_PFN     *)
(* and xpmem_vaddr_to_pte_size.                                             *)
(*                                                                         *)
(* An address space is a record with one function per level (pgd, p4d,    *)
(* pud, pmd, pte) from entry index to "none" (not present), "table" (points *)
(* to a lower-level table) or "leaf" (maps memory: a base page at pte      *)
(* level, a huge page at pmd or pud level), and a field vma giving the     *)
(* kind of VMA over each pud-sized region.  Sizes are scaled down but keep  *)
(* the kernel's ratios of power-of-two strides.                            *)
(***************************************************************************)
EXTENDS Integers

CONSTANTS
  PAGE_SIZE, PMD_SIZE, PUD_SIZE, P4D_SIZE, PGDIR_SIZE,
  TASK_SIZE,  \* end of the user address space
  FIRST_PFN   \* frame number of the first byte of physical memory mapped

ASSUME /\ PAGE_SIZE >= 2
       /\ PMD_SIZE % PAGE_SIZE = 0 /\ PUD_SIZE % PMD_SIZE = 0
       /\ P4D_SIZE % PUD_SIZE = 0 /\ PGDIR_SIZE % P4D_SIZE = 0
       /\ TASK_SIZE % PGDIR_SIZE = 0
       /\ FIRST_PFN >= 1

\* A transparent huge page is HPAGE_PMD_SIZE whatever level it sits at.
HPAGE_PMD_SIZE == PMD_SIZE

Levels == {"pgd", "p4d", "pud", "pmd", "pte"}
Size(l) == CASE l = "pgd" -> PGDIR_SIZE [] l = "p4d" -> P4D_SIZE
             [] l = "pud" -> PUD_SIZE   [] l = "pmd" -> PMD_SIZE
             [] l = "pte" -> PAGE_SIZE

\* pgd_offset / p4d_offset / pud_offset / pmd_offset / pte_offset_kernel
Index(l, vaddr) == vaddr \div Size(l)
Entries(l) == 0 .. (TASK_SIZE \div Size(l)) - 1
Addrs == 0 .. TASK_SIZE - 1

\* VMA kinds: an ordinary VMA (base pages, and transparent huge pages), or
\* a hugetlbfs VMA whose hstate is a pmd-sized or a pud-sized huge page.
VmaKinds == {"normal", "hugetlb_pmd", "hugetlb_pud"}

Entry(mm, l, vaddr) == mm[l][Index(l, vaddr)]

\* find_vma(mm, vaddr) and the VMA flag it is tested for.
VmaOf(mm, vaddr) == mm.vma[Index("pud", vaddr)]

NULL == <<"NULL">>
\* A pointer to the entry that maps vaddr at level l.
Ptr(l, vaddr) == <<l, Index(l, vaddr)>>

-----------------------------------------------------------------------------

\* xpmem_hugetlb_pte: the leaf's size comes from the hstate for a hugetlb
\* VMA and is HPAGE_PMD_SIZE for any other VMA; the offset is vaddr modulo
\* that size, masked to a page boundary.  The leaf is present (pte_none is
\* false) whenever the walk reaches here.
(* Mutant: every huge leaf taken as a transparent huge page.               *)
HugetlbPageSizeAllThp(mm, vaddr) == HPAGE_PMD_SIZE

HugetlbPageSize(mm, vaddr) ==
  CASE VmaOf(mm, vaddr) = "hugetlb_pud" -> PUD_SIZE
    [] VmaOf(mm, vaddr) = "hugetlb_pmd" -> PMD_SIZE
    [] VmaOf(mm, vaddr) = "normal"      -> HPAGE_PMD_SIZE

xpmem_hugetlb_pte(mm, l, vaddr) ==
  LET page_size == HugetlbPageSize(mm, vaddr)
      in_page   == vaddr % page_size
  IN  [pte |-> Ptr(l, vaddr), offset |-> in_page - (in_page % PAGE_SIZE)]

\* xpmem_vaddr_to_pte_offset: walk down, NULL on the first entry that is
\* not present, hand a huge leaf at pud or pmd level to xpmem_hugetlb_pte.
xpmem_vaddr_to_pte_offset(mm, vaddr) ==
  LET none == [pte |-> NULL, offset |-> 0] IN
  CASE Entry(mm, "pgd", vaddr) = "none" -> none
    [] Entry(mm, "p4d", vaddr) = "none" -> none
    [] Entry(mm, "pud", vaddr) = "none" -> none
    [] Entry(mm, "pud", vaddr) = "leaf" -> xpmem_hugetlb_pte(mm, "pud", vaddr)
    [] Entry(mm, "pmd", vaddr) = "none" -> none
    [] Entry(mm, "pmd", vaddr) = "leaf" -> xpmem_hugetlb_pte(mm, "pmd", vaddr)
    [] Entry(mm, "pte", vaddr) = "none" -> none
    [] OTHER                            -> [pte |-> Ptr("pte", vaddr), offset |-> 0]

\* pte_pfn of a present leaf entry: the first frame it maps.  Memory is
\* laid out so that the frame of an address is FIRST_PFN plus its page
\* number, and a huge leaf starts on a boundary of its size.
pte_pfn(ptr) == FIRST_PFN + (ptr[2] * Size(ptr[1])) \div PAGE_SIZE

\* xpmem_vaddr_to_PFN: 0 for an unmapped address, else the leaf's frame
\* plus the page offset inside the leaf.
(* Mutant: -ENOENT in place of 0 for an unmapped address.                  *)
xpmem_vaddr_to_PFN_Errno(mm, vaddr) ==
  LET r == xpmem_vaddr_to_pte_offset(mm, vaddr) IN
  IF r.pte = NULL THEN -2 ELSE pte_pfn(r.pte) + r.offset \div PAGE_SIZE

xpmem_vaddr_to_PFN(mm, vaddr) ==
  LET r == xpmem_vaddr_to_pte_offset(mm, vaddr) IN
  IF r.pte = NULL THEN 0 ELSE pte_pfn(r.pte) + r.offset \div PAGE_SIZE

\* xpmem_vaddr_to_pte_size: the walk of an attachment mapped with base pages
\* only; on a missing entry it reports the stride of that level.
xpmem_vaddr_to_pte_size(mm, vaddr) ==
  CASE Entry(mm, "pgd", vaddr) = "none" -> [pte |-> NULL, size |-> PGDIR_SIZE]
    [] Entry(mm, "p4d", vaddr) = "none" -> [pte |-> NULL, size |-> P4D_SIZE]
    [] Entry(mm, "pud", vaddr) = "none" -> [pte |-> NULL, size |-> PUD_SIZE]
    [] Entry(mm, "pmd", vaddr) = "none" -> [pte |-> NULL, size |-> PMD_SIZE]
    [] Entry(mm, "pte", vaddr) = "none" -> [pte |-> NULL, size |-> PAGE_SIZE]
    [] OTHER                            -> [pte |-> Ptr("pte", vaddr), size |-> 0]

-----------------------------------------------------------------------------
(* Reference definitions (spec 4.1), written without the walk.            *)

\* The levels above l.
Above(l) == CASE l = "pte" -> {"pgd", "p4d", "pud", "pmd"}
              [] l = "pmd" -> {"pgd", "p4d", "pud"}
              [] l = "pud" -> {"pgd", "p4d"}

\* vaddr is mapped by the leaf at level l: that entry is a leaf and every
\* entry above it on the way is a table.
MappedAt(mm, l, vaddr) ==
  /\ Entry(mm, l, vaddr) = "leaf"
  /\ \A a \in Above(l) : Entry(mm, a, vaddr) = "table"

\* The frame backing vaddr under the layout pte_pfn assumes: FIRST_PFN plus
\* its page number, whatever the size of the leaf mapping it; 0 if none.
ReferencePFN(mm, vaddr) ==
  IF \E l \in {"pud", "pmd", "pte"} : MappedAt(mm, l, vaddr)
  THEN FIRST_PFN + vaddr \div PAGE_SIZE
  ELSE 0

\* The base pages present in an attachment.
PresentPages(mm) == {p \in Entries("pte") : MappedAt(mm, "pte", p * PAGE_SIZE)}

-----------------------------------------------------------------------------
(* The address spaces a process can have.  Parent(l, i) is the entry one   *)
(* level up that points to entry i of level l.                             *)

Up(l) == CASE l = "p4d" -> "pgd" [] l = "pud" -> "p4d"
           [] l = "pmd" -> "pud" [] l = "pte" -> "pmd"
Parent(l, i) == (i * Size(l)) \div Size(Up(l))
Under(l, T) == {i \in Entries(l) : Parent(l, i) \in T}

\* The entry function of a level from its sets of table and leaf entries.
Level(l, T, L) == [i \in Entries(l) |-> IF i \in T THEN "table"
                                        ELSE IF i \in L THEN "leaf" ELSE "none"]

\* A VMA kind fits a pud region: a pud leaf needs a kind of PudLeafVmas, a
\* pmd leaf one of PmdLeafVmas, a page table of base pages an ordinary VMA,
\* and a region with no huge leaf is taken to be an ordinary VMA.
VmaFits(k, r, pudL, pmdT, pmdL, PudLeafVmas, PmdLeafVmas) ==
  LET hasPmdLeaf == \E j \in pmdL : Parent("pmd", j) = r
      hasTable   == \E j \in pmdT : Parent("pmd", j) = r
  IN  /\ r \in pudL => k \in PudLeafVmas
      /\ hasPmdLeaf => k \in PmdLeafVmas
      /\ hasTable => k = "normal"
      /\ (r \notin pudL /\ ~hasPmdLeaf) => k = "normal"

\* mm is a well-formed address space whose present p4d entries lie in P4Ds:
\* an entry is present only under a table entry, and huge leaves only where
\* the VMA allows them (none at all when both sets of kinds are empty, as
\* in an attachment, which xpmem maps with base pages).
IsAddressSpace(mm, P4Ds, PudLeafVmas, PmdLeafVmas) ==
  \E pgdT \in SUBSET Entries("pgd") :
  \E p4dT \in SUBSET (Under("p4d", pgdT) \cap P4Ds) :
  \E pudT \in SUBSET Under("pud", p4dT) :
  \E pudL \in SUBSET (IF PudLeafVmas = {} THEN {} ELSE Under("pud", p4dT) \ pudT) :
  \E pmdT \in SUBSET Under("pmd", pudT) :
  \E pmdL \in SUBSET (IF PmdLeafVmas = {} THEN {} ELSE Under("pmd", pudT) \ pmdT) :
  \E pteL \in SUBSET Under("pte", pmdT) :
  \E vma \in [Entries("pud") -> VmaKinds] :
    /\ \A r \in Entries("pud") :
         VmaFits(vma[r], r, pudL, pmdT, pmdL, PudLeafVmas, PmdLeafVmas)
    /\ mm = [pgd |-> Level("pgd", pgdT, {}), p4d |-> Level("p4d", p4dT, {}),
             pud |-> Level("pud", pudT, pudL), pmd |-> Level("pmd", pmdT, pmdL),
             pte |-> Level("pte", {}, pteL), vma |-> vma]

=============================================================================
