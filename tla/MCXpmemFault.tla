----------------------------- MODULE MCXpmemFault -----------------------------
EXTENDS XpmemFault, TLC

CONSTANTS f1, f2, k1, w1, d1

\* Two importer threads racing on the same slots, the owner's forking
\* thread, an administrator writing the owner's procfs entry, and the
\* segment's removal.
MCFaulters   == {f1, f2}
MCRecallers  == {k1}
MCWriters    == {w1}
MCNoWriters  == {}
MCDestroyers == {d1}
MCNoDestroyers == {}
MCOneFaulter == {f1}

\* The owner's address space under the segment: a read-only mapping (a
\* PROT_READ mmap) followed by a writable one, as in the gtest holes cases
\* where the segment spans several VMAs; the smaller layout ends in a hole.
MCVmaOf == 0 :> "vma_ro" @@ 1 :> "vma_rw" @@ 2 :> "vma_rw"
MCVmaOfHole == 0 :> "vma_rw" @@ 1 :> NoVma
MCWritableVmas == {"vma_rw", "vma_att"}
\* The segment ends on a range the owner attached from another group.
MCVmaOfAttached == MCVmaOf @@ 3 :> "vma_att"
MCXpmemVmas == {"vma_att"}

\* The two importer threads are interchangeable.
MCSymmetry == Permutations(MCFaulters)

=============================================================================
