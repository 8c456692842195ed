---------------------------- MODULE MCXpmemResolve ----------------------------
EXTENDS XpmemResolve

\* One pgd entry of 32 units holding two p4d entries; only the first p4d
\* may be present, which leaves 16 units (8 base pages, 2 pud regions).
MCP4Ds == {0}

\* hugetlbfs VMAs of either hstate; ordinary VMAs hold pmd-level THPs.
MCPudLeafVmas == {"hugetlb_pud"}
MCPmdLeafVmas == {"hugetlb_pmd", "normal"}

\* With CONFIG_HAVE_ARCH_TRANSPARENT_HUGEPAGE_PUD (DAX pud mappings), an
\* ordinary VMA can hold a pud-level leaf as well.
MCPudLeafVmasThp == {"hugetlb_pud", "normal"}

=============================================================================
