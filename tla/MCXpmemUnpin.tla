----------------------------- MODULE MCXpmemUnpin -----------------------------
EXTENDS XpmemUnpin

\* One pgd entry of 32 units with two p4d entries, of which only the first
\* may be present: ranges that run past 16 meet a missing p4d, and address
\* spaces with no pgd entry exercise the largest stride.
MCP4Ds == {0}

\* Starts at and off page, pmd and pud boundaries; sizes that end inside,
\* at the end of and past the first p4d.
MCStarts == {0, 1, 3, 6, 9, 14}
MCSizes  == {1, 4, 7, 11, 18}

=============================================================================
