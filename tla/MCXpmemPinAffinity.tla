------------------------- MODULE MCXpmemPinAffinity -------------------------
(* Two CPUs on two NUMA nodes.  One faulter shows the switch and restore   *)
(* on its own; two faulters, which may share a CPU, share its slot.        *)
EXTENDS XpmemPinAffinity

CONSTANTS t1, t2, c0, c1

MCCPUs     == {c0, c1}
MCNode     == [c \in MCCPUs |-> IF c = c0 THEN 0 ELSE 1]
MCOne      == {t1}
MCTwo      == {t1, t2}

====
