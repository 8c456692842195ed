---------------------------- MODULE MCXpmemRecall ----------------------------
(* Two faulters, one forking thread and one procfs writer of one thread    *)
(* group: enough for two blockers to overlap, for two recallers to overlap *)
(* (n_recall_PFNs = 2) and for both cmpxchg loops to be raced; and one   *)
(* thread tearing the thread group down, where a run lets it.             *)
EXTENDS XpmemRecall

CONSTANTS f1, f2, k1, w1, c1

MCFaulters == {f1, f2}
MCForkers  == {k1}
MCWriters  == {w1}
MCClosers  == {c1}
MCNone     == {}

====
