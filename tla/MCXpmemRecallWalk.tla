-------------------------- MODULE MCXpmemRecallWalk --------------------------
(* Three segments of one thread group: two listed when the fork's walk    *)
(* begins, one made while it runs.  Each may be removed at any point, so a *)
(* removal can land on the segment being recalled, on one behind or ahead *)
(* of the iterator, and on the first and the last entry.                  *)
EXTENDS XpmemRecallWalk

CONSTANTS s1, s2, s3, w1

MCSegs     == {s1, s2, s3}
MCInitList == <<s1, s2>>

====
