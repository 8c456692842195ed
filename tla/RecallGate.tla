----------------------------- MODULE RecallGate -----------------------------
(***************************************************************************)
(* What the recall coordinator promises (spec 4.4): blockers (importer     *)
(* fault handlers) and recallers (fork, procfs unpin) hold the gate of a   *)
(* thread group in turn.  Any number of blockers may hold it together, or  *)
(* any number of recallers, never one of each.                             *)
(***************************************************************************)
CONSTANTS Blockers, RecallerSet

VARIABLES blocking, recalling

Enter(t) ==
  /\ t \in Blockers \ blocking
  /\ recalling = {}
  /\ blocking' = blocking \cup {t}
  /\ UNCHANGED recalling

Leave(t) ==
  /\ t \in blocking
  /\ blocking' = blocking \ {t}
  /\ UNCHANGED recalling

StartRecall(t) ==
  /\ t \in RecallerSet \ recalling
  /\ blocking = {}
  /\ recalling' = recalling \cup {t}
  /\ UNCHANGED blocking

EndRecall(t) ==
  /\ t \in recalling
  /\ recalling' = recalling \ {t}
  /\ UNCHANGED blocking

Init == blocking = {} /\ recalling = {}

Next == \E t \in Blockers \cup RecallerSet :
          Enter(t) \/ Leave(t) \/ StartRecall(t) \/ EndRecall(t)

Spec == Init /\ [][Next]_<<blocking, recalling>>

(* Blockers and recallers never hold the gate at the same time. *)
Exclusion == blocking = {} \/ recalling = {}

====
