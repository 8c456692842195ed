--------------------------- MODULE XpmemRecallWalk ---------------------------
(***************************************************************************)
(* xpmem_recall_PFNs_of_tg over a thread group with several segments,     *)
(* while other threads of the owner create segments (xpmem_make) and       *)
(* remove them (xpmem_remove_seg).                                         *)
(*                                                                         *)
(* The walker holds seg_tg->seg_list_lock for reading while it steps along *)
(* the list, and drops it around xpmem_recall_PFNs(seg).  Inserting and    *)
(* deleting take the lock for writing, so they happen only while the       *)
(* walker is inside xpmem_recall_PFNs or before it starts.  The list is a  *)
(* sequence; a segment taken off it by list_del_init points to itself, so  *)
(* the iterator's next step from it is the segment again.                  *)
(*                                                                         *)
(* Creation and removal are outside src/ and follow spec 4.5: a segment is *)
(* appended to the list; removal marks it DESTROYING, takes its write      *)
(* lock, clears the importers' PTEs, then takes it off the list, marks it  *)
(* destroyed and releases the lock.                                        *)
(***************************************************************************)
EXTENDS Integers, Sequences, SequencesExt, FiniteSets

CONSTANTS
  Segs,       \* segments of the owner's thread group, listed or not yet made
  InitList,   \* the seg_list when xpmem_fork_begin starts the walk
  Walker,     \* the forking thread
  NoThread

ListHead == "head"   \* &seg_tg->seg_list, the list head

ASSUME /\ InitList \in Seq(Segs) /\ IsInjective(InitList)
       /\ ListHead \notin Segs /\ NoThread # Walker

VARIABLES
  seg_list,     \* seg_tg->seg_list, in list order
  flags,        \* seg->flags: DESTROYING, RECALLINGPFNS, DESTROYED
  sem_writer,   \* holder of each segment's write lock (seg->sema)
  reading,      \* the walker holds seg_tg->seg_list_lock for reading
  wpc,          \* where the walker is
  cursor,       \* the iterator 'seg' of list_for_each_entry
  cleared,      \* segments whose importer PTEs the walk cleared
  dpc,          \* stage of each segment's creation and removal
  live          \* history: listed, not DESTROYING, when the walk began,
                \* and not marked DESTROYING since

vars == <<seg_list, flags, sem_writer, reading, wpc, cursor, cleared, dpc, live>>

Listed(s) == s \in Range(seg_list)
Pos(s) == CHOOSE i \in DOMAIN seg_list : seg_list[i] = s

\* The element after s on the list, ListHead after the last one; a segment
\* taken off by list_del_init is its own successor.
NextOf(s) ==
  CASE s = ListHead /\ seg_list = <<>> -> ListHead
    [] s = ListHead                    -> Head(seg_list)
    [] ~Listed(s)                      -> s
    [] Pos(s) = Len(seg_list)          -> ListHead
    [] OTHER                           -> seg_list[Pos(s) + 1]

-----------------------------------------------------------------------------
(* The walk: list_for_each_entry(seg, &seg_tg->seg_list, seg_list).       *)

\* The iterator reaches the list head: read_unlock and return.
WalkEnd ==
  /\ wpc = "walk"
  /\ NextOf(cursor) = ListHead
  /\ reading' = FALSE
  /\ wpc' = "done"
  /\ UNCHANGED <<seg_list, flags, sem_writer, cursor, cleared, dpc, live>>

\* The iterator steps to the next segment; one being destroyed is passed
\* over, any other is referenced and recalled with the list lock dropped.
WalkNext ==
  /\ wpc = "walk"
  /\ NextOf(cursor) # ListHead
  /\ cursor' = NextOf(cursor)
  /\ IF "DESTROYING" \in flags[NextOf(cursor)]
       THEN UNCHANGED <<reading, wpc>>
       ELSE reading' = FALSE /\ wpc' = "flag"
  /\ UNCHANGED <<seg_list, flags, sem_writer, cleared, dpc, live>>

\* xpmem_recall_PFNs: a segment being destroyed or recalled is waited on;
\* any other is marked RECALLINGPFNS.
RecallFlag ==
  /\ wpc = "flag"
  /\ IF flags[cursor] \cap {"DESTROYING", "RECALLINGPFNS"} # {}
       THEN wpc' = "wait_destroyed" /\ UNCHANGED flags
       ELSE /\ flags' = [flags EXCEPT ![cursor] = @ \cup {"RECALLINGPFNS"}]
            /\ wpc' = "down_write"
  /\ UNCHANGED <<seg_list, sem_writer, reading, cursor, cleared, dpc, live>>

\* xpmem_wait_for_seg_destroyed(seg).
RecallWaitDestroyed ==
  /\ wpc = "wait_destroyed"
  /\ "DESTROYED" \in flags[cursor]
  /\ wpc' = "relock"
  /\ UNCHANGED <<seg_list, flags, sem_writer, reading, cursor, cleared, dpc, live>>

\* xpmem_seg_down_write(seg).
RecallDownWrite ==
  /\ wpc = "down_write"
  /\ sem_writer[cursor] = NoThread
  /\ sem_writer' = [sem_writer EXCEPT ![cursor] = Walker]
  /\ wpc' = "clear"
  /\ UNCHANGED <<seg_list, flags, reading, cursor, cleared, dpc, live>>

\* xpmem_clear_PTEs(seg).
RecallClear ==
  /\ wpc = "clear"
  /\ cleared' = cleared \cup {cursor}
  /\ wpc' = "unflag"
  /\ UNCHANGED <<seg_list, flags, sem_writer, reading, cursor, dpc, live>>

\* Clear RECALLINGPFNS, xpmem_seg_up_write(seg).
RecallUnflag ==
  /\ wpc = "unflag"
  /\ flags' = [flags EXCEPT ![cursor] = @ \ {"RECALLINGPFNS"}]
  /\ sem_writer' = [sem_writer EXCEPT ![cursor] = NoThread]
  /\ wpc' = "relock"
  /\ UNCHANGED <<seg_list, reading, cursor, cleared, dpc, live>>

(* Mutant: the list_empty test dropped; the iterator goes on from seg.   *)
WalkRelockNoRestart ==
  /\ wpc = "relock"
  /\ reading' = TRUE
  /\ wpc' = "walk"
  /\ UNCHANGED <<seg_list, flags, sem_writer, cursor, cleared, dpc, live>>

(* Mutant: after a removal the iterator is set to the first entry rather  *)
(* than to the head, so the loop's step passes over the first segment.    *)
WalkRelockFirstEntry ==
  /\ wpc = "relock"
  /\ reading' = TRUE
  /\ cursor' = IF ~Listed(cursor) /\ seg_list # <<>> THEN Head(seg_list) ELSE cursor
  /\ wpc' = "walk"
  /\ UNCHANGED <<seg_list, flags, sem_writer, cleared, dpc, live>>

\* read_lock again; if seg was deleted from the list meanwhile, restart
\* from the list head; drop the reference either way.
WalkRelock ==
  /\ wpc = "relock"
  /\ reading' = TRUE
  /\ cursor' = IF Listed(cursor) THEN cursor ELSE ListHead
  /\ wpc' = "walk"
  /\ UNCHANGED <<seg_list, flags, sem_writer, cleared, dpc, live>>

-----------------------------------------------------------------------------
(* Other threads of the owner: xpmem_make and xpmem_remove (spec 4.5).    *)

(* Mutant: a segment already on the list is added again.                  *)
MakeTwice(s) ==
  /\ dpc[s] \in {"new", "live"}
  /\ ~reading
  /\ seg_list' = Append(seg_list, s)
  /\ dpc' = [dpc EXCEPT ![s] = "live"]
  /\ UNCHANGED <<flags, sem_writer, reading, wpc, cursor, cleared, live>>

\* A new segment is added at the tail under the list's write lock.
Make(s) ==
  /\ dpc[s] = "new"
  /\ ~reading
  /\ seg_list' = Append(seg_list, s)
  /\ dpc' = [dpc EXCEPT ![s] = "live"]
  /\ UNCHANGED <<flags, sem_writer, reading, wpc, cursor, cleared, live>>

DestroyMark(s) ==
  /\ dpc[s] = "live"
  /\ flags' = [flags EXCEPT ![s] = @ \cup {"DESTROYING"}]
  /\ dpc' = [dpc EXCEPT ![s] = "down_write"]
  /\ live' = live \ {s}
  /\ UNCHANGED <<seg_list, sem_writer, reading, wpc, cursor, cleared>>

DestroyDownWrite(s) ==
  /\ dpc[s] = "down_write"
  /\ sem_writer[s] = NoThread
  /\ sem_writer' = [sem_writer EXCEPT ![s] = s]
  /\ dpc' = [dpc EXCEPT ![s] = "clear"]
  /\ UNCHANGED <<seg_list, flags, reading, wpc, cursor, cleared, live>>

\* xpmem_clear_PTEs, then the segment leaves the list under its write lock
\* and is marked destroyed, which wakes xpmem_wait_for_seg_destroyed.
DestroyRemove(s) ==
  /\ dpc[s] = "clear"
  /\ ~reading
  /\ seg_list' = Remove(seg_list, s)
  /\ flags' = [flags EXCEPT ![s] = @ \cup {"DESTROYED"}]
  /\ sem_writer' = [sem_writer EXCEPT ![s] = NoThread]
  /\ dpc' = [dpc EXCEPT ![s] = "removed"]
  /\ UNCHANGED <<reading, wpc, cursor, cleared, live>>

-----------------------------------------------------------------------------

\* xpmem_fork_begin has taken recall_PFNs_mutex and read_lock: the walk
\* starts at the list head.
Init ==
  /\ seg_list = InitList
  /\ flags = [s \in Segs |-> {}]
  /\ sem_writer = [s \in Segs |-> NoThread]
  /\ reading = TRUE
  /\ wpc = "walk"
  /\ cursor = ListHead
  /\ cleared = {}
  /\ dpc = [s \in Segs |-> IF s \in Range(InitList) THEN "live" ELSE "new"]
  /\ live = Range(InitList)

WalkerStep ==
  \/ WalkEnd \/ WalkNext \/ RecallFlag \/ RecallWaitDestroyed
  \/ RecallClear \/ RecallUnflag \/ WalkRelock

Next ==
  \/ WalkerStep \/ RecallDownWrite
  \/ \E s \in Segs : Make(s) \/ DestroyMark(s) \/ DestroyDownWrite(s) \/ DestroyRemove(s)

(* The walker and a remover that has begun run until they sleep; the      *)
(* segment's rw-semaphore and the list's rwlock hand off to waiters, so    *)
(* the steps that take them are strongly fair.  Making and removing a      *)
(* segment is up to the program.                                           *)
Fairness ==
  /\ WF_vars(WalkerStep) /\ SF_vars(RecallDownWrite)
  /\ \A s \in Segs : SF_vars(DestroyDownWrite(s)) /\ SF_vars(DestroyRemove(s))

Spec == Init /\ [][Next]_vars /\ Fairness

-----------------------------------------------------------------------------

TypeOK ==
  /\ seg_list \in Seq(Segs) /\ IsInjective(seg_list)
  /\ flags \in [Segs -> SUBSET {"DESTROYING", "RECALLINGPFNS", "DESTROYED"}]
  /\ sem_writer \in [Segs -> Segs \cup {Walker, NoThread}]
  /\ cursor \in Segs \cup {ListHead}
  /\ cleared \subseteq Segs /\ live \subseteq Segs

(* Every segment that was on the list when the fork's walk began and was  *)
(* not being removed by the time the walk ended has had its importer PTEs *)
(* cleared by the walk (spec 4.4), however removals and insertions moved   *)
(* the list under the iterator while xpmem_recall_PFNs ran unlocked.       *)
RecallsEveryLiveSegment ==
  wpc = "done" => live \subseteq cleared

(* The walk ends: a removal seen after xpmem_recall_PFNs sends the        *)
(* iterator back to the head, and it must not loop on the removed entry.   *)
WalkTerminates ==
  <>(wpc = "done")

====
