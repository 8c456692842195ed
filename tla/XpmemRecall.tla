----------------------------- MODULE XpmemRecall -----------------------------
(***************************************************************************)
(* The recall coordinator of src/kernel/xpmem_pfn.c: the per thread-group  *)
(* counter n_recall_PFNs and its two wait queues.                          *)
(*                                                                         *)
(*   Faulters  call xpmem_block_recall_PFNs / xpmem_unblock_recall_PFNs    *)
(*             around their critical section (the importer fault path).   *)
(*   Forkers   run xpmem_fork_begin, the fork itself, then xpmem_fork_end. *)
(*   Writers   run xpmem_unpin_procfs_write.                               *)
(*   Closers   tear the thread group down (spec 4.5): from then on        *)
(*             xpmem_tg_ref_by_tgid refuses it.                            *)
(*                                                                         *)
(* Every atomic operation on the counter (read, cmpxchg, inc_return,       *)
(* dec_return) and every step of the kernel's wait_event loop is one       *)
(* step, so the CAS retry loops and the lost-wake-up windows are explored. *)
(* The recall walk itself (xpmem_recall_PFNs_of_tg) is one step here;     *)
(* XpmemFault and XpmemRecallWalk model it.                                *)
(***************************************************************************)
EXTENDS Integers, FiniteSets

CONSTANTS
  Faulters,   \* importer threads faulting on attachments of this tg
  Forkers,    \* threads of the owning process that fork
  Writers,    \* threads writing the tg's /proc unpin entry
  Closers,    \* threads tearing the thread group down
  NoThread    \* the owner of an unlocked mutex

Recallers == Forkers \cup Writers
Threads   == Faulters \cup Recallers

ASSUME /\ Faulters \cap Recallers = {}
       /\ Forkers \cap Writers = {}
       /\ NoThread \notin Threads

VARIABLES
  n_recall_PFNs,          \* atomic_long tg->n_recall_PFNs
  allow_recall_PFNs_wq,   \* threads queued on tg->allow_recall_PFNs_wq
  block_recall_PFNs_wq,   \* threads queued on tg->block_recall_PFNs_wq
  recall_PFNs_mutex,      \* owner of tg->recall_PFNs_mutex
  pc,                     \* where each thread is
  value,                  \* the local 'value' of the CAS loops
  wait,                   \* the 'wait' argument of a block call
  tg_destroying           \* the tg is marked DESTROYING

vars == <<n_recall_PFNs, allow_recall_PFNs_wq, block_recall_PFNs_wq,
          recall_PFNs_mutex, pc, value, wait, tg_destroying>>

FaulterPC == {"idle", "b_top", "b_read", "b_cas", "b_wait", "b_prep",
              "b_cond", "b_sleep", "cs"}
RecallerPC == {"idle", "r_read", "r_cas", "r_wait", "r_prep", "r_cond",
               "r_sleep", "r_mutex", "recall", "forked", "r_allow"}

-----------------------------------------------------------------------------
(* Who holds the gate: a faulter between a successful cmpxchg and its      *)
(* unblock; a recaller between its successful cmpxchg and its allow.       *)

Blocking  == {t \in Faulters : pc[t] = "cs"}
Recalling == {t \in Recallers : pc[t] \in {"r_mutex", "recall", "forked", "r_allow"}}

Goto(t, l) == pc' = [pc EXCEPT ![t] = l]

-----------------------------------------------------------------------------
(* xpmem_block_recall_PFNs(tg, wait)                                        *)

\* The fault handler calls xpmem_block_recall_PFNs(seg_tg, wait).
BlockBegin(t) ==
  /\ pc[t] = "idle"
  /\ \E w \in BOOLEAN : wait' = [wait EXCEPT ![t] = w]
  /\ Goto(t, "b_top")
  /\ UNCHANGED <<tg_destroying, n_recall_PFNs, allow_recall_PFNs_wq, block_recall_PFNs_wq,
                 recall_PFNs_mutex, value>>

\* if (waitqueue_active(&tg->allow_recall_PFNs_wq)) goto wait;
BlockCheckWaiters(t) ==
  /\ pc[t] = "b_top"
  /\ Goto(t, IF allow_recall_PFNs_wq # {} THEN "b_wait" ELSE "b_read")
  /\ UNCHANGED <<tg_destroying, n_recall_PFNs, allow_recall_PFNs_wq, block_recall_PFNs_wq,
                 recall_PFNs_mutex, value, wait>>

\* value = atomic_long_read(&tg->n_recall_PFNs);
BlockRead(t) ==
  /\ pc[t] = "b_read"
  /\ value' = [value EXCEPT ![t] = n_recall_PFNs]
  /\ Goto(t, "b_cas")
  /\ UNCHANGED <<tg_destroying, n_recall_PFNs, allow_recall_PFNs_wq, block_recall_PFNs_wq,
                 recall_PFNs_mutex, wait>>

(* Mutant: the cmpxchg loop without the 'value > 0' test, so a faulter    *)
(* also takes the counter down while recalls are in progress.              *)
BlockCasNoPositiveTest(t) ==
  /\ pc[t] = "b_cas"
  /\ \/ /\ n_recall_PFNs = value[t]
        /\ n_recall_PFNs' = value[t] - 1
        /\ value' = [value EXCEPT ![t] = 0]
        /\ wait' = [wait EXCEPT ![t] = TRUE]
        /\ Goto(t, "cs")
     \/ /\ n_recall_PFNs # value[t]
        /\ value' = [value EXCEPT ![t] = n_recall_PFNs]
        /\ UNCHANGED <<n_recall_PFNs, pc, wait>>
  /\ UNCHANGED <<tg_destroying, allow_recall_PFNs_wq, block_recall_PFNs_wq, recall_PFNs_mutex>>

(* Mutant: atomic_long_set(value - 1) in place of the cmpxchg, a lost      *)
(* update when the counter moved since it was read.                        *)
BlockCasBlindSet(t) ==
  /\ pc[t] = "b_cas"
  /\ \/ /\ value[t] > 0
        /\ value' = [value EXCEPT ![t] = 0]
        /\ Goto(t, "b_wait")
        /\ UNCHANGED <<n_recall_PFNs, wait>>
     \/ /\ value[t] <= 0
        /\ n_recall_PFNs' = value[t] - 1
        /\ value' = [value EXCEPT ![t] = 0]
        /\ wait' = [wait EXCEPT ![t] = TRUE]
        /\ Goto(t, "cs")
  /\ UNCHANGED <<tg_destroying, allow_recall_PFNs_wq, block_recall_PFNs_wq, recall_PFNs_mutex>>

\* The inner loop: break if value > 0, else cmpxchg(value, value - 1); on
\* success return 0, on failure retry with the returned value.
BlockCas(t) ==
  /\ pc[t] = "b_cas"
  /\ \/ /\ value[t] > 0
        /\ value' = [value EXCEPT ![t] = 0]
        /\ Goto(t, "b_wait")
        /\ UNCHANGED <<n_recall_PFNs, wait>>
     \/ /\ value[t] <= 0
        /\ n_recall_PFNs = value[t]
        /\ n_recall_PFNs' = value[t] - 1
        /\ value' = [value EXCEPT ![t] = 0]
        /\ wait' = [wait EXCEPT ![t] = TRUE]
        /\ Goto(t, "cs")
     \/ /\ value[t] <= 0
        /\ n_recall_PFNs # value[t]
        /\ value' = [value EXCEPT ![t] = n_recall_PFNs]
        /\ UNCHANGED <<n_recall_PFNs, pc, wait>>
  /\ UNCHANGED <<tg_destroying, allow_recall_PFNs_wq, block_recall_PFNs_wq, recall_PFNs_mutex>>

\* wait: if (!wait) return -EAGAIN; then wait_event(block_recall_PFNs_wq,
\* n_recall_PFNs <= 0), whose first test of the condition does not queue.
BlockWait(t) ==
  /\ pc[t] = "b_wait"
  /\ \/ /\ ~wait[t]
        /\ wait' = [wait EXCEPT ![t] = TRUE]
        /\ Goto(t, "idle")
     \/ /\ wait[t]
        /\ Goto(t, IF n_recall_PFNs <= 0 THEN "b_top" ELSE "b_prep")
        /\ UNCHANGED wait
  /\ UNCHANGED <<tg_destroying, n_recall_PFNs, allow_recall_PFNs_wq, block_recall_PFNs_wq,
                 recall_PFNs_mutex, value>>

\* prepare_to_wait_event: queue the thread (autoremove entry).
BlockPrepare(t) ==
  /\ pc[t] = "b_prep"
  /\ block_recall_PFNs_wq' = block_recall_PFNs_wq \cup {t}
  /\ Goto(t, "b_cond")
  /\ UNCHANGED <<tg_destroying, n_recall_PFNs, allow_recall_PFNs_wq, recall_PFNs_mutex, value, wait>>

\* Re-test the condition after queueing: finish_wait and loop, or schedule().
BlockCondition(t) ==
  /\ pc[t] = "b_cond"
  /\ IF n_recall_PFNs <= 0
       THEN /\ block_recall_PFNs_wq' = block_recall_PFNs_wq \ {t}
            /\ Goto(t, "b_top")
       ELSE /\ Goto(t, "b_sleep")
            /\ UNCHANGED block_recall_PFNs_wq
  /\ UNCHANGED <<tg_destroying, n_recall_PFNs, allow_recall_PFNs_wq, recall_PFNs_mutex, value, wait>>

\* schedule() returns once a wake_up has taken the thread off the queue.
BlockWakes(t) ==
  /\ pc[t] = "b_sleep"
  /\ t \notin block_recall_PFNs_wq
  /\ Goto(t, "b_prep")
  /\ UNCHANGED <<tg_destroying, n_recall_PFNs, allow_recall_PFNs_wq, block_recall_PFNs_wq,
                 recall_PFNs_mutex, value, wait>>

(* Mutant: the wake-up of xpmem_unblock_recall_PFNs tests the new value   *)
(* against 1 instead of 0.                                                 *)
UnblockWakeOffByOne(t) ==
  /\ pc[t] = "cs"
  /\ n_recall_PFNs' = n_recall_PFNs + 1
  /\ allow_recall_PFNs_wq' = IF n_recall_PFNs + 1 = 1 THEN {} ELSE allow_recall_PFNs_wq
  /\ Goto(t, "idle")
  /\ UNCHANGED <<tg_destroying, block_recall_PFNs_wq, recall_PFNs_mutex, value, wait>>

\* xpmem_unblock_recall_PFNs: if (atomic_long_inc_return(..) == 0)
\* wake_up(&tg->allow_recall_PFNs_wq).  wake_up empties the queue.
Unblock(t) ==
  /\ pc[t] = "cs"
  /\ n_recall_PFNs' = n_recall_PFNs + 1
  /\ allow_recall_PFNs_wq' = IF n_recall_PFNs + 1 = 0 THEN {} ELSE allow_recall_PFNs_wq
  /\ Goto(t, "idle")
  /\ UNCHANGED <<tg_destroying, block_recall_PFNs_wq, recall_PFNs_mutex, value, wait>>

-----------------------------------------------------------------------------
(* xpmem_disallow_blocking_recall_PFNs(tg), entered by xpmem_fork_begin and *)
(* xpmem_unpin_procfs_write once their xpmem_tg_ref_by_tgid succeeded.      *)

\* xpmem_fork_begin: the forking thread's tg is found by tgid; once it is
\* DESTROYING the lookup fails and the call returns the error at once.
ForkBegin(t) ==
  /\ t \in Forkers
  /\ pc[t] = "idle"
  /\ ~tg_destroying
  /\ Goto(t, "r_read")
  /\ UNCHANGED <<tg_destroying, n_recall_PFNs, allow_recall_PFNs_wq, block_recall_PFNs_wq,
                 recall_PFNs_mutex, value, wait>>

\* xpmem_unpin_procfs_write: -EPERM unless xpmem_is_thread_group_stopped,
\* i.e. no thread of the tg is running in the kernel.  A forking thread is
\* stoppable only in user space: before xpmem_fork_begin or between it and
\* xpmem_fork_end.  The test is made once, at the start of the write.
ThreadGroupStopped ==
  \A k \in Forkers : pc[k] \in {"idle", "forked"}

WriteBegin(t) ==
  /\ t \in Writers
  /\ pc[t] = "idle"
  /\ ~tg_destroying
  /\ ThreadGroupStopped
  /\ Goto(t, "r_read")
  /\ UNCHANGED <<tg_destroying, n_recall_PFNs, allow_recall_PFNs_wq, block_recall_PFNs_wq,
                 recall_PFNs_mutex, value, wait>>

\* value = atomic_long_read(&tg->n_recall_PFNs);
DisallowRead(t) ==
  /\ pc[t] = "r_read"
  /\ value' = [value EXCEPT ![t] = n_recall_PFNs]
  /\ Goto(t, "r_cas")
  /\ UNCHANGED <<tg_destroying, n_recall_PFNs, allow_recall_PFNs_wq, block_recall_PFNs_wq,
                 recall_PFNs_mutex, wait>>

\* break if value < 0, else cmpxchg(value, value + 1); retry on failure.
DisallowCas(t) ==
  /\ pc[t] = "r_cas"
  /\ \/ /\ value[t] < 0
        /\ value' = [value EXCEPT ![t] = 0]
        /\ Goto(t, "r_wait")
        /\ UNCHANGED n_recall_PFNs
     \/ /\ value[t] >= 0
        /\ n_recall_PFNs = value[t]
        /\ n_recall_PFNs' = value[t] + 1
        /\ value' = [value EXCEPT ![t] = 0]
        /\ Goto(t, "r_mutex")
     \/ /\ value[t] >= 0
        /\ n_recall_PFNs # value[t]
        /\ value' = [value EXCEPT ![t] = n_recall_PFNs]
        /\ UNCHANGED <<n_recall_PFNs, pc>>
  /\ UNCHANGED <<tg_destroying, allow_recall_PFNs_wq, block_recall_PFNs_wq, recall_PFNs_mutex, wait>>

\* wait_event(tg->allow_recall_PFNs_wq, n_recall_PFNs >= 0): first test.
DisallowWait(t) ==
  /\ pc[t] = "r_wait"
  /\ Goto(t, IF n_recall_PFNs >= 0 THEN "r_read" ELSE "r_prep")
  /\ UNCHANGED <<tg_destroying, n_recall_PFNs, allow_recall_PFNs_wq, block_recall_PFNs_wq,
                 recall_PFNs_mutex, value, wait>>

(* Mutant: the recaller queues itself on the faulters' wait queue.        *)
DisallowPrepareWrongQueue(t) ==
  /\ pc[t] = "r_prep"
  /\ block_recall_PFNs_wq' = block_recall_PFNs_wq \cup {t}
  /\ Goto(t, "r_cond")
  /\ UNCHANGED <<tg_destroying, n_recall_PFNs, allow_recall_PFNs_wq, recall_PFNs_mutex, value, wait>>

DisallowPrepare(t) ==
  /\ pc[t] = "r_prep"
  /\ allow_recall_PFNs_wq' = allow_recall_PFNs_wq \cup {t}
  /\ Goto(t, "r_cond")
  /\ UNCHANGED <<tg_destroying, n_recall_PFNs, block_recall_PFNs_wq, recall_PFNs_mutex, value, wait>>

DisallowCondition(t) ==
  /\ pc[t] = "r_cond"
  /\ IF n_recall_PFNs >= 0
       THEN /\ allow_recall_PFNs_wq' = allow_recall_PFNs_wq \ {t}
            /\ Goto(t, "r_read")
       ELSE /\ Goto(t, "r_sleep")
            /\ UNCHANGED allow_recall_PFNs_wq
  /\ UNCHANGED <<tg_destroying, n_recall_PFNs, block_recall_PFNs_wq, recall_PFNs_mutex, value, wait>>

DisallowWakes(t) ==
  /\ pc[t] = "r_sleep"
  /\ t \notin allow_recall_PFNs_wq
  /\ Goto(t, "r_prep")
  /\ UNCHANGED <<tg_destroying, n_recall_PFNs, allow_recall_PFNs_wq, block_recall_PFNs_wq,
                 recall_PFNs_mutex, value, wait>>

\* mutex_lock(&tg->recall_PFNs_mutex);
RecallLock(t) ==
  /\ pc[t] = "r_mutex"
  /\ recall_PFNs_mutex = NoThread
  /\ recall_PFNs_mutex' = t
  /\ Goto(t, "recall")
  /\ UNCHANGED <<tg_destroying, n_recall_PFNs, allow_recall_PFNs_wq, block_recall_PFNs_wq, value, wait>>

\* xpmem_recall_PFNs_of_tg(tg); mutex_unlock(..).  fork_begin returns and
\* the fork runs; the procfs write goes on to allow blocking again.
RecallUnlock(t) ==
  /\ pc[t] = "recall"
  /\ recall_PFNs_mutex' = NoThread
  /\ Goto(t, IF t \in Forkers THEN "forked" ELSE "r_allow")
  /\ UNCHANGED <<tg_destroying, n_recall_PFNs, allow_recall_PFNs_wq, block_recall_PFNs_wq, value, wait>>

\* xpmem_allow_blocking_recall_PFNs: if (atomic_long_dec_return(..) == 0)
\* wake_up(&tg->block_recall_PFNs_wq).
AllowBlockingRecall ==
  /\ n_recall_PFNs' = n_recall_PFNs - 1
  /\ block_recall_PFNs_wq' = IF n_recall_PFNs - 1 = 0 THEN {} ELSE block_recall_PFNs_wq

\* xpmem_fork_end, once the fork has run: it looks the tg up by tgid again
\* and returns the error, leaving the counter as it is, if that fails.
ForkEnd(t) ==
  /\ pc[t] = "forked"
  /\ IF tg_destroying
       THEN UNCHANGED <<n_recall_PFNs, block_recall_PFNs_wq>>
       ELSE AllowBlockingRecall
  /\ Goto(t, "idle")
  /\ UNCHANGED <<tg_destroying, allow_recall_PFNs_wq, recall_PFNs_mutex, value, wait>>

\* The end of xpmem_unpin_procfs_write.
WriteEnd(t) ==
  /\ pc[t] = "r_allow"
  /\ AllowBlockingRecall
  /\ Goto(t, "idle")
  /\ UNCHANGED <<tg_destroying, allow_recall_PFNs_wq, recall_PFNs_mutex, value, wait>>

\* The thread group's teardown marks it DESTROYING (spec 4.5); it stays
\* so while references remain.
TgDestroy(c) ==
  /\ ~tg_destroying
  /\ tg_destroying' = TRUE
  /\ UNCHANGED <<n_recall_PFNs, allow_recall_PFNs_wq, block_recall_PFNs_wq,
                 recall_PFNs_mutex, pc, value, wait>>

-----------------------------------------------------------------------------

Init ==
  /\ n_recall_PFNs = 0
  /\ allow_recall_PFNs_wq = {}
  /\ block_recall_PFNs_wq = {}
  /\ recall_PFNs_mutex = NoThread
  /\ pc = [t \in Threads |-> "idle"]
  /\ value = [t \in Threads |-> 0]
  /\ wait = [t \in Faulters |-> TRUE]
  /\ tg_destroying = FALSE

FaulterStep(t) ==
  \/ BlockCheckWaiters(t) \/ BlockRead(t) \/ BlockCas(t) \/ BlockWait(t)
  \/ BlockPrepare(t) \/ BlockCondition(t) \/ BlockWakes(t) \/ Unblock(t)

RecallerStep(t) ==
  \/ DisallowRead(t) \/ DisallowCas(t) \/ DisallowWait(t) \/ DisallowPrepare(t)
  \/ DisallowCondition(t) \/ DisallowWakes(t) \/ RecallUnlock(t)
  \/ ForkEnd(t) \/ WriteEnd(t)

Next ==
  \/ \E t \in Faulters : BlockBegin(t) \/ FaulterStep(t)
  \/ \E t \in Recallers :
       ForkBegin(t) \/ WriteBegin(t) \/ RecallerStep(t) \/ RecallLock(t)
  \/ \E c \in Closers : TgDestroy(c)

(* A thread that has entered one of these functions is runnable until it   *)
(* sleeps; the scheduler eventually runs it.  Starting a call is up to the *)
(* program and is not fair.  The mutex hands off to a waiter (mutex        *)
(* handoff), so taking it is strongly fair.                                *)
Fairness ==
  /\ \A t \in Faulters : WF_vars(FaulterStep(t))
  /\ \A t \in Recallers : WF_vars(RecallerStep(t)) /\ SF_vars(RecallLock(t))

Spec == Init /\ [][Next]_vars /\ Fairness

-----------------------------------------------------------------------------

TypeOK ==
  /\ n_recall_PFNs \in -Cardinality(Faulters) .. Cardinality(Recallers)
  /\ allow_recall_PFNs_wq \subseteq Recallers
  /\ block_recall_PFNs_wq \subseteq Faulters
  /\ recall_PFNs_mutex \in Recallers \cup {NoThread}
  /\ \A t \in Faulters : pc[t] \in FaulterPC
  /\ \A t \in Recallers : pc[t] \in RecallerPC
  /\ value \in [Threads -> Int]
  /\ wait \in [Faulters -> BOOLEAN]
  /\ tg_destroying \in BOOLEAN

(* While the thread group is live, the counter is the number of recallers *)
(* past their cmpxchg and not yet past xpmem_allow_blocking_recall_PFNs,   *)
(* less the faulters past theirs and not yet past                         *)
(* xpmem_unblock_recall_PFNs: no cmpxchg retry, early return or wait path  *)
(* gains or loses a unit.  (After a teardown an xpmem_fork_end that fails  *)
(* its lookup leaves a unit behind; see SleepingFaulterWoken.)             *)
CounterAccounts ==
  ~tg_destroying => n_recall_PFNs = Cardinality(Recalling) - Cardinality(Blocking)

(* The promise of the coordinator (spec 4.4 and 8): a faulter's critical   *)
(* section never overlaps the span from a recaller's successful            *)
(* xpmem_disallow_blocking_recall_PFNs to its                              *)
(* xpmem_allow_blocking_recall_PFNs, stated as the abstract RecallGate.    *)
Gate == INSTANCE RecallGate WITH Blockers <- Faulters, RecallerSet <- Recallers,
                                 blocking <- Blocking, recalling <- Recalling
GateSpec == Gate!Spec

(* No lost wake-up: a thread asleep in wait_event whose wake-up condition  *)
(* holds is not left asleep forever (the inc/dec_return == 0 wake-ups of   *)
(* xpmem_unblock_recall_PFNs and xpmem_allow_blocking_recall_PFNs and the  *)
(* queue-then-retest order of wait_event).                                 *)
NoLostWakeup ==
  /\ \A t \in Faulters :
       []<>(pc[t] # "b_sleep" \/ n_recall_PFNs > 0)
  /\ \A t \in Recallers :
       []<>(pc[t] # "r_sleep" \/ n_recall_PFNs < 0)

(* A recaller that has entered xpmem_disallow_blocking_recall_PFNs        *)
(* eventually gets past it: a waiting recall is not starved by faults.     *)
RecallerProgress ==
  \A t \in Recallers : pc[t] = "r_read" ~> t \in Recalling

(* A faulter asleep in xpmem_block_recall_PFNs is eventually woken: every *)
(* recall that raised the counter is followed by the                      *)
(* xpmem_allow_blocking_recall_PFNs that takes it back to 0 and wakes      *)
(* block_recall_PFNs_wq, xpmem_fork_end included.                          *)
SleepingFaulterWoken ==
  \A t \in Faulters : pc[t] = "b_sleep" ~> pc[t] # "b_sleep"

====
