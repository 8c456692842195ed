--------------------------- MODULE XpmemPinAffinity ---------------------------
(***************************************************************************)
(* The CPU-affinity switch of xpmem_pin_pages.  When the page is not yet   *)
(* mapped in the owner and the faulting thread runs on another NUMA node   *)
(* than the owner's group leader, the faulter saves its allowed-CPU mask   *)
(* in the per-CPU variable saved_mask_percpu of the CPU it runs on, moves  *)
(* itself to the owner's CPU, faults the pages in with get_user_pages      *)
(* (which may sleep), and restores the mask from the saved slot.           *)
(*                                                                         *)
(* The code runs preemptible: the scheduler may move a thread to any CPU   *)
(* of its mask between any two steps, and other threads run while one      *)
(* sleeps in get_user_pages.  The owner's leader may move too.  The VMA    *)
(* checks and the pinning itself are modelled in XpmemFault; here a call   *)
(* chooses whether the first page is already mapped.                       *)
(***************************************************************************)
EXTENDS FiniteSets

CONSTANTS
  Threads,   \* importer threads faulting on the owner's segment
  CPUs,
  Node,      \* cpu_to_node, a function on CPUs
  NoCPU

ASSUME NoCPU \notin CPUs /\ DOMAIN Node = CPUs

VARIABLES
  cpus_mask,    \* current->cpus_mask of each thread
  cpu,          \* task_cpu of each thread
  src_cpu,      \* task_cpu(src_task), the owner's group leader
  saved_mask,   \* saved_mask_percpu of each CPU
  slot,         \* the CPU whose saved_mask_percpu a call saved into
  pc,
  entry_mask    \* history: the thread's mask when its call began

vars == <<cpus_mask, cpu, src_cpu, saved_mask, slot, pc, entry_mask>>

Masks == SUBSET CPUs \ {{}}

-----------------------------------------------------------------------------

\* The fault handler calls xpmem_pin_pages (the VMA checks passed).
PinBegin(t) ==
  /\ pc[t] = "idle"
  /\ entry_mask' = [entry_mask EXCEPT ![t] = cpus_mask[t]]
  /\ pc' = [pc EXCEPT ![t] = "check"]
  /\ UNCHANGED <<cpus_mask, cpu, src_cpu, saved_mask, slot>>

\* If the page is not mapped in the owner and the nodes differ, take the
\* address of this CPU's saved_mask_percpu; otherwise go straight to gup.
PinCheck(t) ==
  /\ pc[t] = "check"
  /\ \E unmapped \in BOOLEAN :
       IF unmapped /\ Node[cpu[t]] # Node[src_cpu]
         THEN slot' = [slot EXCEPT ![t] = cpu[t]] /\ pc' = [pc EXCEPT ![t] = "save"]
         ELSE slot' = [slot EXCEPT ![t] = NoCPU] /\ pc' = [pc EXCEPT ![t] = "gup"]
  /\ UNCHANGED <<cpus_mask, cpu, src_cpu, saved_mask, entry_mask>>

\* *saved_mask = current->cpus_mask.
PinSaveMask(t) ==
  /\ pc[t] = "save"
  /\ saved_mask' = [saved_mask EXCEPT ![slot[t]] = cpus_mask[t]]
  /\ pc' = [pc EXCEPT ![t] = "move"]
  /\ UNCHANGED <<cpus_mask, cpu, src_cpu, slot, entry_mask>>

\* set_cpus_allowed_ptr(current, cpumask_of(task_cpu(src_task))): the
\* thread is allowed the owner's CPU only and is moved there.
PinMoveToOwner(t) ==
  /\ pc[t] = "move"
  /\ cpus_mask' = [cpus_mask EXCEPT ![t] = {src_cpu}]
  /\ cpu' = [cpu EXCEPT ![t] = src_cpu]
  /\ pc' = [pc EXCEPT ![t] = "gup"]
  /\ UNCHANGED <<src_cpu, saved_mask, slot, entry_mask>>

\* get_user_pages_remote faults the pages in and pins them; it may sleep.
PinGup(t) ==
  /\ pc[t] = "gup"
  /\ pc' = [pc EXCEPT ![t] = "restore"]
  /\ UNCHANGED <<cpus_mask, cpu, src_cpu, saved_mask, slot, entry_mask>>

(* Mutant: the mask is restored from the saved_mask_percpu of the CPU the *)
(* thread now runs on (this_cpu_ptr taken again).                          *)
PinRestoreThisCpu(t) ==
  /\ pc[t] = "restore"
  /\ IF slot[t] # NoCPU
       THEN /\ cpus_mask' = [cpus_mask EXCEPT ![t] = saved_mask[cpu[t]]]
            /\ \E c \in saved_mask[cpu[t]] \cup {cpu[t]} : cpu' = [cpu EXCEPT ![t] = c]
       ELSE UNCHANGED <<cpus_mask, cpu>>
  /\ pc' = [pc EXCEPT ![t] = "idle"]
  /\ UNCHANGED <<src_cpu, saved_mask, slot, entry_mask>>

\* if (saved_mask) set_cpus_allowed_ptr(current, saved_mask): the thread
\* gets the saved mask and is moved into it; return nr_pinned.
PinRestore(t) ==
  /\ pc[t] = "restore"
  /\ IF slot[t] # NoCPU
       THEN /\ cpus_mask' = [cpus_mask EXCEPT ![t] = saved_mask[slot[t]]]
            /\ \E c \in saved_mask[slot[t]] : cpu' = [cpu EXCEPT ![t] = c]
       ELSE UNCHANGED <<cpus_mask, cpu>>
  /\ pc' = [pc EXCEPT ![t] = "idle"]
  /\ UNCHANGED <<src_cpu, saved_mask, slot, entry_mask>>

\* The scheduler moves a preempted thread to another CPU of its mask.
Migrate(t) ==
  /\ \E c \in cpus_mask[t] \ {cpu[t]} : cpu' = [cpu EXCEPT ![t] = c]
  /\ UNCHANGED <<cpus_mask, src_cpu, saved_mask, slot, pc, entry_mask>>

\* The owner's group leader runs on some other CPU.
OwnerMigrate ==
  /\ \E c \in CPUs \ {src_cpu} : src_cpu' = c
  /\ UNCHANGED <<cpus_mask, cpu, saved_mask, slot, pc, entry_mask>>

-----------------------------------------------------------------------------

\* Each thread starts with some affinity (set by the application, e.g. an
\* MPI rank bound to its cores) and runs on one of its CPUs; the per-CPU
\* slots start zeroed.
Init ==
  /\ cpus_mask \in [Threads -> Masks]
  /\ cpu \in [Threads -> CPUs]
  /\ \A t \in Threads : cpu[t] \in cpus_mask[t]
  /\ src_cpu \in CPUs
  /\ saved_mask = [c \in CPUs |-> {}]
  /\ slot = [t \in Threads |-> NoCPU]
  /\ pc = [t \in Threads |-> "idle"]
  /\ entry_mask = cpus_mask

Next ==
  \/ \E t \in Threads :
       \/ PinBegin(t) \/ PinCheck(t) \/ PinSaveMask(t) \/ PinMoveToOwner(t)
       \/ PinGup(t) \/ PinRestore(t) \/ Migrate(t)
  \/ OwnerMigrate

Spec == Init /\ [][Next]_vars

-----------------------------------------------------------------------------

TypeOK ==
  /\ cpus_mask \in [Threads -> Masks]
  /\ \A t \in Threads : cpu[t] \in cpus_mask[t]
  /\ saved_mask \in [CPUs -> SUBSET CPUs]
  /\ slot \in [Threads -> CPUs \cup {NoCPU}]

(* The affinity switch is temporary (the comment at the switch): when      *)
(* xpmem_pin_pages returns, the thread has again the mask it had when it    *)
(* was called, however the scheduler moved it and whatever other faulters  *)
(* saved into the same CPU's saved_mask_percpu while it slept in gup.      *)
AffinityRestored ==
  \A t \in Threads : pc[t] = "idle" => cpus_mask[t] = entry_mask[t]

====
