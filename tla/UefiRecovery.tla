----------------------------- MODULE UefiRecovery -----------------------------
(***************************************************************************)
(* The recovery of an erased UEFI variable store (winboat/nvram.rs).  The  *)
(* user looks at a preview, which makes a plan; recover copies the store   *)
(* to a backup, renames it out of the way and boots the VM, which makes a  *)
(* new one; a VM that does not come up has its store put aside and the     *)
(* original renamed back.  A plan whose rollback failed stays in memory    *)
(* for restore.  The commands hold the VM, one at a time; the user starts  *)
(* and stops it from outside, and the application may be killed.           *)
(*                                                                         *)
(* Every plan has names of its own.  A store is erased or it is fresh.     *)
(***************************************************************************)
EXTENDS Naturals, FiniteSets

CONSTANT MaxPlans   \* bound on the previews

ASSUME UefiAssumption == MaxPlans \in Nat

VARIABLES
  target,    \* the store the VM uses
  backup,    \* per plan its copy
  retired,   \* per plan the original, out of the way
  aside,     \* per plan the store that did not boot
  pending,   \* the plan in memory, 0 for none
  replaced,  \* the plans that have retired the original, as memory knows it
  recovery,   \* the recovery that runs: its plan and its step
  previews,  \* previews so far
  vmRuns,    \* the VM runs
  succeeded, \* plans whose VM came up
  forgotten  \* plans that were in memory when the application was killed

uefiVars == <<target, backup, retired, aside, pending, replaced, recovery, previews, vmRuns, succeeded, forgotten>>

PlanIds == 1..MaxPlans
Stores == {"none", "erased", "fresh"}
NoCommand == [plan |-> 0, at |-> "idle"]

UefiTypeOK ==
  /\ target \in Stores
  /\ backup \in [PlanIds -> Stores] /\ retired \in [PlanIds -> Stores] /\ aside \in [PlanIds -> Stores]
  /\ pending \in 0..MaxPlans /\ replaced \subseteq PlanIds
  /\ recovery \in [plan : 0..MaxPlans, at : {"idle", "begun", "copied", "retired", "booting", "stopping",
                                            "restoring", "putAside"}]
  /\ previews \in 0..MaxPlans /\ vmRuns \in BOOLEAN /\ succeeded \subseteq PlanIds /\ forgotten \subseteq PlanIds
  /\ \A p \in replaced : backup[p] = "erased"

UefiInit ==
  /\ target = "erased"
  /\ backup = [p \in PlanIds |-> "none"] /\ retired = backup /\ aside = backup
  /\ pending = 0 /\ replaced = {} /\ recovery = NoCommand /\ previews = 0
  /\ vmRuns = FALSE /\ succeeded = {} /\ forgotten = {}

storeVars == <<target, backup, retired, aside>>
UefiGoes(step) == recovery' = [recovery EXCEPT !.at = step]

-----------------------------------------------------------------------------
\* Mutant: a plan that has still to be rolled back is replaced.
PreviewUefiAnyway ==
  /\ recovery = NoCommand /\ previews < MaxPlans /\ ~vmRuns /\ target = "erased"
  /\ pending' = previews + 1 /\ previews' = previews + 1
  /\ UNCHANGED <<storeVars, replaced, recovery, vmRuns, succeeded, forgotten>>

\* A stopped VM with an erased store; not over a rollback that is still due.
PreviewUefi ==
  /\ recovery = NoCommand /\ previews < MaxPlans /\ ~vmRuns /\ target = "erased"
  /\ pending \notin replaced
  /\ pending' = previews + 1 /\ previews' = previews + 1
  /\ UNCHANGED <<storeVars, replaced, recovery, vmRuns, succeeded, forgotten>>

\* recover takes the plan from memory; a plan found changed is dropped.
BeginRecover ==
  /\ recovery = NoCommand /\ pending # 0 /\ pending \notin replaced
  /\ recovery' \in {[plan |-> pending, at |-> "begun"], NoCommand} /\ pending' = 0
  /\ UNCHANGED <<storeVars, replaced, previews, vmRuns, succeeded, forgotten>>

\* backup_and_retire: the store must be the one of the preview, unchanged.
\* What a copy that failed leaves of the backup is read by nobody, and left out.
BackUpStore ==
  /\ recovery.at = "begun"
  /\ \/ /\ target = "erased" /\ backup' = [backup EXCEPT ![recovery.plan] = target] /\ UefiGoes("copied")
     \/ recovery' = NoCommand /\ UNCHANGED backup
  /\ UNCHANGED <<target, retired, aside, pending, replaced, previews, vmRuns, succeeded, forgotten>>

\* A rename fails and changes nothing where its new name exists.
RetireStore ==
  /\ recovery.at = "copied"
  /\ \/ /\ target # "none" /\ retired' = [retired EXCEPT ![recovery.plan] = target] /\ target' = "none"
        /\ replaced' = replaced \cup {recovery.plan} /\ UefiGoes("retired")
     \/ recovery' = NoCommand /\ UNCHANGED <<target, retired, replaced>>
  /\ UNCHANGED <<backup, aside, pending, previews, vmRuns, succeeded, forgotten>>

\* What was retired turns out not to be the original; otherwise the VM boots.
BootVm ==
  /\ recovery.at = "retired"
  /\ \/ /\ retired[recovery.plan] = "erased" /\ UefiGoes("booting") /\ vmRuns' \in {vmRuns, TRUE}
        /\ target' \in IF target = "none" /\ vmRuns' THEN {"none", "erased", "fresh"} ELSE {target}
     \/ UefiGoes("stopping") /\ UNCHANGED <<target, vmRuns>>
  /\ UNCHANGED <<backup, retired, aside, pending, replaced, previews, succeeded, forgotten>>

\* The guest is online with a store that is not erased, or not in time.
BootEnds ==
  /\ recovery.at = "booting"
  /\ \/ vmRuns /\ target = "fresh" /\ recovery' = NoCommand /\ succeeded' = succeeded \cup {recovery.plan}
     \/ UefiGoes("stopping") /\ UNCHANGED succeeded
  /\ UNCHANGED <<storeVars, pending, replaced, previews, vmRuns, forgotten>>

\* The plan goes back to memory for restore.
KeepPlan == pending' = recovery.plan /\ recovery' = NoCommand

StopForRollback ==
  /\ recovery.at = "stopping"
  /\ \/ vmRuns' = FALSE /\ UefiGoes("restoring") /\ UNCHANGED pending
     \/ vmRuns' \in {vmRuns, FALSE} /\ KeepPlan
  /\ UNCHANGED <<storeVars, replaced, previews, succeeded, forgotten>>

\* Plan::restore: first what did not boot goes aside.
PutAside ==
  /\ recovery.at = "restoring"
  /\ \/ /\ backup[recovery.plan] = "erased" /\ retired[recovery.plan] = "erased"
        /\ IF target = "none" THEN UNCHANGED <<target, aside>>
           ELSE /\ aside[recovery.plan] = "none"
                /\ aside' = [aside EXCEPT ![recovery.plan] = target] /\ target' = "none"
        /\ UefiGoes("putAside") /\ UNCHANGED pending
     \/ KeepPlan /\ UNCHANGED <<target, aside>>
  /\ UNCHANGED <<backup, retired, replaced, previews, vmRuns, succeeded, forgotten>>

\* Mutant: the original replaces whatever is there.
RestoreOverwrites ==
  /\ recovery.at = "putAside"
  /\ \/ /\ target' = retired[recovery.plan]
        /\ retired' = [retired EXCEPT ![recovery.plan] = "none"]
        /\ replaced' = replaced \ {recovery.plan} /\ recovery' = NoCommand /\ UNCHANGED pending
     \/ KeepPlan /\ UNCHANGED <<target, retired, replaced>>
  /\ UNCHANGED <<backup, aside, previews, vmRuns, succeeded, forgotten>>

RestoreStore ==
  /\ recovery.at = "putAside"
  /\ \/ /\ target = "none" /\ target' = retired[recovery.plan]
        /\ retired' = [retired EXCEPT ![recovery.plan] = "none"]
        /\ replaced' = replaced \ {recovery.plan} /\ recovery' = NoCommand /\ UNCHANGED pending
     \/ KeepPlan /\ UNCHANGED <<target, retired, replaced>>
  /\ UNCHANGED <<backup, aside, previews, vmRuns, succeeded, forgotten>>

\* The restore command: the VM must be stopped, which it does not see to.
BeginRestore ==
  /\ recovery = NoCommand /\ pending \in replaced
  /\ IF vmRuns THEN UNCHANGED <<recovery, pending>>
               ELSE recovery' = [plan |-> pending, at |-> "restoring"] /\ pending' = 0
  /\ UNCHANGED <<storeVars, replaced, previews, vmRuns, succeeded, forgotten>>

-----------------------------------------------------------------------------
(* From outside. *)

\* A VM that starts without a store makes one; a running VM may fill an erased
\* one.
VmIsStarted ==
  /\ ~vmRuns /\ vmRuns' = TRUE
  /\ target' \in IF target = "none" THEN {"erased", "fresh"} ELSE {target, "fresh"}
  /\ UNCHANGED <<backup, retired, aside, pending, replaced, recovery, previews, succeeded, forgotten>>

VmIsStopped ==
  /\ vmRuns /\ vmRuns' = FALSE
  /\ UNCHANGED <<storeVars, pending, replaced, recovery, previews, succeeded, forgotten>>

UefiKilled ==
  /\ pending # 0 \/ recovery # NoCommand
  /\ pending' = 0 /\ recovery' = NoCommand /\ replaced' = {}
  /\ forgotten' = forgotten \cup ({pending, recovery.plan} \ {0})
  /\ UNCHANGED <<storeVars, previews, vmRuns, succeeded>>

-----------------------------------------------------------------------------
RecoverStep == PreviewUefi \/ BeginRecover \/ BackUpStore \/ RetireStore \/ BootVm \/ BootEnds \/ StopForRollback
RestoreStep == BeginRestore \/ PutAside \/ RestoreStore

UefiNext == RecoverStep \/ RestoreStep \/ VmIsStarted \/ VmIsStopped \/ UefiKilled

UefiSpec == UefiInit /\ [][UefiNext]_uefiVars

-----------------------------------------------------------------------------
(* What is checked. *)

\* A store that was taken from the VM stays known: its recovery succeeded, or
\* the plan that brings it back is at work or in memory, unless the
\* application was killed.  No later preview displaces it.
RetiredIsKnown ==
  \A p \in PlanIds : retired[p] # "none"
    => p \in succeeded \/ pending = p \/ recovery.plan = p \/ p \in forgotten

\* No step removes or overwrites a store, whenever the VM makes a new one: the
\* renames refuse a name that exists, the one that did not boot is evidence.
StoreCount == Cardinality({p \in PlanIds : backup[p] # "none"}) + Cardinality({p \in PlanIds : retired[p] # "none"})
              + Cardinality({p \in PlanIds : aside[p] # "none"}) + (IF target = "none" THEN 0 ELSE 1)

StoresAreKept == [][StoreCount' >= StoreCount]_uefiVars
=============================================================================
