---------------------------- MODULE SrlValidator ----------------------------
(***************************************************************************)
(* The pure decisions of the provider: the methods of validatorDevice, the *)
(* spec check of the admission webhook, and the system-cache entry that    *)
(* externalDevice.getGvkUpate builds.  They read only the custom resource  *)
(* the reconciler fetched and the answers of the worker it was given.      *)
(***************************************************************************)
EXTENDS SrlData

CONSTANTS
  NoGvk,         \* no entry for the resource in the system cache
  CrdGroup,      \* API group of the SrlConfig resource
  WebhookGroup   \* API group the admission webhook is declared for

Action == {"CREATE", "UPDATE", "DELETE"}
Status == {"PENDING", "FAILED", "SUCCESS"}

(***************************************************************************)
(* YnddSystem_Gvk: one entry per custom resource in a target's system      *)
(* cache.  Name is the key of the map that holds the entry; Reason and     *)
(* Attempt carry no decision of this code.                                 *)
(***************************************************************************)
Gvk == [action : Action, status : Status, spec : Cfg, path : SUBSET Leaf,
        update : Cfg, delete : SUBSET Leaf]

ASSUME NoGvkAssumption == NoGvk \notin Gvk

(***************************************************************************)
(* Admission.  The API server calls the webhook for the groups it was      *)
(* declared for; ValidateCreate and ValidateUpdate refuse properties that  *)
(* do not parse.  ValidateDelete always accepts.                           *)
(***************************************************************************)
ValidateSpec(raw) == Parses(raw)

ValidateCreate(raw) == ValidateSpec(raw)

ValidateUpdate(raw) == ValidateSpec(raw)

AdmitCreate(raw) == CrdGroup = WebhookGroup => ValidateCreate(raw)

AdmitUpdate(raw) == CrdGroup = WebhookGroup => ValidateUpdate(raw)

(* Faulty variant: the status switch has no case for PENDING.              *)
GetCrStatus_NoPending(gvk, exhausted) ==
  [exhausted |-> exhausted, exists |-> ~exhausted /\ gvk # NoGvk,
   pending |-> FALSE, failed |-> FALSE]

(* Faulty variant: a failed entry is reported as one that does not exist.  *)
GetCrStatus_FailedIsGone(gvk, exhausted) ==
  [exhausted |-> exhausted,
   exists    |-> ~exhausted /\ gvk # NoGvk /\ gvk.status # "FAILED",
   pending   |-> ~exhausted /\ gvk # NoGvk /\ gvk.status = "PENDING",
   failed    |-> FALSE]

(***************************************************************************)
(* validatorDevice.GetCrStatus: what the system cache says of a resource.  *)
(***************************************************************************)
GetCrStatus(gvk, exhausted) ==
  IF exhausted
  THEN [exhausted |-> TRUE, exists |-> FALSE, pending |-> FALSE, failed |-> FALSE]
  ELSE [exhausted |-> FALSE,
        exists    |-> gvk # NoGvk,
        pending   |-> gvk # NoGvk /\ gvk.status = "PENDING",
        failed    |-> gvk # NoGvk /\ gvk.status = "FAILED"]

(***************************************************************************)
(* The answers of ValidateCrSpecUpdate and ValidateCrSpecDelete: TRUE is   *)
(* Success; an error and Success: false are both FALSE, since neither lets *)
(* the reconciler go on.  Both refuse a running configuration that is not  *)
(* valid to begin with (NewConfigStruct(runningCfg, true)).                *)
(***************************************************************************)
ValidateCrSpecUpdate_NoParse(raw, running) ==   \* faulty: parse error ignored
  Valid(running) /\ Valid(Merge(running, raw))

ValidateCrSpecUpdate(raw, running) ==
  /\ Valid(running)
  /\ Parses(raw)
  /\ Valid(Merge(running, raw))

GetRootPaths_Top(cfg) ==   \* faulty: reduced to the root of the tree
  IF Leaves(cfg) = {} THEN {} ELSE Leaf

GetRootPaths(cfg) == Covered(Leaves(cfg))

ValidateCrSpecDelete(raw, running) ==
  /\ Valid(running)
  /\ Parses(raw)
  /\ Valid(ApplySet(running, EmptyCfg, GetRootPaths(raw)))

(* Faulty variant: only the updates of the diff are handed on.             *)
GetCrSpecDiff_NoDeletes(raw, gvk) ==
  IF gvk = NoGvk
  THEN NoDiff
  ELSE validateNotification({}, DiffUpdates(gvk.spec, raw))

(***************************************************************************)
(* GetCrSpecDiff: from the spec recorded in the system cache to the spec   *)
(* of the resource.                                                        *)
(***************************************************************************)
GetCrSpecDiff(raw, gvk) ==
  IF gvk = NoGvk
  THEN NoDiff
  ELSE validateNotification(DiffDeletes(gvk.spec, raw), DiffUpdates(gvk.spec, raw))

(***************************************************************************)
(* GetCrActualDiff: from the running configuration to the running          *)
(* configuration with the spec merged in.  The merge has no overwrite      *)
(* option, so it fails where ActualDiffError holds.                        *)
(***************************************************************************)
ActualDiffError(raw, running) == MergeConflict(running, raw)

GetCrActualDiff(raw, running) ==
  LET new == Merge(running, raw)
  IN  validateNotification(DiffDeletes(running, new), DiffUpdates(running, new))

IsUpToDate(diff) == diff = NoDiff

(***************************************************************************)
(* getGvkUpate: the entry that Create, Update and Delete write.  Its spec  *)
(* is the one of the resource, whatever has been applied so far.           *)
(***************************************************************************)
getGvkUpate(raw, rootPaths, obs, action) ==
  [action |-> action, status |-> "PENDING", spec |-> raw, path |-> rootPaths,
   update |-> obs.updates, delete |-> obs.deletes]
=============================================================================
