------------------------------ MODULE SrlSystem ------------------------------
(***************************************************************************)
(* The SR Linux config provider end to end: users edit SrlConfig custom    *)
(* resources; the reconciler runs one pass per resource at a time and      *)
(* writes what it wants into the system cache of the resource's target;    *)
(* the worker applies pending entries to the device.                       *)
(*                                                                         *)
(* Every call of a pass to the API server or to the worker is a step of    *)
(* its own, so users, other passes and the worker interleave between what  *)
(* a pass reads and what it writes.  The decisions taken on what was read  *)
(* are the operators of SrlValidator.                                      *)
(*                                                                         *)
(* The generic managed reconciler (ndd-runtime) and the worker's cache and *)
(* target controller are libraries.  The order of a pass follows from the  *)
(* arguments its calls need, its branches from the fields the validator    *)
(* returns.  Resources have the lifecycle policies that the CRD defaults   *)
(* to: deploymentPolicy active and deletionPolicy delete.                  *)
(***************************************************************************)
EXTENDS SrlValidator, Naturals

CONSTANTS
  Cr,          \* the custom resources
  Target,      \* the targets, one device each
  SpecsOf,     \* [Cr -> SUBSET raw specs]: what users may submit
  Factory,     \* the configuration every device starts with
  MaxEdits,    \* bound on the commands of users
  MaxMishaps   \* bound on restarts, refusals, drift and exhaustion

(***************************************************************************)
(* cr.Spec.Properties.Raw: a configuration, or something that is not one.  *)
(***************************************************************************)
Raw == Cfg \cup {Malformed}

ASSUME SystemAssumption ==
  /\ Target # {}
  /\ SpecsOf \in [Cr -> SUBSET Raw]
  /\ \A c \in Cr : \A s \in SpecsOf[c] : Parses(s) => Keyed(s)
  /\ Factory \in Cfg /\ Valid(Factory)
  /\ MaxEdits \in Nat
  /\ MaxMishaps \in Nat

VARIABLES
  phase,      \* [Cr -> Phase]: life of the resource in the API server
  spec,       \* [Cr -> raw spec]: cr.Spec.Properties.Raw
  tref,       \* [Cr -> Target]: cr.Spec.TargetReference
  pass,       \* [Cr -> Pass]: what the reconcile pass of the resource holds
  up,         \* [Target -> BOOLEAN]: the worker serves the target
  exhausted,  \* [Target -> BOOLEAN]: systemCfg.Cache.Exhausted # 0
  gvk,        \* [Target -> [Cr -> Gvk \cup {NoGvk}]]: the system caches
  device,     \* [Target -> Cfg]: the configuration the device runs
  copy,       \* [Target -> Cfg]: the worker's copy of it (origin Config of its cache)
  late,       \* Set requests that timed out and may still take effect
  faults,     \* history variable: the kinds of fault that have happened
  edits,      \* number of commands so far
  mishaps     \* number of mishaps so far

crVars     == <<phase, spec, tref>>
workerVars == <<up, exhausted, gvk, device, copy, late>>
bounds     == <<edits, mishaps>>
vars       == <<phase, spec, tref, pass, up, exhausted, gvk, device, copy, late,
                faults, edits, mishaps>>

(***************************************************************************)
(* A "fresh" resource has no finalizer yet, a "live" one has; a "deleting" *)
(* one has a deletion timestamp and waits for its finalizer to go.         *)
(***************************************************************************)
Phase == {"absent", "fresh", "live", "deleting"}

PC == {"idle", "connect", "system", "finalize", "running", "set"}

(***************************************************************************)
(* What breaks the promises below, each recorded when it happens:          *)
(*   reject           the device or the worker refused an entry            *)
(*   restart          a worker lost its in-memory system cache             *)
(*   retarget         a user changed the target reference of a resource    *)
(*   unsyncedDelete   Delete went out for a resource whose last edit had   *)
(*                    never been written to the system cache               *)
(*   late             a Set took effect after its pass had given up on it  *)
(*   removed          an operator removed something from a device          *)
(*   overwritten      an operator changed the value of a leaf on a device  *)
(***************************************************************************)
FaultKind == {"reject", "restart", "retarget", "unsyncedDelete", "late",
              "removed", "overwritten"}

AnyTarget == CHOOSE t \in Target : TRUE

IdlePass == [pc |-> "idle", phase |-> "absent", spec |-> EmptyCfg,
             tref |-> AnyTarget, seen |-> NoGvk, req |-> NoGvk]

Init ==
  /\ phase = [c \in Cr |-> "absent"]
  /\ spec = [c \in Cr |-> EmptyCfg]
  /\ tref = [c \in Cr |-> AnyTarget]
  /\ pass = [c \in Cr |-> IdlePass]
  /\ up = [t \in Target |-> FALSE]
  /\ exhausted = [t \in Target |-> FALSE]
  /\ gvk = [t \in Target |-> [c \in Cr |-> NoGvk]]
  /\ device = [t \in Target |-> Factory]
  /\ copy = [t \in Target |-> EmptyCfg]
  /\ late = {}
  /\ faults = {}
  /\ edits = 0
  /\ mishaps = 0

-----------------------------------------------------------------------------
(***************************************************************************)
(* Users.                                                                  *)
(***************************************************************************)
Edit == edits < MaxEdits /\ edits' = edits + 1 /\ UNCHANGED mishaps

UserCreate(c) ==
  /\ Edit
  /\ phase[c] = "absent"
  /\ \E s \in SpecsOf[c], t \in Target :
       /\ AdmitCreate(s)
       /\ phase' = [phase EXCEPT ![c] = "fresh"]
       /\ spec' = [spec EXCEPT ![c] = s]
       /\ tref' = [tref EXCEPT ![c] = t]
  /\ UNCHANGED <<pass, workerVars, faults>>

UserUpdate(c) ==
  /\ Edit
  /\ phase[c] # "absent"
  /\ \E s \in SpecsOf[c] \ {spec[c]} :
       /\ AdmitUpdate(s)
       /\ spec' = [spec EXCEPT ![c] = s]
  /\ UNCHANGED <<phase, tref, pass, workerVars, faults>>

(***************************************************************************)
(* ValidateUpdate looks at the properties only: the reference may change.  *)
(***************************************************************************)
UserRetarget(c) ==
  /\ Edit
  /\ phase[c] # "absent"
  /\ AdmitUpdate(spec[c])
  /\ \E t \in Target \ {tref[c]} : tref' = [tref EXCEPT ![c] = t]
  /\ faults' = faults \cup {"retarget"}
  /\ UNCHANGED <<phase, spec, pass, workerVars>>

(***************************************************************************)
(* Without a finalizer the API server removes the resource at once.        *)
(***************************************************************************)
UserDelete(c) ==
  /\ Edit
  /\ phase[c] \in {"fresh", "live"}
  /\ phase' = [phase EXCEPT ![c] = IF @ = "live" THEN "deleting" ELSE "absent"]
  /\ UNCHANGED <<spec, tref, pass, workerVars, faults>>

-----------------------------------------------------------------------------
(***************************************************************************)
(* The reconciler.  Any call may fail; the pass then ends and a later one  *)
(* starts over.                                                            *)
(***************************************************************************)
EndPass(c) == pass' = [pass EXCEPT ![c] = IdlePass]

Mishap == mishaps < MaxMishaps /\ mishaps' = mishaps + 1 /\ UNCHANGED edits

PassFails(c) ==
  /\ pass[c].pc # "idle"
  /\ EndPass(c)
  /\ UNCHANGED <<crVars, workerVars, faults, bounds>>

Fetch(c) ==
  /\ pass[c].pc = "idle"
  /\ phase[c] # "absent"
  /\ phase' = [phase EXCEPT ![c] = IF @ = "fresh" THEN "live" ELSE @]
  /\ pass' = [pass EXCEPT ![c] =
                [pc |-> "connect", phase |-> phase'[c], spec |-> spec[c],
                 tref |-> tref[c], seen |-> NoGvk, req |-> NoGvk]]
  /\ UNCHANGED <<spec, tref, workerVars, faults, bounds>>

(***************************************************************************)
(* connector.Connect: track the usage, get the Target, find the worker,    *)
(* create the gNMI client.  PassFails covers its four error returns.  The  *)
(* TargetUsage that tracks the usage is not read again, and not kept here. *)
(***************************************************************************)
Connect(c) ==
  /\ pass[c].pc = "connect"
  /\ pass' = [pass EXCEPT ![c].pc = "system"]
  /\ UNCHANGED <<crVars, workerVars, faults, bounds>>

(***************************************************************************)
(* GetSystemConfig and GetCrStatus.  A gNMI error of any kind, an answer   *)
(* without notification and a null value all come back as nil, "not        *)
(* ready": the pass ends (PassFails).                                      *)
(***************************************************************************)
CrStatus(c) == GetCrStatus(gvk[pass[c].tref][c], exhausted[pass[c].tref])

GetSystemConfig(c) ==
  /\ pass[c].pc = "system"
  /\ up[pass[c].tref]
  /\ LET st == CrStatus(c) IN
       \/ /\ st.exhausted \/ st.pending
          /\ EndPass(c)
       \/ /\ ~st.exhausted /\ ~st.pending
          /\ pass[c].phase = "deleting" /\ ~st.exists
          /\ pass' = [pass EXCEPT ![c].pc = "finalize"]
       \/ /\ ~st.exhausted /\ ~st.pending
          /\ pass[c].phase = "live" \/ st.exists
          /\ pass' = [pass EXCEPT ![c].pc = "running",
                                  ![c].seen = gvk[pass[c].tref][c]]
  /\ UNCHANGED <<crVars, workerVars, faults, bounds>>

(***************************************************************************)
(* An answer with a notification but no update is unmarshalled as "null"   *)
(* into an empty ygotnddp.Device; GetCrStatus then dereferences its nil    *)
(* Cache and the reconciler process dies, with every pass it was running.  *)
(***************************************************************************)
ReconcilerPanic(c) ==
  /\ Mishap
  /\ pass[c].pc = "system"
  /\ up[pass[c].tref]
  /\ pass' = [d \in Cr |-> IdlePass]
  /\ UNCHANGED <<crVars, workerVars, faults>>

(***************************************************************************)
(* The update that removes the finalizer carries the resource version the  *)
(* pass has fetched: the API server refuses it when the resource changed.  *)
(***************************************************************************)
RemoveFinalizer(c) ==
  /\ pass[c].pc = "finalize"
  /\ LET unchanged == spec[c] = pass[c].spec /\ tref[c] = pass[c].tref IN
       \/ unchanged /\ phase' = [phase EXCEPT ![c] = "absent"]
       \/ ~unchanged /\ UNCHANGED phase
  /\ EndPass(c)
  /\ UNCHANGED <<spec, tref, workerVars, faults, bounds>>

(***************************************************************************)
(* What a pass decides once it has the running configuration: the entry to *)
(* write, or NoGvk when there is nothing to do or something is wrong.      *)
(***************************************************************************)
DeleteRequest_AsUpdate(p, running) ==   \* faulty: Delete copied from Update
  IF ValidateCrSpecDelete(p.spec, running)
  THEN getGvkUpate(p.spec, GetRootPaths(p.spec), NoDiff, "UPDATE")
  ELSE NoGvk

DeleteRequest(p, running) ==
  IF ValidateCrSpecDelete(p.spec, running)
  THEN getGvkUpate(p.spec, GetRootPaths(p.spec), NoDiff, "DELETE")
  ELSE NoGvk

DriftRequest(p, running, action) ==
  IF ActualDiffError(p.spec, running)
  THEN NoGvk
  ELSE getGvkUpate(p.spec, GetRootPaths(p.spec),
                   GetCrActualDiff(p.spec, running), action)

SpecRequest_DeletesOnly(p) ==   \* faulty: the updates of the diff stay behind
  getGvkUpate(p.spec, GetRootPaths(p.spec),
              [GetCrSpecDiff(p.spec, p.seen) EXCEPT !.updates = EmptyCfg], "UPDATE")

SpecRequest(p) ==
  getGvkUpate(p.spec, GetRootPaths(p.spec), GetCrSpecDiff(p.spec, p.seen), "UPDATE")

LiveRequest_NoDrift(p, running) ==   \* faulty: drift is never looked at
  LET valid == ValidateCrSpecUpdate(p.spec, running)
  IN  CASE valid /\ p.seen = NoGvk -> DriftRequest(p, running, "CREATE")
        [] valid /\ p.seen # NoGvk /\ ~IsUpToDate(GetCrSpecDiff(p.spec, p.seen))
             -> SpecRequest(p)
        [] OTHER -> NoGvk

LiveRequest(p, running) ==
  LET valid   == ValidateCrSpecUpdate(p.spec, running)
      exists  == p.seen # NoGvk
      edited  == ~IsUpToDate(GetCrSpecDiff(p.spec, p.seen))
      drifted == ~IsUpToDate(GetCrActualDiff(p.spec, running))
  IN  CASE valid /\ ~exists                      -> DriftRequest(p, running, "CREATE")
        [] valid /\ exists /\ edited             -> SpecRequest(p)
        [] valid /\ exists /\ ~edited /\ drifted -> DriftRequest(p, running, "UPDATE")
        [] OTHER                                 -> NoGvk

Request(p, running) ==
  IF p.phase = "deleting" THEN DeleteRequest(p, running) ELSE LiveRequest(p, running)

Decide(c, running) ==
  LET req == Request(pass[c], running)
  IN  IF req = NoGvk
      THEN EndPass(c)
      ELSE pass' = [pass EXCEPT ![c].pc = "set", ![c].req = req]

(***************************************************************************)
(* GetRunningConfig, with the validation and the diffs that follow it.     *)
(* The answer is the worker's copy (origin Config), not the device itself. *)
(***************************************************************************)
GetRunningConfig(c) ==
  /\ pass[c].pc = "running"
  /\ up[pass[c].tref]
  /\ Decide(c, copy[pass[c].tref])
  /\ UNCHANGED <<crVars, workerVars, faults, bounds>>

(***************************************************************************)
(* An answer with a notification but no update comes back as "null", not   *)
(* as nil: the pass goes on with an empty running configuration.           *)
(***************************************************************************)
GetRunningConfigNoUpdate(c) ==
  /\ Mishap
  /\ pass[c].pc = "running"
  /\ up[pass[c].tref]
  /\ Decide(c, EmptyCfg)
  /\ UNCHANGED <<crVars, workerVars, faults>>

(***************************************************************************)
(* externalDevice.Create, Update and Delete: one gNMI Set that replaces    *)
(* the entry.  Whether or not the answer arrives, the pass ends; a request *)
(* that never arrives is PassFails.                                        *)
(***************************************************************************)
Push(c, action) ==
  LET p == pass[c] IN
  /\ p.pc = "set"
  /\ p.req.action = action
  /\ up[p.tref]
  /\ gvk' = [gvk EXCEPT ![p.tref][c] = p.req]
  /\ EndPass(c)

Create(c) == Push(c, "CREATE") /\ UNCHANGED <<crVars, up, exhausted, device, copy, late, faults, bounds>>

Update(c) == Push(c, "UPDATE") /\ UNCHANGED <<crVars, up, exhausted, device, copy, late, faults, bounds>>

Delete(c) ==
  /\ Push(c, "DELETE")
  /\ faults' = IF pass[c].seen.spec # pass[c].req.spec
               THEN faults \cup {"unsyncedDelete"} ELSE faults
  /\ UNCHANGED <<crVars, up, exhausted, device, copy, late, bounds>>

(***************************************************************************)
(* A Set that runs into its timeout fails the pass, yet the worker may     *)
(* still be working on it and carry it out later.                          *)
(***************************************************************************)
SetTimesOut(c) ==
  /\ Mishap
  /\ pass[c].pc = "set"
  /\ up[pass[c].tref]
  /\ late' = late \cup {[cr |-> c, tref |-> pass[c].tref, req |-> pass[c].req]}
  /\ EndPass(c)
  /\ UNCHANGED <<crVars, up, exhausted, gvk, device, copy, faults>>

-----------------------------------------------------------------------------
(***************************************************************************)
(* The worker and the devices.                                             *)
(***************************************************************************)
Candidate(cfg, e) ==
  IF e.action = "DELETE"
  THEN ApplySet(cfg, EmptyCfg, e.path)
  ELSE ApplySet(cfg, e.update, e.delete)

Pending(t, c) == gvk[t][c] # NoGvk /\ gvk[t][c].status = "PENDING"

WorkerApply(t, c) ==
  /\ up[t] /\ Pending(t, c)
  /\ Valid(Candidate(device[t], gvk[t][c]))
  /\ device' = [device EXCEPT ![t] = Candidate(@, gvk[t][c])]
  /\ copy' = [copy EXCEPT ![t] = Candidate(@, gvk[t][c])]
  /\ gvk' = [gvk EXCEPT ![t][c] = IF @.action = "DELETE" THEN NoGvk
                                  ELSE [@ EXCEPT !.status = "SUCCESS"]]
  /\ UNCHANGED <<crVars, pass, up, exhausted, late, faults, bounds>>

(***************************************************************************)
(* The device refuses a configuration with dangling leafrefs, and may      *)
(* refuse anything (a mishap).                                             *)
(***************************************************************************)
WorkerReject(t, c) ==
  /\ up[t] /\ Pending(t, c)
  /\ \/ ~Valid(Candidate(device[t], gvk[t][c])) /\ UNCHANGED bounds
     \/ Valid(Candidate(device[t], gvk[t][c])) /\ Mishap
  /\ gvk' = [gvk EXCEPT ![t][c].status = "FAILED"]
  /\ faults' = faults \cup {"reject"}
  /\ UNCHANGED <<crVars, pass, up, exhausted, device, copy, late>>

LateSet(t) ==
  /\ up[t]
  /\ \E m \in late :
       /\ m.tref = t
       /\ gvk' = [gvk EXCEPT ![t][m.cr] = m.req]
       /\ late' = late \ {m}
  /\ faults' = faults \cup {"late"}
  /\ UNCHANGED <<crVars, pass, up, exhausted, device, copy, bounds>>

Exhaust(t) ==
  /\ Mishap
  /\ up[t] /\ ~exhausted[t]
  /\ exhausted' = [exhausted EXCEPT ![t] = TRUE]
  /\ UNCHANGED <<crVars, pass, up, gvk, device, copy, late, faults>>

Recover(t) ==
  /\ exhausted[t]
  /\ exhausted' = [exhausted EXCEPT ![t] = FALSE]
  /\ UNCHANGED <<crVars, pass, up, gvk, device, copy, late, faults, bounds>>

(***************************************************************************)
(* The worker builds its cache with cache.New(): a restart empties it, and *)
(* the requests it was still working on are gone too.  A target that is    *)
(* stopped (SetStopTargetHandler) leaves the cache in the same way.        *)
(***************************************************************************)
WorkerRestart(t) ==
  /\ Mishap
  /\ up[t]
  /\ up' = [up EXCEPT ![t] = FALSE]
  /\ exhausted' = [exhausted EXCEPT ![t] = FALSE]
  /\ gvk' = [gvk EXCEPT ![t] = [c \in Cr |-> NoGvk]]
  /\ faults' = faults \cup {"restart"}
  /\ late' = {m \in late : m.tref # t}
  /\ copy' = [copy EXCEPT ![t] = EmptyCfg]
  /\ UNCHANGED <<crVars, pass, device>>

(***************************************************************************)
(* srl.GetConfig returns the configuration of the device when the answer   *)
(* is one notification with one update; any other answer is an error and   *)
(* leaves the copy as it was.  The worker reads it when it starts to serve *)
(* a target, and again later: only then does it learn what others did.     *)
(***************************************************************************)
GetConfig(t) == copy' = [copy EXCEPT ![t] = device[t]]

StartTarget(t) ==
  /\ ~up[t]
  /\ up' = [up EXCEPT ![t] = TRUE]
  /\ GetConfig(t)
  /\ UNCHANGED <<crVars, pass, exhausted, gvk, device, late, faults, bounds>>

Resync(t) ==
  /\ up[t]
  /\ copy[t] # device[t]
  /\ GetConfig(t)
  /\ UNCHANGED <<crVars, pass, up, exhausted, gvk, device, late, faults, bounds>>

(***************************************************************************)
(* An operator removes a leaf or a list entry from the device itself, or   *)
(* changes the value of a leaf that is not a key.                          *)
(***************************************************************************)
Tamper(t, cfg) ==
  /\ Mishap
  /\ Valid(cfg)
  /\ device' = [device EXCEPT ![t] = cfg]
  /\ UNCHANGED <<crVars, pass, up, exhausted, gvk, copy, late>>

DriftRemove(t) ==
  /\ \E l \in Leaves(device[t]) :
       Tamper(t, ApplySet(device[t], EmptyCfg, ListEntry[l]))
  /\ faults' = faults \cup {"removed"}

DriftChange(t) ==
  /\ \E l \in {m \in Leaves(device[t]) : ListEntry[m] = {m}} :
     \E v \in Value \ {device[t][l]} :
       Tamper(t, [device[t] EXCEPT ![l] = v])
  /\ faults' = faults \cup {"overwritten"}

-----------------------------------------------------------------------------
UserStep(c) == UserCreate(c) \/ UserUpdate(c) \/ UserRetarget(c) \/ UserDelete(c)

PassStep(c) ==
  \/ Fetch(c) \/ Connect(c) \/ GetSystemConfig(c) \/ RemoveFinalizer(c)
  \/ GetRunningConfig(c) \/ GetRunningConfigNoUpdate(c)
  \/ Create(c) \/ Update(c) \/ Delete(c)
  \/ SetTimesOut(c) \/ PassFails(c) \/ ReconcilerPanic(c)

WorkerStep(t) ==
  \/ \E c \in Cr : WorkerApply(t, c) \/ WorkerReject(t, c)
  \/ LateSet(t) \/ Exhaust(t) \/ Recover(t) \/ WorkerRestart(t) \/ StartTarget(t)
  \/ Resync(t)
  \/ DriftRemove(t) \/ DriftChange(t)

Next ==
  \/ \E c \in Cr : UserStep(c) \/ PassStep(c)
  \/ \E t \in Target : WorkerStep(t)

Spec == Init /\ [][Next]_vars

(***************************************************************************)
(* What the scheduling of the code justifies.  A resource stays queued     *)
(* (errors are requeued, the poll interval requeues the rest), so passes   *)
(* keep starting.  A worker that is down comes back and an exhausted cache *)
(* recovers.  A pass may fail any number of times, but not always: the     *)
(* calls of a pass that is repeated forever succeed infinitely often.      *)
(* Users, mishaps and failures are under no obligation to happen.          *)
(***************************************************************************)
Fairness ==
  /\ \A c \in Cr :
       /\ WF_vars(Fetch(c))
       /\ SF_vars(Connect(c))
       /\ SF_vars(GetSystemConfig(c))
       /\ SF_vars(RemoveFinalizer(c))
       /\ SF_vars(GetRunningConfig(c))
       /\ SF_vars(Create(c) \/ Update(c) \/ Delete(c))
  /\ \A t \in Target :
       /\ WF_vars(StartTarget(t))
       /\ WF_vars(Resync(t))
       /\ WF_vars(Recover(t))
       /\ \A c \in Cr : WF_vars(WorkerApply(t, c) \/ WorkerReject(t, c))

FairSpec == Spec /\ Fairness

-----------------------------------------------------------------------------
(***************************************************************************)
(* The type invariant: a malformed spec stays in the API server and in the *)
(* pass that fetched it, it never reaches a system cache.                  *)
(***************************************************************************)
Pass == [pc : PC, phase : Phase, spec : Raw, tref : Target,
         seen : Gvk \cup {NoGvk}, req : Gvk \cup {NoGvk}]

TypeOK ==
  /\ phase \in [Cr -> Phase]
  /\ spec \in [Cr -> Raw]
  /\ tref \in [Cr -> Target]
  /\ pass \in [Cr -> Pass]
  /\ up \in [Target -> BOOLEAN]
  /\ exhausted \in [Target -> BOOLEAN]
  /\ gvk \in [Target -> [Cr -> Gvk \cup {NoGvk}]]
  /\ device \in [Target -> Cfg]
  /\ copy \in [Target -> Cfg]
  /\ late \in SUBSET [cr : Cr, tref : Target, req : Gvk]
  /\ faults \in SUBSET FaultKind
  /\ edits \in 0..MaxEdits
  /\ mishaps \in 0..MaxMishaps

(***************************************************************************)
(* The leaves an entry of the system cache answers for: the ones its spec  *)
(* sets and, as long as it is pending, the ones it is about to delete.     *)
(***************************************************************************)
Claim(e) ==
  IF e.action = "DELETE" THEN e.path
  ELSE Leaves(e.spec) \cup (IF e.status = "PENDING" THEN e.delete ELSE {})

(***************************************************************************)
(* No leaf is left behind: a leaf on a device that was not there from the  *)
(* start is answered for by an entry of the target's system cache.  The    *)
(* diff of GetCrSpecDiff is taken against the entry read at the start of   *)
(* the pass and replaces whatever entry is there when Set arrives, so this *)
(* fails as soon as a pass can act on a stale entry, or as a diff misses a *)
(* leaf.  Refused entries, lost caches, late and unsynced writes break it. *)
(***************************************************************************)
NoOrphans ==
  faults \cap {"reject", "restart", "unsyncedDelete", "late"} = {} =>
    \A t \in Target : \A l \in Leaves(device[t]) \ Leaves(Factory) :
      \E c \in Cr : gvk[t][c] # NoGvk /\ l \in Claim(gvk[t][c])

(***************************************************************************)
(* The leaves of the list entries that one resource's specs use.           *)
(***************************************************************************)
Territory(c) ==
  UNION {ListEntry[l] : l \in
           {m \in Leaf : \E s \in SpecsOf[c] : Parses(s) /\ s[m] # Absent}}

Disjoint == \A c, d \in Cr : c # d => Territory(c) \cap Territory(d) = {}

Carries(t, cfg) == \A l \in Leaf : cfg[l] # Absent => device[t][l] = cfg[l]

(***************************************************************************)
(* SUCCESS is the truth: when the system cache says that a resource has    *)
(* been applied, the device carries the spec recorded there.  The entry    *)
(* holds a diff against a configuration read earlier, not the spec itself, *)
(* so this relates four steps of three actors.  It needs resources that do *)
(* not share list entries, and it survives restarts and retargeting.       *)
(***************************************************************************)
AppliedIsPresent ==
  Disjoint /\ faults \cap {"reject", "late", "removed", "overwritten"} = {} =>
    \A t \in Target, c \in Cr :
      gvk[t][c] # NoGvk /\ gvk[t][c].status = "SUCCESS" => Carries(t, gvk[t][c].spec)

(***************************************************************************)
(* A resource never touches what belongs to another one: apart from what   *)
(* operators do, a leaf of a device changes only when an entry of the      *)
(* system cache is processed, and then it is a leaf of a list entry that   *)
(* the specs of the entry's resource use.  Shortened deletes and root      *)
(* paths take leaves with them that no spec of the resource names.         *)
(***************************************************************************)
OwnLeavesOnly ==
  [][\A t \in Target, l \in Leaf :
       device'[t][l] # device[t][l] =>
         \/ mishaps' # mishaps
         \/ \E c \in Cr : Pending(t, c) /\ gvk'[t][c] # gvk[t][c] /\ l \in Territory(c)]_vars

(***************************************************************************)
(* A resource that is gone has no entry in any system cache: its finalizer *)
(* is removed only on the word of a system cache that was read while the   *)
(* entry was really gone, never because a read failed.                     *)
(* This is about deletionPolicy delete, the default of the CRD.            *)
(***************************************************************************)
GoneIsClean ==
  faults \cap {"retarget", "late"} = {} =>
    \A c \in Cr : phase[c] = "absent" => \A t \in Target : gvk[t][c] = NoGvk

(***************************************************************************)
(* A write of the reconciler never replaces an entry that the worker has   *)
(* still to process: a pending entry changes only by being processed, or   *)
(* is lost with the cache.  A Set that is carried out after its pass gave  *)
(* up replaces whatever it finds, so nothing is said once one was late.    *)
(***************************************************************************)
PendingNotOverwritten ==
  [][\A t \in Target, c \in Cr :
       Pending(t, c) /\ "late" \notin faults' =>
         \/ gvk'[t][c] \in {gvk[t][c], NoGvk}
         \/ \E s \in {"SUCCESS", "FAILED"} :
              gvk'[t][c] = [gvk[t][c] EXCEPT !.status = s]]_vars

(***************************************************************************)
(* The system caches and the finalizers follow GvkLifecycle: however the   *)
(* passes, the worker and the users interleave, a request meets the entry  *)
(* its pass has read, or nothing if the cache was lost in between.         *)
(***************************************************************************)
EntryState(e) ==
  CASE e = NoGvk -> "none"
    [] e # NoGvk /\ e.status = "SUCCESS" -> "applied"
    [] e # NoGvk /\ e.status = "FAILED" -> "failed"
    [] e # NoGvk /\ e.status = "PENDING" /\ e.action = "CREATE" -> "creating"
    [] e # NoGvk /\ e.status = "PENDING" /\ e.action = "UPDATE" -> "updating"
    [] e # NoGvk /\ e.status = "PENDING" /\ e.action = "DELETE" -> "deleting"

Lifecycle == INSTANCE GvkLifecycle
  WITH entry <- [t \in Target |-> [c \in Cr |-> EntryState(gvk[t][c])]],
       kept <- {c \in Cr : phase[c] \in {"live", "deleting"}},
       lost <- "restart" \in faults,
       moved <- "retarget" \in faults,
       wild <- "late" \in faults

ImplementsLifecycle == Lifecycle!Spec

(***************************************************************************)
(* Once users stop, every live resource gets its spec onto its device and  *)
(* keeps it there.  Requeued passes get there in spite of failed calls,    *)
(* an exhausted cache and configuration removed by an operator.  They do   *)
(* not after the faults that leave the system cache and the device in      *)
(* disagreement: then the merge of GetCrActualDiff can fail for good.      *)
(* This is about deploymentPolicy active, the default of the CRD.          *)
(***************************************************************************)
Reflected(c) ==
  phase[c] = "live" /\ Parses(spec[c]) => Carries(tref[c], spec[c])

Untraced == {"reject", "restart", "unsyncedDelete", "late", "overwritten"}

Converges == \A c \in Cr : <>[](faults \cap Untraced = {} => Reflected(c))

(***************************************************************************)
(* A deletion completes: the finalizer of a deleted resource goes away.    *)
(***************************************************************************)
DeletionCompletes ==
  \A c \in Cr : phase[c] = "deleting" /\ Parses(spec[c])
                 ~> phase[c] # "deleting" \/ ~Parses(spec[c])

(***************************************************************************)
(* A deletion that never ends is the fault of a leafref: from some point   *)
(* on, a leaf that the deletion would not remove points at one that it     *)
(* would.  ValidateCrSpecDelete then refuses for good, as it does to both  *)
(* of two resources that came to point at each other.  Nothing else (a     *)
(* request refused for a leafref that came to dangle, an edit during the   *)
(* deletion, a validation that failed before) keeps a readable resource    *)
(* from going away.                                                        *)
(***************************************************************************)
Referred(c) ==
  \E r \in LeafRef :
    /\ device[tref[c]][r[1]] # Absent
    /\ r[1] \notin GetRootPaths(spec[c])
    /\ r[2] \in GetRootPaths(spec[c])

StuckDeletionIsReferred ==
  \A c \in Cr : (<>[](phase[c] = "deleting" /\ Parses(spec[c]))) => <>[]Referred(c)

-----------------------------------------------------------------------------
(***************************************************************************)
(* What the repository says of the program and the code does not keep.     *)
(***************************************************************************)

(***************************************************************************)
(* "A resource is mapped to a single target" (connector.Connect): at most  *)
(* one target's system cache holds an entry for a resource.                *)
(***************************************************************************)
SingleTarget ==
  \A c \in Cr : \A t, u \in Target :
    gvk[t][c] # NoGvk /\ gvk[u][c] # NoGvk => t = u

(***************************************************************************)
(* "how often an individual resource should be checked for drift" and      *)
(* "Apply delta/diff changes to the config automatically" (the flags of    *)
(* the commands): drift of either kind is repaired in the end.             *)
(***************************************************************************)
DriftIsRepaired ==
  \A c \in Cr : <>[](faults \subseteq {"removed", "overwritten"} => Reflected(c))

(***************************************************************************)
(* "observes, then either creates, updates, or deletes an external         *)
(* resource to ensure it reflects the managed resource's desired state"    *)
(* (externalDevice): also after an entry was refused once, the device ends *)
(* up without the leaves that the only resource has given up.              *)
(***************************************************************************)
RemovalIsRetried ==
  \A c \in Cr : <>[](/\ faults \subseteq {"reject"}
                     /\ phase[c] = "live" /\ Parses(spec[c])
                     => Leaves(device[tref[c]]) \subseteq Leaves(Factory) \cup Leaves(spec[c]))

(***************************************************************************)
(* "ValidateUpdate implements webhook.Validator so a webhook will be       *)
(* registered for the type": an edit cannot make a resource undeletable.   *)
(***************************************************************************)
EveryDeletionCompletes ==
  \A c \in Cr : phase[c] = "deleting" ~> phase[c] # "deleting"
=============================================================================
