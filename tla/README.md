# Verification of the SR Linux config provider

This directory holds TLA+ models of `yndd/config-srl`, the Kubernetes provider that
puts configuration given as `SrlConfig` custom resources onto Nokia SR Linux devices,
TLC configurations that check them on small instances, and TLAPS proofs.

## 1. The system

Two processes and the devices take part.

| Part | Source | State | Operations |
|---|---|---|---|
| API server with the admission webhook | `apis/srl/v1alpha1` | the resources: spec, target reference, finalizer, deletion timestamp | create, update, delete; `ValidateCreate`, `ValidateUpdate`, `ValidateDelete` |
| Start commands, managers, lease | `cmd/reconcilercmd`, `cmd/workercmd` | how far `RunE` is, the holder of the leader election lease, the targets a worker has started, service discovery | start-up in steps, election, exit on error; start and stop of targets through the target channel |
| Reconciler process | `cmd/reconcilercmd`, `internal/controllers/srl` | per resource, what its current pass has read | one pass: `Connect`, `GetSystemConfig`/`GetCrStatus`, `GetRunningConfig`, `ValidateCrSpecUpdate`/`ValidateCrSpecDelete`, `GetRootPaths`, `GetCrSpecDiff`, `GetCrActualDiff`, then `Create`, `Update`, `Delete` or the removal of the finalizer |
| Event handler, work queue | `Setup`, `srlconfig_watcher.go`, client-go | watch events, informer cache, keys waiting for a pass, timers | event filter, `Create`, `Update`, `Delete` and `add` of the handler, the queue's Add, Get and Done, requeueing |
| Worker process | `cmd/workercmd`, `internal/controllers/target` | per target a *system cache* (one `gvk` entry per resource, an exhaustion counter) and a copy of the running configuration, in memory | gNMI Get and Set from the reconciler; start and stop of targets; processing of pending entries |
| SR Linux target | `internal/target/srl` | gNMI connection to the device | `GetConfig`, `GNMIGet`, `GNMISet`, discovery |
| Device | outside | its configuration | gNMI Set; changes by operators |

**How they interact.** The reconciler never talks to a device. It reads the system cache
and the running configuration of the target over gNMI, decides, and *replaces* the
resource's entry in the system cache by a `PENDING` one that holds an action, the new
spec, the root paths of that spec and a diff (`getGvkUpate`). The worker applies pending
entries and marks them `SUCCESS` or `FAILED`, or drops them after a `DELETE`. The next
pass learns the outcome from the system cache only. Resources share a device, and
leafrefs may run from one resource's configuration into another's.

**What is hard.** Between a read and the write that depends on it there are several
remote calls, during which users, other passes, the worker and device operators act.
Reads can fail and come back as `nil`, as `null` or as an error; a Set can time out and
still take effect; the worker loses its cache when it restarts; the device can refuse
what was validated. The `hazards` of `PROJECT.json` list these places line by line.

**What makes it correct.** No configuration is left on a device that nobody answers
for; what the system cache calls applied is on the device; a pending request is not lost;
a resource disappears only after its entry did; a resource changes only its own
configuration; specs reach the device and deletions complete. Beneath this: a resource
has one pass at a time and no wake-up gets lost; the paths and maps of an entry mean what
the diff meant; both processes get to run and no target is started twice.

## 2. Modules

| Module | Models |
|---|---|
| `SrlData` | configurations and what ygot does with them: merge, diff, validation, the shortening of paths that end in a key (`validatePath`, `validateNotification`), a gNMI Set |
| `SrlValidator` | the decisions of `validatorDevice`, the webhook's checks, the entry `getGvkUpate` builds |
| `SrlSystem` | users, reconciler passes, system caches, workers, devices; the properties |
| `GvkLifecycle` | abstract specification of the life of entries and finalizers; `SrlSystem` implements it |
| `DeviceWatcher` | the way from a change in the API server to a pass: watch, event filter, handlers, work queue, workers, requeueing |
| `PassSchedule` | abstract specification of that way, the contract `SrlSystem` is written against; `DeviceWatcher` implements it |
| `GnmiPaths` | the way of a diff to the device on structured gNMI paths, compared with the leaf-level operators of `SrlData` |
| `Deployment` | start-up of the two processes, leader election, start and stop of targets, service discovery |
| `MCSrlSystem`, `MCSrlPair`, `MCDeviceWatcher`, `MCGnmiPaths`, `MCDeployment` | small instances for TLC |
| `SrlValidatorProofs`, `SrlSystemProofs`, `SrlOwnershipProofs`, `SrlLifecycleProofs` | lemmas and theorems about `SrlSystem` |
| `DeviceWatcherProofs`, `GnmiPathsProofs`, `DeploymentProofs` | lemmas and theorems about the other parts |

`SrlSystem` is the centre. `PassSchedule` stands between it and `DeviceWatcher`, `SrlData`
between it and `GnmiPaths`; `Deployment` explains when its `WorkerRestart`,
`ReconcilerPanic` and `StartTarget` happen.

### Configurations

A configuration is a function from the leaf paths in use to values or `Absent`. A gNMI
delete path is the set of leaves below it. `ListEntry[l]` is the set of leaves of the list
entry whose key leaf is `l` (and `{l}` otherwise): a delete of a key leaf is shortened to
the entry (`Covered`), an update below an entry also creates the entry with its key.
`LeafRef` are the leafrefs of the schema; `Valid` is ygot's `Validate`. (Both validations
of the code check leafrefs with missing data being an error: it is the default of
`Validate()`, and `ValidateCrSpecDelete` spells it out.) Unreadable properties are the
value `Malformed`.

### State and actions of `SrlSystem`

| Variable | Code |
|---|---|
| `phase`, `spec`, `tref` | the resource in the API server: finalizer and deletion timestamp, `Spec.Properties.Raw`, `Spec.TargetReference` |
| `pass` | local variables of one reconcile pass: the fetched resource, the entry it read (`seen`), the request it is about to send (`req`) |
| `up`, `exhausted`, `gvk` | worker serving the target, `systemCfg.Cache.Exhausted # 0`, `systemCfg.Gvk` |
| `device` | the configuration the device runs |
| `copy` | the worker's copy of it, which `GetRunningConfig` returns (origin `Config`) |
| `late` | Set requests that timed out and may still be carried out |
| `faults` | history: which kinds of fault have happened. It is written only, no guard reads it; the properties name the faults they do not survive |
| `edits`, `mishaps` | counters for the bounds `MaxEdits`, `MaxMishaps` |

| Action | Code |
|---|---|
| `UserCreate`, `UserUpdate`, `UserRetarget`, `UserDelete` | commands through the API server, with the webhook's checks if it is declared for the group of the resource |
| `Fetch` | a pass starts: the resource is fetched and has a finalizer from now on |
| `Connect` | `connector.Connect`; the TargetUsage it writes is not read again and not kept |
| `GetSystemConfig` | `GetSystemConfig` and `GetCrStatus`: exhausted or pending ends the pass; deleting and gone leads to `RemoveFinalizer`; otherwise the pass goes on with the entry |
| `ReconcilerPanic` | a notification without update: `GetCrStatus` dereferences a nil `Cache`, the process dies with all its passes |
| `GetRunningConfig`, `GetRunningConfigNoUpdate` | `GetRunningConfig` with the validation and the diffs, on the worker's copy; a notification without update counts as an empty configuration |
| `Create`, `Update`, `Delete` | the Set of `externalDevice` |
| `SetTimesOut`, `LateSet` | the Set times out (10 s), and may take effect later |
| `PassFails` | any error return: the pass ends |
| `WorkerApply`, `WorkerReject` | the worker processes a pending entry; the device refuses dangling leafrefs, and anything else as a mishap |
| `Exhaust`, `Recover`, `WorkerRestart`, `StartTarget` | life of the worker; `StartTarget` reads the configuration of the device with `GetConfig` |
| `Resync` | the worker reads it again: only then does it learn what operators did |
| `DriftRemove`, `DriftChange` | an operator removes a leaf or list entry, or changes a leaf |

**External parts.** The managed reconciler (ndd-runtime), the worker's cache, gNMI
handlers and target controller, ygot and the API server are not in this repository. They
are modelled from how the code uses them:

* A pass fetches the resource and adds the finalizer, connects, asks for the status,
  then validates, computes the root paths from the fetched spec and, for a live
  resource, calls `Create` with the actual diff if there is no entry, `Update` with the
  spec diff if there is one, and otherwise `Update` with the actual diff if the device
  is not up to date. A nil answer means "not ready" and ends the pass.
* Resources have the lifecycle policies the CRD defaults to, `deletionPolicy: delete` and
  `deploymentPolicy: active` (`package/reconciler/crds/config.yndd.io_srlconfigs.yaml:61-69`).
  Only the library reads them. `GoneIsClean`, `ImplementsLifecycle` and the theorems about
  them hold for `delete`: with `orphan` the entry stays when the finalizer goes. `Converges`
  holds for `active`: a `planned` resource is not to reach the device.
* A `FAILED` entry is treated like a processed one: `GetCrStatus` computes `Failed` for the
  library, and no action reads it. If the library stops there instead, that is the step
  `PassFails`, which is always possible, so the safety properties cover both. The liveness
  properties lean on the library trying again after `FAILED`.
* The worker does not retry a `FAILED` entry by itself. `getGvkUpate` writes `Attempt` as 0
  and nothing in this repository reads it, so it is left out; a retry counter in the
  worker would soften finding 3.
* A nil answer of `GetSystemConfig` or `GetRunningConfig`, whatever error is behind it,
  ends the pass.
* Removing the finalizer carries the resource version, so a concurrent edit makes it fail.
* The worker applies a `CREATE` or `UPDATE` entry as one gNMI Set (deletes before
  updates) and a `DELETE` entry by deleting its root paths.
* The worker patches its copy with what it sends to the device, and reads it from the
  device with `GetConfig` when it starts to serve a target and again from time to time.
* `MergeStructInto` without `MergeOverwriteExistingFields` returns an error when a leaf
  has different values on both sides.

### State and actions of `DeviceWatcher`

| Variable | Code |
|---|---|
| `object` | identity, generation, deletion timestamp and finalizer of a resource in the API server |
| `stream`, `cached`, `inbox` | watch events under way; the informer's cache; calls of `queue.Add` the handlers have still to make |
| `dirty`, `processing`, `queue`, `delayed` | the work queue of client-go, and keys a timer will add |
| `job`, `stage` | what the workers (`MaxConcurrentReconciles`) are doing |
| `known`, `conflated` | history: the version a pass fetched last; the keys of which a relist hid a change |

`Deliver` applies the event filter (`IgnoreUpdateWithoutGenerationChangePredicate`) and
counts the Adds: one by the handler of `For`, one by `EnqueueRequestForAllDevice` for a
creation or deletion, two for an update. `HandlerAdd`, `TimerAdd`, `Get`, `Fetch`,
`Finalize`, `Requeue` and `Done` are the queue and the frame of a pass; `Relist` is a
broken watch, `Restart` a new process. After a relist an object that replaced another one
of the same name arrives as an update, and if both have the same generation the filter
drops it: the key is `conflated` until a pass fetches it. If the last pass of the old object
left a timer, that is the next poll. If it removed the finalizer there is no timer, and
the new object gets no pass until its next event or a restart. The properties,
`Polled` included, make an exception for such a key and for no other.

A pass reads the informer's cache, so it may work with an old version of the resource.
`SrlSystem.Fetch` takes the latest one. Nothing is lost by this: a pass never fetches an
older version than the pass before it (`FetchesInOrder`, proved as `FetchOrder`); an edit that a
pass does not see can be thought of as made after its fetch, since nothing but the two
writes of finalizers depends on it, and the API server refuses those for an old version
(`RemoveFinalizer` here, `Fetch` and `Finalize` in `DeviceWatcher`).

### State and actions of `GnmiPaths`

A path is a sequence of elements with a name and keys. `Init` takes any two specs of the
instance, any device, and the notification of `ygot.Diff`. `getUpdates` and `getPaths`
are the loops that shorten paths (`validatePath`) and fill the entry, an update at a time
and in any order, since Go does not fix it; the text of a path with several keys has more
than one spelling for the same reason. `ApplyDeletes` and `ApplyUpdate` are the device.

### State and actions of `Deployment`

`pc` is how far `RunE` of a process is: `NewRegistrator`, `StartController`, `NewManager`,
`StartManager`, then `Acquire` if `--leader-elect` is set. Any error return ends the
process and what it has in memory (`RunFails`, `LoseLease`); it is started again.
`StartController` of a worker is `tc.Start`: from then on it is `receiving`.
`TargetReconcile` announces targets on the worker's channel if their vendor type is the
expected one, `StartTarget` and `StopTarget` are the handlers given to
`targetcontroller.New` and run in a receiver only; `registered` is what `Connect` finds in
service discovery.

`StopsInTime` is the timing assumption of the election. client-go stops a holder that
cannot renew some seconds before its lease runs out, but nothing fences a process that is
stalled for longer. With the assumption, `Expire` waits for the holder to have stopped;
without it the lease can run out under an active holder, and `OneHolder` fails.

## 3. Runs

The instances of `SrlSystem` use four leaves: a list entry with the key leaf `key` and the
leaf `attr`, a leaf `ref` that is a leafref to `key`, and a leaf `sys` on its own. The one
of `pair` has two list entries, each with a leafref to the key of the other.

| Run | Instance | Shows |
|---|---|---|
| `one_cr` | 1 resource with 5 specs (grow, change, shrink, move, unreadable), 2 targets, 3 edits, 1 mishap of any kind | `TypeOK`, `NoOrphans`, `AppliedIsPresent`, `GoneIsClean`, `PendingNotOverwritten`, `ImplementsLifecycle` |
| `two_cr` | 2 resources on 1 target, one pointing at the other's entry, 4 edits, 1 mishap | `NoOrphans`, `AppliedIsPresent`, `OwnLeavesOnly` |
| `live` | 1 resource, 1 target, 3 edits, 1 mishap, fairness | `Converges`, `DeletionCompletes` |
| `pair` | 2 resources that can come to point at each other, 5 edits, fairness | `StuckDeletionIsReferred` |
| `watch` | 2 resources, 2 workers, 3 changes or restarts, fairness | `OnePassPerKey`, `NoLostWakeup`, `StaysScheduled`, `FetchesInOrder`, `EveryChangeSeen`, `Polled`, `ImplementsSchedule` |
| `paths` | all pairs of specs over nested lists, one with two keys, and all devices that matter | `AgreesWithLeafLevel`, `ReachesSpec` |
| `deploy` | 1 reconciler, 2 workers of which one is elected, a target of each vendor type, 3 changes, 2 failures, `StopsInTime`, fairness | `TypeOK`, `OneHolder`, `DiscoveryIsCurrent`, `BothRun` |
| `election` | 1 reconciler and 1 worker, both with leader election | violates `BothRun` |
| `retarget` | 1 resource, 2 targets, no mishap | violates `SingleTarget` |
| `drift` | 1 resource, 1 edit, 1 mishap, fairness | violates `DriftIsRepaired` |
| `refused` | 1 resource, 2 edits, 1 mishap, fairness | violates `RemovalIsRetried` |
| `malformed` | 1 resource, 3 edits, no mishap, fairness | violates `EveryDeletionCompletes` |

The properties:

* `NoOrphans`: a leaf on a device that was not there from the start belongs to an entry of
  the target's system cache. Does not survive a refused entry, a restart, a deletion that
  overtakes an edit (`unsyncedDelete`) and a late Set; it does survive retargeting,
  failing passes, panics, drift and answers without update.
* `AppliedIsPresent`: `SUCCESS` means that the device carries the recorded spec, although
  only diffs were sent. Needs resources that do not share list entries (`Disjoint`);
  survives restarts and retargeting.
* `GoneIsClean`: when a resource is gone, so are its entries, unless it was retargeted or a
  Set came late. It is about entries: what a lost cache leaves on the device is not covered.
* `PendingNotOverwritten`: a pending entry is processed, not replaced. Nothing is said once a
  Set was late, for that one replaces what it finds.
* `OwnLeavesOnly`: processing an entry changes only leaves of list entries its resource uses.
* `ImplementsLifecycle`: entries and finalizers follow `GvkLifecycle`. Requests and answers
  alternate, a resource is created where it has no entry, updates and deletes meet an
  answered entry (or none, once a cache was lost), and a finalizer goes when no target has
  an entry, or after a move. After a late Set nothing is promised.
* `StuckDeletionIsReferred`: a deletion that never ends is held up by a leafref into what
  it would remove, as it happens to both of two resources that point at each other;
  nothing else can hold it up for good. The instance has refusals of dangling leafrefs but
  no mishaps (one mishap makes the run too long); `DeletionCompletes` in `live` has those,
  late Sets included.
* `OnePassPerKey`, `NoLostWakeup`, `StaysScheduled`, `FetchesInOrder`, `EveryChangeSeen`,
  `Polled`: no two workers have the same key; a spec no pass has fetched is on its way to one
  without waiting for the poll; while the object the informer knows exists, an event, the
  queue, an unfinished pass or a timer leads to its next pass; no pass goes back to an older version than a pass before it;
  the last version is seen; a resource that stays gets passes for ever.
* `ImplementsSchedule`: together, with its fairness, the contract `PassSchedule`.
* `AgreesWithLeafLevel`, `ReachesSpec`: paths, texts and maps do to the device what
  `validateNotification` and `ApplySet` of `SrlData` say, which in turn brings the device
  from the recorded spec to the new one and keeps the rest, but for leaves in list entries
  that go.
* `OneHolder`, `DiscoveryIsCurrent`, `BothRun`: elected workers never share a target, given
  `StopsInTime`;
  service discovery ends up with the targets that exist and with workers that have them;
  both processes run their controllers again and again.
* `Converges`, `DeletionCompletes`: the spec of a live resource is on its device from
  some point on, unless one of the faults happened that leave cache and device in
  disagreement (`Untraced`); a deleted resource disappears.

Some hazards of `PROJECT.json` have no property, or one that covers a part of them; their
notes say so. Where the code does leave something behind or take something along (a delete
that overtakes an edit, a lost cache, list entries shared by two resources), the properties
name the case as an exception rather than hide it.

**Bounds.** Three edits are create, change and delete, or create, delete and create again
with the leftovers of the first life; with four, both resources can be created and one of
them edited and deleted. Each property breaks after a single fault of the kinds it
excludes, so one mishap is enough to show that the exclusions are needed; that the rest
does not depend on the bounds is what the proofs are for. Five edits in `pair` create both
resources, make the first one point back, and delete both. Three changes in `watch` cover
an edit and a deletion during the pass of a creation, a replacement of an object, and a
restart in between; two workers and two keys are needed to get one key twice. The two
failures of `deploy` let the lease go to the standby and come back. `CHECK_DEADLOCK FALSE`
is stated because the system rests when no user wants anything, a diff that is applied is
the end of `GnmiPaths`, and processes that run have nothing more to start.

**Fairness.** `Fetch` is weakly fair: errors are requeued, everything else is polled
(`managed.WithPollInterval`). The calls of a pass are strongly fair: any of them may fail
any number of times, but one that is tried again forever succeeds infinitely often. The
worker processes pending entries, comes back after a restart, and an exhausted cache
recovers and reads the device again. Users, mishaps and failures need never happen. In
`DeviceWatcher` events are delivered, handlers, workers and timers run, and a pass ends;
that passes start forever there (`Polled`) is what justifies the fairness of `Fetch` here.
In `Deployment` processes are started again, and leases and registrations run out.

**Findings.** The five runs that violate a property show where the code does not do what
the repository says of it; `PROJECT.json` quotes both sides.

1. *Retargeting* leaves the old target's entry and configuration behind.
2. *Drift of a value* is not repaired: the merge in `GetCrActualDiff` has no overwrite
   option, unlike the one in `ValidateCrSpecUpdate`.
3. *A refused removal* is not retried, since the entry records the new spec when the
   change is requested, not when it is applied. (Assumes that the worker does not try
   `FAILED` entries again by itself.)
4. *Unreadable properties* make a resource undeletable. The webhook would refuse them,
   but it is declared for another API group. (The package also asks ndd-core for a webhook,
   `package/reconciler/ndd.yaml:40`; what ndd-core makes of that is outside the repository.)
5. *One lease for two commands*: reconciler and worker name the same leader election id
   and run in one namespace. With `--leader-elect` for both, only one of them ever works.

## 4. Proofs

`SrlSystemProofs` proves for every set of resources, targets, leaves and specs, every
schema and all bounds, from the named assumptions of the modules (`EntryAssumption`: list
entries nest; `DataAssumption`; `NoGvkAssumption`; `SystemAssumption`: there is a target,
users submit configurations that carry the keys of their list entries, or unreadable
ones):

* `TypeCorrect`: `Spec => []TypeOK`. The strengthening `SetHoldsRequest` says that a pass
  about to Set holds a pending request, without which `Push` could write anything.
  `RequestType` shows that the decisions of a pass give an entry only for readable specs.
* `PendingSafe`: `Spec => PendingNotOverwritten`, from `SnapshotInv`: as long as no Set is
  late, the entry a pass has read is still there when it writes, or a restart took it,
  and it is not pending.
* `GoneClean`: `Spec => []GoneIsClean`, from `HomeInv`: no pass without finalizer, entries
  only at the target referred to, no entry when the finalizer is about to go.
* `NothingOrphaned`: `Spec => []NoOrphans`. `OrphanInv` adds that entries set only leaves
  of the spec they record (`Sound`; for the actual diff this needs specs with keys,
  `ActualDiffLeaves`), that a request answers for every leaf of the entry it replaces
  (`Succeeds`, from `SpecDiffLeaves`), and that a processed DELETE is gone. With
  `SnapshotInv` the entry replaced is the one the request was derived from.

`SrlOwnershipProofs` proves from the same assumptions:

* `OwnLeaves`: `Spec => OwnLeavesOnly`. `OwnInv` says that everything in flight (the spec a
  pass has fetched, the entry it has seen, its request, the entries of the caches, late
  requests) stays in the territory of its resource, root paths and shortened deletes
  included. It holds whatever fails, since a request is made of specs and entries of its own
  resource only (`SpecInTerritory`, and the diffs).
* `SuccessIsTrue`: `Spec => []AppliedIsPresent`. An entry that is answered is true of the
  device (`Truthful`); one that is pending will be true once it is processed (`WillHold`),
  since its diff was computed against the entry it replaces, and that one was true, or
  against the worker's copy, which is like the device while no operator interferes; a
  request in the hands of a pass will be, as long as the entry it was derived from stands
  (`SnapshotInv`). That another resource does not undo this is `OwnInv` with `Disjoint`.

`SrlLifecycleProofs` proves `LifecycleImplemented`: `Spec => ImplementsLifecycle`, from the
same assumptions. `SnapshotInv` says which entry a Set meets, `HomeInv` that a pass runs
only with a finalizer and that none is left when it goes; the new part, `AskInv`, says that
a pass asks for a creation exactly if it has seen no entry (`RequestAction`). Each action
then maps to one of the abstract specification or to a stutter (`LifecycleUser`,
`LifecyclePass`, `LifecycleWorker`); `FaultsGrow` lets everything after a late Set pass.

`DeviceWatcherProofs` proves for any number of resources, workers and changes, from
`WatcherAssumption`:

* `OnePass`, `WakeupKept`: `OnePassPerKey` and `NoLostWakeup` are invariants. `QueueInv` describes the work queue: a key waits at most once, it waits exactly
  if it is dirty and has no pass, and the keys being processed are those the workers hold,
  each held by one. `ChainInv` says that the events on their way lead from the informer's
  version to the API server's without going straight from one object to another of the same
  name; without it the event filter could drop a replacement of the same generation.
  `WakeInv` is `NoLostWakeup` in terms of dirty keys.
* `FetchOrder`: `Spec => FetchesInOrder`. What passes fetched, what the informer has, what
  is on its way and what the API server has are sorted (`OrderInv`).
* `LoopKept`: `Spec => []StaysScheduled`. `LoopInv` does not count a pass that is over, so
  `Done` needs what that pass left. A new object under an old name has a larger uid than
  the one the informer knows (`OrderInv`), and reaches it through a deletion event
  (`ChainInv`) or as a relist that is either let through by the filter or conflated.
* `ScheduleKept`: `Spec => Schedule!Spec`, the safety part of `ImplementsSchedule`. A `Fetch`
  begins a pass and takes away what is due, `Done` ends it, an event changes what is due of
  its own key; `OnePass` gives that no other pass of the key runs. The exception for
  conflated keys has to be made per key: with one flag for all of them, a relist would take
  away what is due of unrelated keys, which no single step of `PassSchedule` does.

`GnmiPathsProofs` proves for every schema, all specs, every device and every order of the
maps, from `PathAssumption` (leaves are paths, nothing is below a leaf, the key leaves are
those named by the element before) and `LeafLevelAssumption`:

* `EntryAgrees`: `Spec => []AgreesWithLeafLevel`. `PathInv` says that the entry is made of the
  diff (`DiffInv`, `TextInv`) and that, once the deletes are carried out, every leaf has its
  final value unless an update that touches it is still to come (`DeviceInv`). `TouchFacts`
  is the heart: an update with the shortened path of a leaf touches exactly the leaves in
  whose list entry that leaf is. Two texts with one path carry the same value, so neither
  their order nor one replacing the other matters.
* `EntryReaches`: `Spec => []ReachesSpec`, from the same invariant.
* `EntriesNest`: schemas of paths meet `EntryAssumption`, from which the theorems about
  `SrlSystem` start.

`DeploymentProofs` proves for any number of processes and targets, from
`DeploymentAssumption`:

* `DeploymentTyped`: `Spec => []TypeOK`, with `ChannelSrl` (only targets of the expected
  vendor type are announced), without which a handler could start any target.
* `HoldersDisjoint`: `Spec => []OneHolder`, assuming `StopsInTime`. A process that takes part in the election and
  is active holds the lease, and one that is not active has nothing in memory
  (`MemoryInv`).

Every invariant and every action property that a passing run checks is proved. Model-checked
only are the liveness properties `Converges`, `DeletionCompletes`, `StuckDeletionIsReferred`,
`EveryChangeSeen`, `Polled`, `DiscoveryIsCurrent`, `BothRun` and the fairness in
`ImplementsSchedule`: they rest on fairness and `ENABLED`, which are out of the prover's reach.

## 5. Not modelled, and plan

Not modelled:

* `Discover`, `GNMICap` and `GNMIGet` of the SR Linux target and the set-up of its gNMI
  connection: each hands on one answer of the device and keeps no state; their callers
  are in another repository.
* The controller registry (it iterates over an empty list, and nothing calls it), the
  intent helper (an entry point for other repositories), label and condition accessors of
  the API types, generated code.
* The lifecycle policies `orphan` and `planned`, and the TargetUsage that `Connect` writes.
* Flag parsing, scheme registration, health checks, logging, events and status conditions.
* A standby worker behind the Service when service discovery is off: its gRPC server runs
  before it is elected, and what it answers for a target it does not have is code of
  another repository.
* The text of paths and JSON beyond what `GnmiPaths` says.

What is left: the safety facts the liveness properties lean on, such as that a pass which is
under way always has a next step, could be stated and proved on their own.
