----------------------------- MODULE Deployment -----------------------------
(***************************************************************************)
(* The processes of the provider: how reconciler and worker start (the     *)
(* RunE of the two start commands), the leader election lease that both    *)
(* name in their manager's options, and the way of a Target resource to a  *)
(* worker: the target controller announces it on the target channel, the   *)
(* handlers given to targetcontroller.New start and stop it, and service   *)
(* discovery tells the reconciler's Connect which worker has it.           *)
(*                                                                         *)
(* An error that RunE returns ends the process (Execute calls os.Exit) and *)
(* everything it had in memory; the statefulset starts it again.  Manager, *)
(* lease and discovery are libraries and services.                         *)
(***************************************************************************)
EXTENDS Naturals

CONSTANTS
  Reconciler, Worker,   \* the processes
  NoProc,               \* nobody holds the lease
  Target,               \* Target resources
  Srl,                  \* those of vendor type nokia-srl
  enableLeaderElection, \* [Proc -> BOOLEAN]: the flag of each command
  StopsInTime,          \* a holder stops before its lease runs out, see Expire
  MaxChanges,           \* bound on creations and deletions of targets
  MaxMishaps            \* bound on processes that fail

Proc == Reconciler \cup Worker

ASSUME DeploymentAssumption ==
  /\ Reconciler \cap Worker = {} /\ NoProc \notin Proc
  /\ Srl \subseteq Target
  /\ enableLeaderElection \in [Proc -> BOOLEAN]
  /\ StopsInTime \in BOOLEAN
  /\ MaxChanges \in Nat /\ MaxMishaps \in Nat

VARIABLES
  pc,          \* [Proc -> Pc]: how far RunE is
  lease,       \* the holder of "c66ce353.ndd.yndd.io"
  targets,     \* the Target resources that exist
  receiving,   \* the workers that read the target channel
  channel,     \* [Worker -> SUBSET (Op \X Target)]: the target channel, see TargetReconcile
  held,        \* [Worker -> SUBSET Target]: the targets it has started
  registered,  \* service discovery: a set of pairs <<worker, target>>
  changes, mishaps   \* counters for the bounds

vars == <<pc, lease, targets, receiving, channel, held, registered, changes, mishaps>>

Pc == {"down", "registrator", "controller", "manager", "waiting", "active"}

Op == {"start", "stop"}

Init ==
  /\ pc = [p \in Proc |-> "down"]
  /\ lease = NoProc
  /\ targets = {}
  /\ receiving = {}
  /\ channel = [w \in Worker |-> {}]
  /\ held = [w \in Worker |-> {}]
  /\ registered = {}
  /\ changes = 0 /\ mishaps = 0

-----------------------------------------------------------------------------
(***************************************************************************)
(* RunE, step by step.                                                     *)
(***************************************************************************)
Step(p, from, to) ==
  /\ pc[p] = from
  /\ pc' = [pc EXCEPT ![p] = to]
  /\ UNCHANGED <<targets, channel, held, registered, changes, mishaps>>

NewRegistrator(p) == Step(p, "down", "registrator") /\ UNCHANGED <<lease, receiving>>

StartController_AfterManager(p) ==   \* faulty: tc.Start is left to after mgr.Start, which blocks
  Step(p, "registrator", "controller") /\ UNCHANGED <<lease, receiving>>

(* rc.Start in the reconciler; in the worker tc.Start, with the gRPC       *)
(* server and the receiver of the target channel.                          *)
StartController(p) ==
  /\ Step(p, "registrator", "controller")
  /\ receiving' = receiving \cup ({p} \cap Worker)
  /\ UNCHANGED lease

(* NewManager, Setup of the controllers, the webhook and the checks.       *)
NewManager(p) == Step(p, "controller", "manager") /\ UNCHANGED <<lease, receiving>>

StartManager_Elects(p) ==   \* faulty: always takes part in the election
  Step(p, "manager", "waiting") /\ UNCHANGED <<lease, receiving>>

(* mgr.Start: the controllers of the manager run at once, or when the      *)
(* process is elected.                                                     *)
StartManager(p) ==
  /\ Step(p, "manager", IF enableLeaderElection[p] THEN "waiting" ELSE "active")
  /\ UNCHANGED <<lease, receiving>>

Acquire(p) ==
  /\ lease = NoProc
  /\ lease' = p
  /\ Step(p, "waiting", "active")
  /\ UNCHANGED receiving

(***************************************************************************)
(* A holder that does not renew the lease keeps it until it runs out.      *)
(* That it has given up by then (see LoseLease) is an assumption about     *)
(* time: client-go stops renewing some seconds before the lease ends, but  *)
(* nothing fences a holder that is stalled meanwhile or whose clock is     *)
(* slow.  Without the assumption the lease can run out under it.           *)
(***************************************************************************)
Expire ==
  /\ lease # NoProc
  /\ StopsInTime => pc[lease] # "active"
  /\ lease' = NoProc
  /\ UNCHANGED <<pc, targets, receiving, channel, held, registered, changes, mishaps>>

Mishap == mishaps < MaxMishaps /\ mishaps' = mishaps + 1

Exit(p) ==
  /\ pc' = [pc EXCEPT ![p] = "down"]
  /\ receiving' = receiving \ {p}
  /\ channel' = [w \in Worker |-> IF w = p THEN {} ELSE channel[w]]
  /\ held' = [w \in Worker |-> IF w = p THEN {} ELSE held[w]]
  /\ UNCHANGED <<lease, targets, registered, changes>>

(* One of the calls of RunE returns an error, or the process crashes.      *)
RunFails(p) ==
  /\ Mishap
  /\ pc[p] # "down"
  /\ Exit(p)

LoseLease_KeepsRunning(p) ==   \* faulty: goes back to wait for the lease
  /\ Mishap
  /\ enableLeaderElection[p] /\ pc[p] = "active"
  /\ pc' = [pc EXCEPT ![p] = "waiting"]
  /\ UNCHANGED <<lease, targets, receiving, channel, held, registered, changes>>

(* The lease could not be renewed, or is another's: mgr.Start returns an   *)
(* error.                                                                  *)
LoseLease(p) ==
  /\ Mishap
  /\ enableLeaderElection[p] /\ pc[p] = "active"
  /\ Exit(p)

-----------------------------------------------------------------------------
UserTarget(t) ==
  /\ changes < MaxChanges
  /\ changes' = changes + 1
  /\ targets' = IF t \in targets THEN targets \ {t} ELSE targets \cup {t}
  /\ UNCHANGED <<pc, lease, receiving, channel, held, registered, mishaps>>

TargetReconcile_AnyVendor(w, t) ==   \* faulty: without the expected vendor type
  /\ pc[w] = "active"
  /\ channel[w] = {}
  /\ t \in targets <=> t \notin held[w]
  /\ channel' = [channel EXCEPT ![w] = {<<IF t \in targets THEN "start" ELSE "stop", t>>}]
  /\ UNCHANGED <<pc, lease, targets, receiving, held, registered, changes, mishaps>>

(***************************************************************************)
(* The target controller, in a manager that is active: a Target of the     *)
(* expected vendor type that is new or gone is announced on the channel.   *)
(* The channel has no buffer.                                              *)
(***************************************************************************)
TargetReconcile(w, t) ==
  /\ pc[w] = "active"
  /\ t \in Srl
  /\ channel[w] = {}
  /\ t \in targets <=> t \notin held[w]
  /\ channel' = [channel EXCEPT ![w] = {<<IF t \in targets THEN "start" ELSE "stop", t>>}]
  /\ UNCHANGED <<pc, lease, targets, receiving, held, registered, changes, mishaps>>

(* The receiver, once tc.Start has started it: cth.StartTarget and         *)
(* cth.StopTarget.                                                         *)
StartTarget(w, t) ==
  /\ w \in receiving
  /\ <<"start", t>> \in channel[w]
  /\ channel' = [channel EXCEPT ![w] = {}]
  /\ held' = [held EXCEPT ![w] = @ \cup {t}]
  /\ registered' = registered \cup {<<w, t>>}
  /\ UNCHANGED <<pc, lease, targets, receiving, changes, mishaps>>

StopTarget_NoHandler(w, t) ==   \* faulty: SetStopTargetHandler is missing
  /\ w \in receiving
  /\ <<"stop", t>> \in channel[w]
  /\ channel' = [channel EXCEPT ![w] = {}]
  /\ UNCHANGED <<pc, lease, targets, receiving, held, registered, changes, mishaps>>

StopTarget(w, t) ==
  /\ w \in receiving
  /\ <<"stop", t>> \in channel[w]
  /\ channel' = [channel EXCEPT ![w] = {}]
  /\ held' = [held EXCEPT ![w] = @ \ {t}]
  /\ registered' = registered \ {<<w, t>>}
  /\ UNCHANGED <<pc, lease, targets, receiving, changes, mishaps>>

(* What a process that died has registered runs out.                       *)
Deregister(w, t) ==
  /\ <<w, t>> \in registered /\ t \notin held[w]
  /\ registered' = registered \ {<<w, t>>}
  /\ UNCHANGED <<pc, lease, targets, receiving, channel, held, changes, mishaps>>

-----------------------------------------------------------------------------
RunStep(p) ==
  \/ NewRegistrator(p) \/ StartController(p) \/ NewManager(p) \/ StartManager(p)
  \/ Acquire(p)

TargetStep(w, t) ==
  TargetReconcile(w, t) \/ StartTarget(w, t) \/ StopTarget(w, t) \/ Deregister(w, t)

Next ==
  \/ Expire
  \/ \E p \in Proc : RunStep(p) \/ RunFails(p) \/ LoseLease(p)
  \/ \E t \in Target : UserTarget(t) \/ \E w \in Worker : TargetStep(w, t)

Spec == Init /\ [][Next]_vars

(***************************************************************************)
(* Processes run and are started again, leases and registrations run out;  *)
(* users and mishaps need not come.                                        *)
(***************************************************************************)
Fairness ==
  /\ WF_vars(Expire)
  /\ \A p \in Proc : WF_vars(RunStep(p))
  /\ \A w \in Worker, t \in Target : WF_vars(TargetStep(w, t))

FairSpec == Spec /\ Fairness

-----------------------------------------------------------------------------
(***************************************************************************)
(* The type invariant: only targets of the expected vendor type are        *)
(* started and registered.                                                 *)
(***************************************************************************)
TypeOK ==
  /\ pc \in [Proc -> Pc]
  /\ lease \in Proc \cup {NoProc}
  /\ targets \subseteq Target
  /\ receiving \subseteq Worker
  /\ channel \in [Worker -> SUBSET (Op \X Target)]
  /\ held \in [Worker -> SUBSET Srl]
  /\ registered \subseteq Worker \X Srl
  /\ changes \in 0..MaxChanges /\ mishaps \in 0..MaxMishaps

(***************************************************************************)
(* With leader election no two workers have the same target started, also  *)
(* while the lease changes hands: a worker that loses it is gone, with its *)
(* targets, before another one gets it.  This is as good as the timing of  *)
(* the election: it needs StopsInTime.                                     *)
(***************************************************************************)
OneHolder ==
  \A v, w \in Worker :
    v # w /\ enableLeaderElection[v] /\ enableLeaderElection[w] => held[v] \cap held[w] = {}

(***************************************************************************)
(* Once users and mishaps stop, service discovery names a worker for the   *)
(* SR Linux targets that exist and for no other one, and the worker it     *)
(* names has the target started: Connect gets where it wants to.  For this *)
(* RunE has to start the receiver before the manager that feeds it.        *)
(***************************************************************************)
DiscoveryIsCurrent ==
  <>[](/\ \A t \in Target : t \in targets \cap Srl <=> \E w \in Worker : <<w, t>> \in registered
       /\ \A wt \in registered : wt[2] \in held[wt[1]])

(***************************************************************************)
(* Both commands get their controllers to run, and to run again: specs     *)
(* are reconciled and checked for drift, targets are started.              *)
(***************************************************************************)
BothRun == \A S \in {Reconciler, Worker} : []<>(\E p \in S : pc[p] = "active")
=============================================================================
