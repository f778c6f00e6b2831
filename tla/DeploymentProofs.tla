-------------------------- MODULE DeploymentProofs --------------------------
(***************************************************************************)
(* Theorems about Deployment for any number of processes and targets, any  *)
(* setting of the flags, and any number of failures.                       *)
(***************************************************************************)
EXTENDS Deployment, TLAPS

(***************************************************************************)
(* Every step leaves the state well typed; that only targets of the        *)
(* expected vendor type are started rests on what is on the channel.       *)
(***************************************************************************)
ChannelSrl == \A w \in Worker : channel[w] \subseteq Op \X Srl

TypeInv == TypeOK /\ ChannelSrl

(* The initial state is well typed.                                        *)
LEMMA TypeInit == Init => TypeInv
  BY DeploymentAssumption DEF Init, TypeInv, TypeOK, ChannelSrl, Pc

(* Starting, failing and losing the lease keep the types.                  *)
LEMMA TypeRun ==
  ASSUME TypeInv, NEW p \in Proc, RunStep(p) \/ RunFails(p) \/ LoseLease(p)
  PROVE  TypeInv'
  <1>1. CASE RunStep(p)
    BY <1>1 DEF RunStep, NewRegistrator, StartController, NewManager, StartManager, Acquire,
                Step, TypeInv, TypeOK, ChannelSrl, Pc
  <1>2. ASSUME Exit(p), Mishap
        PROVE  TypeInv'
    <2>1. mishaps' \in 0..MaxMishaps
      BY <1>2, DeploymentAssumption DEF Mishap, TypeInv, TypeOK
    <2>2. channel' \in [Worker -> SUBSET (Op \X Target)] /\ held' \in [Worker -> SUBSET Srl]
      BY <1>2 DEF Exit, TypeInv, TypeOK
    <2>3. ChannelSrl'
      BY <1>2 DEF Exit, TypeInv, ChannelSrl
    <2>. QED
      BY <1>2, <2>1, <2>2, <2>3 DEF Exit, TypeInv, TypeOK, Pc
  <1>. QED
    BY <1>1, <1>2 DEF RunFails, LoseLease

(* So do users, the target controller and its handlers.                    *)
LEMMA TypeTarget ==
  ASSUME TypeInv, NEW t \in Target,
         UserTarget(t) \/ \E w \in Worker : TargetStep(w, t)
  PROVE  TypeInv'
  <1>1. CASE UserTarget(t)
    BY <1>1, DeploymentAssumption DEF UserTarget, TypeInv, TypeOK, ChannelSrl
  <1>2. ASSUME NEW w \in Worker, TargetReconcile(w, t)
        PROVE  TypeInv'
    <2>1. t \in Srl /\ channel' = [channel EXCEPT ![w] =
                                     {<<IF t \in targets THEN "start" ELSE "stop", t>>}]
      BY <1>2 DEF TargetReconcile
    <2>2. ChannelSrl'
      BY <2>1 DEF TypeInv, TypeOK, ChannelSrl, Op
    <2>3. channel' \in [Worker -> SUBSET (Op \X Target)]
      BY <2>1 DEF TypeInv, TypeOK, Op
    <2>. QED
      BY <1>2, <2>2, <2>3 DEF TargetReconcile, TypeInv, TypeOK
  <1>3. ASSUME NEW w \in Worker, StartTarget(w, t)
        PROVE  TypeInv'
    <2>1. t \in Srl
      BY <1>3 DEF StartTarget, TypeInv, ChannelSrl
    <2>. QED
      BY <1>3, <2>1 DEF StartTarget, TypeInv, TypeOK, ChannelSrl
  <1>4. ASSUME NEW w \in Worker, StopTarget(w, t) \/ Deregister(w, t)
        PROVE  TypeInv'
    BY <1>4 DEF StopTarget, Deregister, TypeInv, TypeOK, ChannelSrl
  <1>. QED
    BY <1>1, <1>2, <1>3, <1>4 DEF TargetStep

(* No step leaves the types.                                               *)
LEMMA TypeStep == TypeInv /\ [Next]_vars => TypeInv'
  <1>. SUFFICES ASSUME TypeInv, [Next]_vars
                PROVE  TypeInv'
    OBVIOUS
  <1>1. CASE Expire
    BY <1>1 DEF Expire, TypeInv, TypeOK, ChannelSrl
  <1>2. CASE UNCHANGED vars
    BY <1>2 DEF vars, TypeInv, TypeOK, ChannelSrl
  <1>. QED
    BY <1>1, <1>2, TypeRun, TypeTarget DEF Next

(***************************************************************************)
(* TypeOK holds in every reachable state: in particular no worker starts a *)
(* target of another vendor, whatever is created, deleted or restarted.    *)
(***************************************************************************)
THEOREM DeploymentTyped == Spec => []TypeOK
  <1>1. TypeInv => TypeOK
    BY DEF TypeInv
  <1>. QED
    BY <1>1, TypeInit, TypeStep, PTL DEF Spec

-----------------------------------------------------------------------------
(***************************************************************************)
(* An elected process that is active holds the lease, and a worker has     *)
(* targets only while it is active: an exit takes both away at once.       *)
(***************************************************************************)
LeaseInv == \A p \in Proc : enableLeaderElection[p] /\ pc[p] = "active" => lease = p

MemoryInv == \A w \in Worker : held[w] # {} \/ channel[w] # {} => pc[w] = "active"

HolderInv == LeaseInv /\ MemoryInv

(* RunE makes an elected process active only when it gets the lease.       *)
LEMMA HolderRun ==
  ASSUME TypeInv, HolderInv, NEW p \in Proc, RunStep(p)
  PROVE  HolderInv'
  <1>. USE DeploymentAssumption
  <1>1. CASE NewRegistrator(p) \/ StartController(p) \/ NewManager(p)
    BY <1>1 DEF NewRegistrator, StartController, NewManager, Step, HolderInv, LeaseInv, MemoryInv,
                TypeInv, TypeOK, Proc
  <1>2. CASE StartManager(p)
    BY <1>2 DEF StartManager, Step, HolderInv, LeaseInv, MemoryInv, TypeInv, TypeOK, Proc
  <1>3. CASE Acquire(p)
    BY <1>3 DEF Acquire, Step, HolderInv, LeaseInv, MemoryInv, TypeInv, TypeOK, Proc
  <1>. QED
    BY <1>1, <1>2, <1>3 DEF RunStep

(* A process that exits is not active and has nothing in memory.           *)
LEMMA HolderExit ==
  ASSUME TypeInv, HolderInv, NEW p \in Proc, Exit(p)
  PROVE  HolderInv'
  <1>1. LeaseInv'
    BY DEF Exit, HolderInv, LeaseInv, TypeInv, TypeOK
  <1>2. MemoryInv'
    BY DEF Exit, HolderInv, MemoryInv, TypeInv, TypeOK, Proc
  <1>. QED
    BY <1>1, <1>2 DEF HolderInv

(* Targets are announced, started and stopped in active processes only.    *)
LEMMA HolderTarget ==
  ASSUME TypeInv, HolderInv, NEW w \in Worker, NEW t \in Target, TargetStep(w, t)
  PROVE  HolderInv'
  <1>1. UNCHANGED <<pc, lease>>
    BY DEF TargetStep, TargetReconcile, StartTarget, StopTarget, Deregister
  <1>2. \A v \in Worker : v # w => held'[v] = held[v] /\ channel'[v] = channel[v]
    BY DEF TargetStep, TargetReconcile, StartTarget, StopTarget, Deregister, TypeInv, TypeOK
  <1>3. pc[w] = "active" \/ (held' = held /\ channel' = channel)
    BY DEF TargetStep, TargetReconcile, StartTarget, StopTarget, Deregister, HolderInv, MemoryInv
  <1>. QED
    BY <1>1, <1>2, <1>3 DEF HolderInv, LeaseInv, MemoryInv

(* No step breaks the invariant, as long as no lease runs out under a      *)
(* holder that is still active.                                            *)
LEMMA HolderStep == StopsInTime /\ TypeInv /\ HolderInv /\ [Next]_vars => HolderInv'
  <1>. SUFFICES ASSUME StopsInTime, TypeInv, HolderInv, [Next]_vars
                PROVE  HolderInv'
    OBVIOUS
  <1>1. CASE Expire
    BY <1>1 DEF Expire, HolderInv, LeaseInv, MemoryInv
  <1>2. ASSUME NEW t \in Target, UserTarget(t)
        PROVE  HolderInv'
    BY <1>2 DEF UserTarget, HolderInv, LeaseInv, MemoryInv
  <1>3. CASE UNCHANGED vars
    BY <1>3 DEF vars, HolderInv, LeaseInv, MemoryInv
  <1>. QED
    BY <1>1, <1>2, <1>3, HolderRun, HolderExit, HolderTarget DEF Next, RunFails, LoseLease

(***************************************************************************)
(* OneHolder: two workers that take part in the election never have the    *)
(* same target started.  The theorem rests on the timing of the election:  *)
(* a holder that does not renew has stopped when its lease runs out.       *)
(***************************************************************************)
THEOREM HoldersDisjoint ==
  ASSUME StopsInTime
  PROVE  Spec => []OneHolder
  <1>1. Init => HolderInv
    BY DeploymentAssumption DEF Init, HolderInv, LeaseInv, MemoryInv, Proc
  <1>2. HolderInv => OneHolder
    BY DEF HolderInv, LeaseInv, MemoryInv, OneHolder, Proc
  <1>3. TypeInv /\ HolderInv /\ [Next]_vars => HolderInv'
    BY HolderStep
  <1>. QED
    BY <1>1, <1>2, <1>3, TypeInit, TypeStep, PTL DEF Spec
=============================================================================
