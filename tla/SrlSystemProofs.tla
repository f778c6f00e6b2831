--------------------------- MODULE SrlSystemProofs ---------------------------
(***************************************************************************)
(* Theorems about SrlSystem for any number of resources, targets, specs,   *)
(* edits and mishaps.                                                      *)
(***************************************************************************)
EXTENDS SrlSystem, SrlValidatorProofs

(***************************************************************************)
(* Type correctness is not inductive as it stands: the entry that Push     *)
(* writes is one only because a pass at "set" holds a request.             *)
(***************************************************************************)
SetHoldsRequest ==
  \A c \in Cr : pass[c].pc = "set" => pass[c].req \in Gvk /\ pass[c].req.status = "PENDING"

TypeInv == TypeOK /\ SetHoldsRequest

USE DEF Raw

(***************************************************************************)
(* There is a target to start with, and the idle pass is a pass.           *)
(***************************************************************************)
LEMMA IdlePassType == AnyTarget \in Target /\ IdlePass \in Pass /\ IdlePass.pc = "idle"
  <1>1. AnyTarget \in Target
    BY SystemAssumption DEF AnyTarget
  <1>. QED
    BY <1>1, EmptyCfgFacts DEF IdlePass, Pass, PC, Phase

(***************************************************************************)
(* What a pass decides to write is a pending entry, or nothing.            *)
(***************************************************************************)
LEMMA RequestType ==
  ASSUME NEW p \in Pass, NEW running \in Cfg
  PROVE  /\ Request(p, running) \in Gvk \cup {NoGvk}
         /\ Request(p, running) # NoGvk => Request(p, running).status = "PENDING"
  <1>. DEFINE OK(e) == e \in Gvk \cup {NoGvk} /\ (e # NoGvk => e.status = "PENDING")
  <1>1. p.spec \in Cfg \/ ~Parses(p.spec)
    BY DEF Pass, Parses
  <1>2. p.seen \in Gvk \cup {NoGvk}
    BY DEF Pass
  <1>3. OK(DeleteRequest(p, running))
    <2>1. CASE ValidateCrSpecDelete(p.spec, running)
      <3>1. p.spec \in Cfg
        BY <1>1, <2>1 DEF ValidateCrSpecDelete
      <3>. QED
        BY <2>1, <3>1, <1>2, ObservationType, GvkType DEF DeleteRequest, Action
    <2>. QED
      BY <2>1 DEF DeleteRequest
  <1>4. ASSUME p.spec \in Cfg, NEW action \in Action
        PROVE  OK(DriftRequest(p, running, action))
    BY <1>4, <1>2, ObservationType, GvkType DEF DriftRequest
  <1>5. ASSUME p.spec \in Cfg
        PROVE  OK(SpecRequest(p))
    BY <1>5, <1>2, ObservationType, GvkType DEF SpecRequest, Action
  <1>6. OK(LiveRequest(p, running))
    <2>1. CASE ValidateCrSpecUpdate(p.spec, running)
      <3>1. p.spec \in Cfg
        BY <1>1, <2>1 DEF ValidateCrSpecUpdate
      <3>2. "CREATE" \in Action /\ "UPDATE" \in Action
        BY DEF Action
      <3>3. LiveRequest(p, running) \in
              {DriftRequest(p, running, "CREATE"), SpecRequest(p),
               DriftRequest(p, running, "UPDATE"), NoGvk}
        BY DEF LiveRequest
      <3>. HIDE DEF OK
      <3>4. OK(NoGvk)
        BY DEF OK
      <3>. QED
        BY <3>1, <3>2, <3>3, <3>4, <1>4, <1>5
    <2>2. CASE ~ValidateCrSpecUpdate(p.spec, running)
      <3>1. LiveRequest(p, running) = NoGvk
        BY <2>2 DEF LiveRequest
      <3>. QED
        BY <3>1
    <2>. QED
      BY <2>1, <2>2
  <1>. QED
    BY <1>3, <1>6 DEF Request

(***************************************************************************)
(* The initial state is well typed.                                        *)
(***************************************************************************)
LEMMA TypeInit == Init => TypeInv
  <1>. SUFFICES ASSUME Init PROVE TypeInv
    OBVIOUS
  <1>1. TypeOK
    BY IdlePassType, EmptyCfgFacts, SystemAssumption
    DEF Init, TypeOK, Phase, FaultKind
  <1>2. SetHoldsRequest
    BY IdlePassType DEF Init, SetHoldsRequest
  <1>. QED
    BY <1>1, <1>2 DEF TypeInv

(***************************************************************************)
(* Ending a pass, and what a pass decides, keep passes well typed.         *)
(***************************************************************************)
LEMMA EndPassType ==
  ASSUME TypeInv, NEW c \in Cr, EndPass(c)
  PROVE  pass' \in [Cr -> Pass] /\ SetHoldsRequest'
  BY IdlePassType DEF EndPass, TypeInv, TypeOK, SetHoldsRequest

(***************************************************************************)
(* What GetRunningConfig decides keeps the pass well typed, and a pass     *)
(* that goes on to Set holds a request.                                    *)
(***************************************************************************)
LEMMA DecideType ==
  ASSUME TypeInv, NEW c \in Cr, NEW running \in Cfg, Decide(c, running)
  PROVE  pass' \in [Cr -> Pass] /\ SetHoldsRequest'
  <1>. DEFINE req == Request(pass[c], running)
  <1>1. pass[c] \in Pass
    BY DEF TypeInv, TypeOK
  <1>2. CASE req = NoGvk
    BY <1>2, EndPassType DEF Decide
  <1>3. CASE req # NoGvk
    <2>1. req \in Gvk /\ req.status = "PENDING"
      BY <1>1, <1>3, RequestType
    <2>2. pass' = [pass EXCEPT ![c] = [@ EXCEPT !.pc = "set", !.req = req]]
      BY <1>3 DEF Decide
    <2>. HIDE DEF req
    <2>3. [pass[c] EXCEPT !.pc = "set", !.req = req] \in Pass
      BY <1>1, <2>1 DEF Pass, PC
    <2>. QED
      BY <2>1, <2>2, <2>3, <1>1 DEF TypeInv, TypeOK, SetHoldsRequest, Pass
  <1>. QED
    BY <1>2, <1>3

(***************************************************************************)
(* Users keep the types.                                                   *)
(***************************************************************************)
LEMMA TypeUser ==
  ASSUME TypeInv, NEW c \in Cr, UserStep(c)
  PROVE  TypeInv'
  <1>. USE SystemAssumption DEF TypeInv, TypeOK, SetHoldsRequest, Edit, workerVars
  <1>1. CASE UserCreate(c)
    BY <1>1 DEF UserCreate, Phase
  <1>2. CASE UserUpdate(c)
    BY <1>2 DEF UserUpdate
  <1>3. CASE UserRetarget(c)
    BY <1>3 DEF UserRetarget, FaultKind
  <1>4. CASE UserDelete(c)
    BY <1>4 DEF UserDelete, Phase
  <1>. QED
    BY <1>1, <1>2, <1>3, <1>4 DEF UserStep

(***************************************************************************)
(* The steps of a pass keep the types.                                     *)
(***************************************************************************)
LEMMA TypePass ==
  ASSUME TypeInv, NEW c \in Cr, PassStep(c)
  PROVE  TypeInv'
  <1>. USE DEF TypeInv, crVars, workerVars, bounds
  <1>0. pass[c] \in Pass /\ pass[c].tref \in Target /\ gvk[pass[c].tref][c] \in Gvk \cup {NoGvk}
    BY DEF TypeOK, Pass
  <1>1. CASE Fetch(c)
    <2>1. phase'[c] \in Phase /\ phase' \in [Cr -> Phase]
      BY <1>1 DEF Fetch, TypeOK, Phase
    <2>. QED
      BY <1>1, <2>1 DEF Fetch, TypeOK, SetHoldsRequest, Pass, PC
  <1>2. CASE Connect(c)
    BY <1>0, <1>2 DEF Connect, TypeOK, SetHoldsRequest, Pass, PC
  <1>3. CASE GetSystemConfig(c)
    <2>1. CASE EndPass(c)
      BY <1>3, <2>1, EndPassType DEF GetSystemConfig, TypeOK
    <2>2. CASE pass' = [pass EXCEPT ![c].pc = "finalize"]
      BY <1>0, <1>3, <2>2 DEF GetSystemConfig, TypeOK, SetHoldsRequest, Pass, PC
    <2>3. CASE pass' = [pass EXCEPT ![c].pc = "running",
                                    ![c].seen = gvk[pass[c].tref][c]]
      <3>1. [pass[c] EXCEPT !.pc = "running", !.seen = gvk[pass[c].tref][c]] \in Pass
        BY <1>0 DEF Pass, PC
      <3>. QED
        BY <1>0, <1>3, <2>3, <3>1 DEF GetSystemConfig, TypeOK, SetHoldsRequest, Pass
    <2>. QED
      BY <1>3, <2>1, <2>2, <2>3 DEF GetSystemConfig
  <1>4. CASE RemoveFinalizer(c)
    BY <1>4, EndPassType DEF RemoveFinalizer, TypeOK, Phase
  <1>5. CASE GetRunningConfig(c)
    <2>1. copy[pass[c].tref] \in Cfg
      BY <1>0 DEF TypeOK
    <2>. QED
      BY <1>5, <2>1, DecideType DEF GetRunningConfig, TypeOK
  <1>6. CASE GetRunningConfigNoUpdate(c)
    BY <1>6, EmptyCfgFacts, DecideType, SystemAssumption
    DEF GetRunningConfigNoUpdate, TypeOK, Mishap
  <1>7. ASSUME NEW action, Push(c, action)
        PROVE  gvk' \in [Target -> [Cr -> Gvk \cup {NoGvk}]] /\ pass' \in [Cr -> Pass] /\ SetHoldsRequest'
    BY <1>0, <1>7, EndPassType DEF Push, TypeOK, SetHoldsRequest
  <1>8. CASE Create(c)
    BY <1>7, <1>8 DEF Create, TypeOK
  <1>9. CASE Update(c)
    BY <1>7, <1>9 DEF Update, TypeOK
  <1>10. CASE Delete(c)
    BY <1>7, <1>10 DEF Delete, TypeOK, FaultKind
  <1>11. CASE SetTimesOut(c)
    <2>1. late' \in SUBSET [cr : Cr, tref : Target, req : Gvk]
      BY <1>0, <1>11 DEF SetTimesOut, TypeOK, SetHoldsRequest
    <2>. QED
      BY <1>11, <2>1, EndPassType, SystemAssumption DEF SetTimesOut, TypeOK, Mishap
  <1>12. CASE PassFails(c)
    BY <1>12, EndPassType DEF PassFails, TypeOK
  <1>13. CASE ReconcilerPanic(c)
    BY <1>13, IdlePassType, SystemAssumption DEF ReconcilerPanic, TypeOK, SetHoldsRequest, Mishap
  <1>. QED
    BY <1>1, <1>2, <1>3, <1>4, <1>5, <1>6, <1>8, <1>9, <1>10, <1>11, <1>12, <1>13
    DEF PassStep

(***************************************************************************)
(* What the worker sends to a device results in a configuration.           *)
(***************************************************************************)
LEMMA CandidateType ==
  ASSUME NEW cfg \in Cfg, NEW e \in Gvk
  PROVE  Candidate(cfg, e) \in Cfg
  BY ApplySetType, EmptyCfgFacts DEF Candidate, Gvk

(***************************************************************************)
(* The worker, the devices and their operators keep the types.             *)
(***************************************************************************)
LEMMA TypeWorker ==
  ASSUME TypeInv, NEW t \in Target, WorkerStep(t)
  PROVE  TypeInv'
  <1>. USE DEF TypeInv, SetHoldsRequest, crVars, bounds
  <1>1. ASSUME NEW c \in Cr, WorkerApply(t, c)
        PROVE  TypeInv'
    <2>1. gvk[t][c] \in Gvk
      BY <1>1 DEF WorkerApply, Pending, TypeOK
    <2>2. /\ Candidate(device[t], gvk[t][c]) \in Cfg
          /\ Candidate(copy[t], gvk[t][c]) \in Cfg
      BY <2>1, CandidateType DEF TypeOK
    <2>3. [gvk[t][c] EXCEPT !.status = "SUCCESS"] \in Gvk
      BY <2>1 DEF Gvk, Status
    <2>. QED
      BY <1>1, <2>2, <2>3 DEF WorkerApply, TypeOK
  <1>2. ASSUME NEW c \in Cr, WorkerReject(t, c)
        PROVE  TypeInv'
    <2>1. gvk[t][c] \in Gvk
      BY <1>2 DEF WorkerReject, Pending, TypeOK
    <2>2. [gvk[t][c] EXCEPT !.status = "FAILED"] \in Gvk
      BY <2>1 DEF Gvk, Status
    <2>3. gvk' \in [Target -> [Cr -> Gvk \cup {NoGvk}]]
      BY <1>2, <2>2 DEF WorkerReject, TypeOK
    <2>4. mishaps' \in 0..MaxMishaps /\ edits' \in 0..MaxEdits
      BY <1>2, SystemAssumption DEF WorkerReject, TypeOK, Mishap
    <2>. QED
      BY <1>2, <2>3, <2>4 DEF WorkerReject, TypeOK, FaultKind
  <1>3. CASE LateSet(t)
    <2>. PICK m \in late : /\ gvk' = [gvk EXCEPT ![t][m.cr] = m.req]
                           /\ late' = late \ {m}
      BY <1>3 DEF LateSet
    <2>. QED
      BY <1>3 DEF LateSet, TypeOK, FaultKind
  <1>4. CASE Exhaust(t)
    BY <1>4, SystemAssumption DEF Exhaust, TypeOK, Mishap
  <1>5. CASE Recover(t)
    BY <1>5 DEF Recover, TypeOK
  <1>6. CASE WorkerRestart(t)
    BY <1>6, EmptyCfgFacts, SystemAssumption DEF WorkerRestart, TypeOK, Mishap, FaultKind
  <1>7. CASE StartTarget(t) \/ Resync(t)
    BY <1>7 DEF StartTarget, Resync, GetConfig, TypeOK
  <1>8. ASSUME NEW cfg \in Cfg, Tamper(t, cfg), faults' \in SUBSET FaultKind
        PROVE  TypeInv'
    BY <1>8, SystemAssumption DEF Tamper, TypeOK, Mishap
  <1>9. CASE DriftRemove(t)
    <2>. PICK l \in Leaves(device[t]) : Tamper(t, ApplySet(device[t], EmptyCfg, ListEntry[l]))
      BY <1>9 DEF DriftRemove
    <2>1. ApplySet(device[t], EmptyCfg, ListEntry[l]) \in Cfg
      BY ApplySetType, EmptyCfgFacts DEF TypeOK
    <2>2. faults' \in SUBSET FaultKind
      BY <1>9 DEF DriftRemove, TypeOK, FaultKind
    <2>. QED
      BY <1>8, <2>1, <2>2
  <1>10. CASE DriftChange(t)
    <2>. PICK l \in Leaves(device[t]), v \in Value : Tamper(t, [device[t] EXCEPT ![l] = v])
      BY <1>10 DEF DriftChange
    <2>1. [device[t] EXCEPT ![l] = v] \in Cfg
      BY DEF TypeOK, Cfg, Leaves
    <2>2. faults' \in SUBSET FaultKind
      BY <1>10 DEF DriftChange, TypeOK, FaultKind
    <2>. QED
      BY <1>8, <2>1, <2>2
  <1>. QED
    BY <1>1, <1>2, <1>3, <1>4, <1>5, <1>6, <1>7, <1>9, <1>10 DEF WorkerStep

(***************************************************************************)
(* Every step keeps the types.                                             *)
(***************************************************************************)
LEMMA TypeStep == TypeInv /\ [Next]_vars => TypeInv'
  <1>. SUFFICES ASSUME TypeInv, [Next]_vars PROVE TypeInv'
    OBVIOUS
  <1>1. CASE UNCHANGED vars
    BY <1>1 DEF vars, TypeInv, TypeOK, SetHoldsRequest
  <1>. QED
    BY <1>1, TypeUser, TypePass, TypeWorker DEF Next

(***************************************************************************)
(* Every reachable state is well typed; in particular what is not a        *)
(* configuration never reaches a system cache, a late request or a device. *)
(***************************************************************************)
THEOREM TypeCorrect == Spec => []TypeOK
  <1>1. Init => TypeInv
    BY TypeInit
  <1>2. TypeInv /\ [Next]_vars => TypeInv'
    BY TypeStep
  <1>3. TypeInv => TypeOK
    BY DEF TypeInv
  <1>. QED
    BY <1>1, <1>2, <1>3, PTL DEF Spec

-----------------------------------------------------------------------------
(***************************************************************************)
(* A pass acts on what is still there: between the read of the system      *)
(* cache and the Set, nobody else writes the entry of the resource, except *)
(* a late Set; a restart of the worker may take the entry away.            *)
(***************************************************************************)
Held(c) ==
  "late" \notin faults /\ pass[c].pc \in {"running", "set"} =>
    LET e == gvk[pass[c].tref][c] IN
    /\ pass[c].seen # NoGvk => pass[c].seen.status # "PENDING"
    /\ e = pass[c].seen \/ (e = NoGvk /\ "restart" \in faults)

SnapshotInv == \A c \in Cr : Held(c)

(***************************************************************************)
(* No pass runs for a resource without finalizer; without retargeting a    *)
(* pass and the entries of its resource are at the target the resource     *)
(* refers to; a pass at "finalize" has no entry left behind.               *)
(***************************************************************************)
NotStarted(c) == phase[c] \in {"absent", "fresh"} => pass[c].pc = "idle"

AtHome(c) ==
  faults \cap {"retarget", "late"} = {} =>
    /\ pass[c].pc # "idle" => pass[c].tref = tref[c]
    /\ \A t \in Target : gvk[t][c] # NoGvk => t = tref[c] /\ phase[c] \in {"live", "deleting"}
    /\ pass[c].pc = "finalize" => gvk[pass[c].tref][c] = NoGvk

HomeInv == \A c \in Cr : NotStarted(c) /\ AtHome(c)

(***************************************************************************)
(* What keeps leaves from being orphaned.  An entry sets only leaves of    *)
(* the spec it records; a request answers for every leaf of the entry that *)
(* it is going to replace; and a DELETE that was processed is gone.        *)
(***************************************************************************)
KeyedRaw(raw) == Parses(raw) => Keyed(raw)

Sound(e) == e.action # "DELETE" => Leaves(e.update) \subseteq Leaves(e.spec)

Succeeds(seen, req) ==
  /\ req.action = "DELETE" => seen # NoGvk
  /\ seen # NoGvk /\ (req.action = "DELETE" => seen.spec = req.spec)
       => Leaves(seen.spec) \subseteq Claim(req)

PassSound(c) ==
  /\ KeyedRaw(spec[c]) /\ KeyedRaw(pass[c].spec)
  /\ pass[c].pc = "running" /\ pass[c].phase = "deleting" => pass[c].seen # NoGvk
  /\ pass[c].pc = "set" => Sound(pass[c].req) /\ Succeeds(pass[c].seen, pass[c].req)

EntriesSound ==
  /\ \A t \in Target, c \in Cr : gvk[t][c] # NoGvk => Sound(gvk[t][c])
  /\ \A m \in late : Sound(m.req)

Benign == faults \cap {"reject", "restart", "unsyncedDelete", "late"} = {}

DeletesPending ==
  Benign => \A t \in Target, c \in Cr :
    gvk[t][c] # NoGvk /\ gvk[t][c].action = "DELETE" => gvk[t][c].status = "PENDING"

OrphanInv ==
  (\A c \in Cr : PassSound(c)) /\ EntriesSound /\ DeletesPending /\ NoOrphans

-----------------------------------------------------------------------------
(***************************************************************************)
(* The snapshot of a pass stays valid as long as its pass and the entry it *)
(* is about do not change and no fault is forgotten.                       *)
(***************************************************************************)
LEMMA HeldFrame ==
  ASSUME TypeInv, NEW d \in Cr, Held(d), faults \subseteq faults', pass'[d] = pass[d],
         gvk'[pass[d].tref][d] = gvk[pass[d].tref][d]
  PROVE  Held(d)'
  BY DEF Held

(***************************************************************************)
(* The steps of a pass keep the snapshots of all passes: Push is the only  *)
(* one that writes an entry, and it ends the pass that held it.            *)
(***************************************************************************)
LEMMA HeldPass ==
  ASSUME TypeInv, SnapshotInv, NEW c \in Cr, PassStep(c)
  PROVE  SnapshotInv'
  <1>. SUFFICES ASSUME NEW d \in Cr PROVE Held(d)'
    BY DEF SnapshotInv
  <1>. USE DEF crVars, workerVars, bounds
  <1>0. Held(d)
    BY DEF SnapshotInv
  <1>1. faults \subseteq faults'
    BY DEF PassStep, Fetch, Connect, GetSystemConfig, RemoveFinalizer, GetRunningConfig,
           GetRunningConfigNoUpdate, Create, Update, Delete, SetTimesOut, PassFails,
           ReconcilerPanic
  <1>2. pass \in [Cr -> Pass] /\ pass[d].tref \in Target
        /\ gvk \in [Target -> [Cr -> Gvk \cup {NoGvk}]]
    BY DEF TypeInv, TypeOK, Pass
  <1>3. ASSUME NEW action, Push(c, action), d # c
        PROVE  pass'[d] = pass[d] /\ gvk'[pass[d].tref][d] = gvk[pass[d].tref][d]
    BY <1>2, <1>3 DEF Push, EndPass
  <1>4. CASE d # c
    <2>1. CASE Create(c) \/ Update(c) \/ Delete(c)
      BY <1>0, <1>1, <1>3, <1>4, <2>1, HeldFrame DEF Create, Update, Delete
    <2>2. CASE ReconcilerPanic(c)
      BY <2>2, IdlePassType DEF ReconcilerPanic, Held
    <2>3. CASE ~(Create(c) \/ Update(c) \/ Delete(c) \/ ReconcilerPanic(c))
      <3>1. pass'[d] = pass[d] /\ UNCHANGED gvk
        BY <1>2, <1>4, <2>3
        DEF PassStep, Fetch, Connect, GetSystemConfig, RemoveFinalizer, GetRunningConfig,
            GetRunningConfigNoUpdate, SetTimesOut, PassFails, EndPass, Decide
      <3>. QED
        BY <1>0, <1>1, <3>1, HeldFrame
    <2>. QED
      BY <2>1, <2>2, <2>3
  <1>5. CASE d = c
    <2>1. CASE pass'[c].pc \notin {"running", "set"}
      BY <1>5, <2>1 DEF Held
    <2>2. CASE GetSystemConfig(c) /\ pass'[c].pc = "running"
      <3>1. pass' = [pass EXCEPT ![c].pc = "running", ![c].seen = gvk[pass[c].tref][c]]
            /\ ~CrStatus(c).pending /\ ~CrStatus(c).exhausted
        BY <1>2, <1>5, <2>2, IdlePassType DEF GetSystemConfig, EndPass, Pass
      <3>2. gvk[pass[c].tref][c] # NoGvk => gvk[pass[c].tref][c].status # "PENDING"
        BY <3>1 DEF CrStatus, GetCrStatus
      <3>3. pass'[c].seen = gvk[pass[c].tref][c] /\ pass'[c].tref = pass[c].tref /\ UNCHANGED gvk
        BY <1>2, <1>5, <2>2, <3>1 DEF GetSystemConfig, Pass
      <3>. QED
        BY <1>5, <3>2, <3>3 DEF Held
    <2>3. ASSUME NEW running, Decide(c, running), pass[c].pc = "running", UNCHANGED gvk
          PROVE  Held(d)'
      <3>1. \/ pass'[c].pc = "idle"
            \/ pass'[c].tref = pass[c].tref /\ pass'[c].seen = pass[c].seen
        BY <1>2, <1>5, <2>3, IdlePassType DEF Decide, EndPass, Pass
      <3>. QED
        BY <1>0, <1>1, <1>5, <2>3, <3>1 DEF Held
    <2>4. CASE GetRunningConfig(c) \/ GetRunningConfigNoUpdate(c)
      BY <2>3, <2>4 DEF GetRunningConfig, GetRunningConfigNoUpdate
    <2>5. \/ pass'[c].pc \notin {"running", "set"}
          \/ GetSystemConfig(c) /\ pass'[c].pc = "running"
          \/ GetRunningConfig(c) \/ GetRunningConfigNoUpdate(c)
      <3>1. ASSUME EndPass(c) PROVE pass'[c].pc = "idle"
        BY <1>2, <3>1, IdlePassType DEF EndPass
      <3>2. CASE GetSystemConfig(c)
        BY <1>2, <3>1, <3>2 DEF GetSystemConfig, Pass
      <3>3. CASE Fetch(c) \/ Connect(c)
        BY <1>2, <3>3 DEF Fetch, Connect, Pass
      <3>4. CASE ReconcilerPanic(c)
        BY <3>4, IdlePassType DEF ReconcilerPanic
      <3>. QED
        BY <3>1, <3>2, <3>3, <3>4
        DEF PassStep, RemoveFinalizer, Create, Update, Delete, Push, SetTimesOut, PassFails
    <2>. QED
      BY <2>1, <2>2, <2>4, <2>5
  <1>. QED
    BY <1>4, <1>5

(***************************************************************************)
(* The worker keeps the snapshots: it processes only pending entries, and  *)
(* no pass holds one.                                                      *)
(***************************************************************************)
LEMMA HeldWorker ==
  ASSUME TypeInv, SnapshotInv, NEW t \in Target, WorkerStep(t)
  PROVE  SnapshotInv'
  <1>. SUFFICES ASSUME NEW d \in Cr PROVE Held(d)'
    BY DEF SnapshotInv
  <1>0. Held(d)
    BY DEF SnapshotInv
  <1>1. gvk \in [Target -> [Cr -> Gvk \cup {NoGvk}]] /\ pass[d].tref \in Target
    BY DEF TypeInv, TypeOK, Pass
  <1>2. ASSUME NEW c \in Cr, WorkerApply(t, c) \/ WorkerReject(t, c)
        PROVE  Held(d)'
    <2>1. UNCHANGED pass /\ faults \subseteq faults' /\ Pending(t, c)
      BY <1>2 DEF WorkerApply, WorkerReject
    <2>2. CASE pass[d].tref = t /\ d = c
      BY <1>0, <2>1, <2>2 DEF Held, Pending
    <2>3. CASE ~(pass[d].tref = t /\ d = c)
      <3>1. gvk'[pass[d].tref][d] = gvk[pass[d].tref][d]
        BY <1>1, <1>2, <2>3 DEF WorkerApply, WorkerReject
      <3>. QED
        BY <1>0, <2>1, <3>1, HeldFrame
    <2>. QED
      BY <2>2, <2>3
  <1>3. CASE LateSet(t)
    BY <1>3 DEF LateSet, Held
  <1>4. CASE WorkerRestart(t)
    <2>1. gvk'[pass[d].tref][d] \in {gvk[pass[d].tref][d], NoGvk}
      BY <1>1, <1>4 DEF WorkerRestart
    <2>. QED
      BY <1>0, <1>4, <2>1 DEF WorkerRestart, Held
  <1>5. CASE Exhaust(t) \/ Recover(t) \/ StartTarget(t) \/ Resync(t) \/ DriftRemove(t) \/ DriftChange(t)
    <2>1. UNCHANGED <<pass, gvk>> /\ faults \subseteq faults'
      BY <1>5 DEF Exhaust, Recover, StartTarget, Resync, DriftRemove, DriftChange, Tamper
    <2>. QED
      BY <1>0, <2>1, HeldFrame
  <1>. QED
    BY <1>2, <1>3, <1>4, <1>5 DEF WorkerStep

(***************************************************************************)
(* Every step keeps the snapshots.                                         *)
(***************************************************************************)
LEMMA SnapshotStep == TypeInv /\ SnapshotInv /\ [Next]_vars => SnapshotInv'
  <1>. SUFFICES ASSUME TypeInv, SnapshotInv, [Next]_vars PROVE SnapshotInv'
    OBVIOUS
  <1>1. ASSUME UNCHANGED <<pass, gvk>>, faults \subseteq faults'
        PROVE  SnapshotInv'
    BY <1>1, HeldFrame DEF SnapshotInv
  <1>2. ASSUME NEW c \in Cr, UserStep(c)
        PROVE  SnapshotInv'
    BY <1>1, <1>2
    DEF UserStep, UserCreate, UserUpdate, UserRetarget, UserDelete, workerVars
  <1>3. CASE UNCHANGED vars
    BY <1>1, <1>3 DEF vars
  <1>. QED
    BY <1>2, <1>3, HeldPass, HeldWorker DEF Next

(***************************************************************************)
(* The reconciler never overwrites an entry that the worker has still to   *)
(* process: GetCrStatus has seen the entry after it was processed, and     *)
(* nobody but the pass itself makes it pending again.                      *)
(***************************************************************************)
THEOREM PendingSafe == Spec => PendingNotOverwritten
  <1>. DEFINE
         Kept(t, c) ==
           \/ gvk'[t][c] \in {gvk[t][c], NoGvk}
           \/ \E s \in {"SUCCESS", "FAILED"} : gvk'[t][c] = [gvk[t][c] EXCEPT !.status = s]
         A == \A t \in Target, c \in Cr : Pending(t, c) /\ "late" \notin faults' => Kept(t, c)
  <1>1. Init => TypeInv /\ SnapshotInv
    <2>1. Init => SnapshotInv
      BY IdlePassType DEF Init, SnapshotInv, Held
    <2>. QED
      BY <2>1, TypeInit
  <1>2. TypeInv /\ SnapshotInv /\ [Next]_vars => TypeInv' /\ SnapshotInv'
    BY TypeStep, SnapshotStep
  <1>3. TypeInv /\ SnapshotInv /\ [Next]_vars => [A]_vars
    <2>. SUFFICES ASSUME TypeInv, SnapshotInv, Next,
                         NEW t \in Target, NEW c \in Cr,
                         Pending(t, c), "late" \notin faults'
                  PROVE  Kept(t, c)
      OBVIOUS
    <2>1. gvk \in [Target -> [Cr -> Gvk \cup {NoGvk}]] /\ gvk[t][c] \in Gvk
      BY DEF TypeInv, TypeOK, Pending
    <2>2. CASE UNCHANGED gvk
      BY <2>2
    <2>3. ASSUME NEW d \in Cr, NEW action, Push(d, action), faults \subseteq faults'
          PROVE  Kept(t, c)
      <3>1. pass[d].tref \in Target
        BY DEF TypeInv, TypeOK, Pass
      <3>2. d # c \/ pass[d].tref # t
        BY <2>3 DEF SnapshotInv, Held, Push, Pending
      <3>3. gvk'[t][c] = gvk[t][c]
        BY <2>1, <2>3, <3>1, <3>2 DEF Push
      <3>. QED
        BY <3>3
    <2>4. ASSUME NEW d \in Cr, PassStep(d)
          PROVE  Kept(t, c)
      BY <2>2, <2>3, <2>4
      DEF PassStep, Fetch, Connect, GetSystemConfig, RemoveFinalizer, GetRunningConfig,
          GetRunningConfigNoUpdate, Create, Update, Delete, SetTimesOut, PassFails,
          ReconcilerPanic, workerVars
    <2>5. ASSUME NEW d \in Cr, UserStep(d)
          PROVE  Kept(t, c)
      BY <2>2, <2>5
      DEF UserStep, UserCreate, UserUpdate, UserRetarget, UserDelete, workerVars
    <2>6. ASSUME NEW u \in Target, WorkerStep(u)
          PROVE  Kept(t, c)
      <3>1. ASSUME NEW d \in Cr, WorkerApply(u, d) \/ WorkerReject(u, d)
            PROVE  Kept(t, c)
        <4>1. CASE u # t \/ d # c
          <5>1. gvk'[t][c] = gvk[t][c]
            <6>1. CASE WorkerApply(u, d)
              BY <2>1, <4>1, <6>1 DEF WorkerApply
            <6>2. CASE WorkerReject(u, d)
              BY <2>1, <4>1, <6>2 DEF WorkerReject
            <6>. QED
              BY <3>1, <6>1, <6>2
          <5>. QED
            BY <5>1
        <4>2. CASE WorkerApply(t, c)
          <5>1. gvk'[t][c] = NoGvk \/ gvk'[t][c] = [gvk[t][c] EXCEPT !.status = "SUCCESS"]
            BY <2>1, <4>2 DEF WorkerApply
          <5>. QED
            BY <5>1
        <4>3. CASE WorkerReject(t, c)
          <5>1. gvk'[t][c] = [gvk[t][c] EXCEPT !.status = "FAILED"]
            BY <2>1, <4>3 DEF WorkerReject
          <5>. QED
            BY <5>1
        <4>. QED
          BY <3>1, <4>1, <4>2, <4>3
      <3>2. CASE LateSet(u)
        BY <3>2 DEF LateSet
      <3>3. CASE WorkerRestart(u)
        BY <2>1, <3>3 DEF WorkerRestart
      <3>4. CASE Exhaust(u) \/ Recover(u) \/ StartTarget(u) \/ Resync(u) \/ DriftRemove(u) \/ DriftChange(u)
        BY <2>2, <3>4 DEF Exhaust, Recover, StartTarget, Resync, DriftRemove, DriftChange, Tamper
      <3>. QED
        BY <2>6, <3>1, <3>2, <3>3, <3>4 DEF WorkerStep
    <2>. QED
      BY <2>4, <2>5, <2>6 DEF Next
  <1>. QED
    BY <1>1, <1>2, <1>3, PTL DEF Spec, PendingNotOverwritten

-----------------------------------------------------------------------------
(***************************************************************************)
(* Where a resource's pass and entries are.                                *)
(***************************************************************************)
LEMMA HomeFrame ==
  ASSUME NEW d \in Cr, NotStarted(d), AtHome(d), faults \subseteq faults',
         phase'[d] = phase[d], tref'[d] = tref[d], UNCHANGED gvk,
         \/ pass'[d] = pass[d]
         \/ pass'[d].pc = "idle"
         \/ pass[d].pc # "idle" /\ pass'[d].tref = pass[d].tref /\ pass'[d].pc # "finalize"
  PROVE  NotStarted(d)' /\ AtHome(d)'
  BY DEF NotStarted, AtHome

(***************************************************************************)
(* Users keep passes and entries at home: retargeting is the exception     *)
(* that is recorded.                                                       *)
(***************************************************************************)
LEMMA HomeUser ==
  ASSUME TypeInv, HomeInv, NEW c \in Cr, UserStep(c)
  PROVE  HomeInv'
  <1>. SUFFICES ASSUME NEW d \in Cr PROVE NotStarted(d)' /\ AtHome(d)'
    BY DEF HomeInv
  <1>. USE DEF workerVars
  <1>0. NotStarted(d) /\ AtHome(d)
    BY DEF HomeInv
  <1>1. phase \in [Cr -> Phase] /\ tref \in [Cr -> Target]
    BY DEF TypeInv, TypeOK
  <1>2. CASE d # c \/ UserUpdate(c)
    <2>1. phase'[d] = phase[d] /\ faults \subseteq faults' /\ UNCHANGED <<pass, gvk>>
          /\ tref'[d] = tref[d]
      BY <1>1, <1>2 DEF UserStep, UserCreate, UserUpdate, UserRetarget, UserDelete
    <2>. QED
      BY <1>0, <2>1, HomeFrame
  <1>3. CASE d = c /\ UserCreate(c)
    BY <1>0, <1>1, <1>3 DEF UserCreate, NotStarted, AtHome
  <1>4. CASE d = c /\ UserRetarget(c)
    BY <1>0, <1>1, <1>4 DEF UserRetarget, NotStarted, AtHome
  <1>5. CASE d = c /\ UserDelete(c)
    BY <1>0, <1>1, <1>5 DEF UserDelete, NotStarted, AtHome
  <1>. QED
    BY <1>2, <1>3, <1>4, <1>5 DEF UserStep

(***************************************************************************)
(* A pass writes only to the target it has fetched, and removes the        *)
(* finalizer only when the entry there is gone.                            *)
(***************************************************************************)
LEMMA HomePass ==
  ASSUME TypeInv, HomeInv, NEW c \in Cr, PassStep(c)
  PROVE  HomeInv'
  <1>. SUFFICES ASSUME NEW d \in Cr PROVE NotStarted(d)' /\ AtHome(d)'
    BY DEF HomeInv
  <1>. USE DEF crVars, workerVars, bounds
  <1>0. NotStarted(d) /\ AtHome(d)
    BY DEF HomeInv
  <1>1. /\ phase \in [Cr -> Phase] /\ tref \in [Cr -> Target] /\ pass \in [Cr -> Pass]
        /\ gvk \in [Target -> [Cr -> Gvk \cup {NoGvk}]] /\ pass[c].tref \in Target
    BY DEF TypeInv, TypeOK, Pass
  <1>2. ASSUME EndPass(c)
        PROVE  pass'[d] = pass[d] \/ pass'[d].pc = "idle"
    BY <1>1, <1>2, IdlePassType DEF EndPass
  <1>3. CASE Fetch(c)
    BY <1>0, <1>1, <1>3 DEF Fetch, NotStarted, AtHome, Phase
  <1>4. CASE Connect(c)
    <2>1. \/ pass'[d] = pass[d]
          \/ pass[d].pc # "idle" /\ pass'[d].tref = pass[d].tref /\ pass'[d].pc # "finalize"
      BY <1>1, <1>4 DEF Connect, Pass
    <2>. QED
      BY <1>0, <1>4, <2>1, HomeFrame DEF Connect
  <1>5. CASE GetSystemConfig(c)
    <2>1. CASE EndPass(c)
      BY <1>0, <1>2, <1>5, <2>1, HomeFrame DEF GetSystemConfig
    <2>2. CASE /\ pass' = [pass EXCEPT ![c].pc = "finalize"]
               /\ ~CrStatus(c).exists /\ ~CrStatus(c).exhausted
      <3>1. gvk[pass[c].tref][c] = NoGvk
        BY <2>2 DEF CrStatus, GetCrStatus
      <3>2. d # c => pass'[d] = pass[d]
        BY <1>1, <2>2
      <3>3. pass'[c].tref = pass[c].tref /\ pass'[c].pc = "finalize" /\ pass[c].pc = "system"
        BY <1>1, <1>5, <2>2 DEF GetSystemConfig, Pass
      <3>. QED
        BY <1>0, <1>5, <3>1, <3>2, <3>3 DEF GetSystemConfig, NotStarted, AtHome
    <2>3. CASE pass' = [pass EXCEPT ![c].pc = "running", ![c].seen = gvk[pass[c].tref][c]]
      <3>1. \/ pass'[d] = pass[d]
            \/ pass[d].pc # "idle" /\ pass'[d].tref = pass[d].tref /\ pass'[d].pc # "finalize"
        BY <1>1, <1>5, <2>3 DEF GetSystemConfig, Pass
      <3>. QED
        BY <1>0, <1>5, <3>1, HomeFrame DEF GetSystemConfig
    <2>. QED
      BY <1>5, <2>1, <2>2, <2>3 DEF GetSystemConfig
  <1>6. CASE RemoveFinalizer(c)
    <2>1. CASE d # c \/ UNCHANGED phase
      <3>1. phase'[d] = phase[d]
        BY <1>1, <1>6, <2>1 DEF RemoveFinalizer
      <3>. QED
        BY <1>0, <1>2, <1>6, <3>1, HomeFrame DEF RemoveFinalizer
    <2>2. CASE d = c /\ phase' = [phase EXCEPT ![c] = "absent"]
      <3>1. pass'[c].pc = "idle"
        BY <1>1, <1>6, IdlePassType DEF RemoveFinalizer, EndPass
      <3>. QED
        BY <1>0, <1>1, <1>6, <2>2, <3>1 DEF RemoveFinalizer, NotStarted, AtHome
    <2>. QED
      BY <1>6, <2>1, <2>2 DEF RemoveFinalizer
  <1>7. ASSUME NEW running, Decide(c, running), pass[c].pc = "running",
               UNCHANGED <<phase, tref, gvk, faults>>
        PROVE  NotStarted(d)' /\ AtHome(d)'
    <2>1. \/ pass'[d] = pass[d]
          \/ pass'[d].pc = "idle"
          \/ pass[d].pc # "idle" /\ pass'[d].tref = pass[d].tref /\ pass'[d].pc # "finalize"
      BY <1>1, <1>2, <1>7 DEF Decide, Pass
    <2>. QED
      BY <1>0, <1>7, <2>1, HomeFrame
  <1>8. CASE GetRunningConfig(c) \/ GetRunningConfigNoUpdate(c)
    BY <1>7, <1>8 DEF GetRunningConfig, GetRunningConfigNoUpdate
  <1>9. ASSUME NEW action, Push(c, action), UNCHANGED <<phase, tref>>, faults \subseteq faults'
        PROVE  NotStarted(d)' /\ AtHome(d)'
    <2>1. \A t \in Target : gvk'[t][d] # gvk[t][d] => d = c /\ t = pass[c].tref
      BY <1>1, <1>9 DEF Push
    <2>2. pass'[d] = pass[d] \/ pass'[d].pc = "idle"
      BY <1>2, <1>9 DEF Push
    <2>3. d = c => pass'[d].pc = "idle" /\ pass[c].pc = "set"
      BY <1>1, <1>9, IdlePassType DEF Push, EndPass
    <2>4. pass[d].tref \in Target
      BY DEF TypeInv, TypeOK, Pass
    <2>. QED
      BY <1>0, <1>1, <1>9, <2>1, <2>2, <2>3, <2>4 DEF NotStarted, AtHome, Phase
  <1>10. CASE Create(c) \/ Update(c) \/ Delete(c)
    BY <1>9, <1>10 DEF Create, Update, Delete
  <1>11. CASE SetTimesOut(c) \/ PassFails(c)
    BY <1>0, <1>2, <1>11, HomeFrame DEF SetTimesOut, PassFails
  <1>12. CASE ReconcilerPanic(c)
    <2>1. pass'[d].pc = "idle"
      BY <1>12, IdlePassType DEF ReconcilerPanic
    <2>. QED
      BY <1>0, <1>12, <2>1, HomeFrame DEF ReconcilerPanic
  <1>. QED
    BY <1>3, <1>4, <1>5, <1>6, <1>8, <1>10, <1>11, <1>12 DEF PassStep

(***************************************************************************)
(* The worker creates no entry except for a late Set.                      *)
(***************************************************************************)
LEMMA HomeWorker ==
  ASSUME TypeInv, HomeInv, NEW t \in Target, WorkerStep(t)
  PROVE  HomeInv'
  <1>. SUFFICES ASSUME NEW d \in Cr PROVE NotStarted(d)' /\ AtHome(d)'
    BY DEF HomeInv
  <1>. USE DEF crVars
  <1>0. NotStarted(d) /\ AtHome(d)
    BY DEF HomeInv
  <1>1. gvk \in [Target -> [Cr -> Gvk \cup {NoGvk}]] /\ pass[d].tref \in Target
    BY DEF TypeInv, TypeOK, Pass
  <1>2. ASSUME UNCHANGED <<phase, tref, pass>>, faults \subseteq faults',
               \A u \in Target : gvk[u][d] = NoGvk => gvk'[u][d] = NoGvk
        PROVE  NotStarted(d)' /\ AtHome(d)'
    BY <1>0, <1>1, <1>2 DEF NotStarted, AtHome
  <1>3. ASSUME NEW c \in Cr, WorkerApply(t, c) \/ WorkerReject(t, c)
        PROVE  NotStarted(d)' /\ AtHome(d)'
    <2>1. \A u \in Target : gvk[u][d] = NoGvk => gvk'[u][d] = NoGvk
      BY <1>1, <1>3 DEF WorkerApply, WorkerReject, Pending
    <2>. QED
      BY <1>2, <1>3, <2>1 DEF WorkerApply, WorkerReject
  <1>4. CASE LateSet(t)
    BY <1>0, <1>4 DEF LateSet, NotStarted, AtHome
  <1>5. CASE WorkerRestart(t)
    <2>1. \A u \in Target : gvk[u][d] = NoGvk => gvk'[u][d] = NoGvk
      BY <1>1, <1>5 DEF WorkerRestart
    <2>. QED
      BY <1>2, <1>5, <2>1 DEF WorkerRestart
  <1>6. CASE Exhaust(t) \/ Recover(t) \/ StartTarget(t) \/ Resync(t) \/ DriftRemove(t) \/ DriftChange(t)
    BY <1>2, <1>6 DEF Exhaust, Recover, StartTarget, Resync, DriftRemove, DriftChange, Tamper
  <1>. QED
    BY <1>3, <1>4, <1>5, <1>6 DEF WorkerStep

(***************************************************************************)
(* A resource whose finalizer is gone has left no entry in any system      *)
(* cache, unless it was retargeted or a late Set wrote one again.          *)
(***************************************************************************)
THEOREM GoneClean == Spec => []GoneIsClean
  <1>1. Init => TypeInv /\ HomeInv
    <2>1. Init => HomeInv
      BY IdlePassType DEF Init, HomeInv, NotStarted, AtHome
    <2>. QED
      BY <2>1, TypeInit
  <1>2. TypeInv /\ HomeInv /\ [Next]_vars => TypeInv' /\ HomeInv'
    <2>. SUFFICES ASSUME TypeInv, HomeInv, [Next]_vars PROVE HomeInv'
      BY TypeStep
    <2>1. CASE UNCHANGED vars
      BY <2>1, HomeFrame DEF vars, HomeInv
    <2>. QED
      BY <2>1, HomeUser, HomePass, HomeWorker DEF Next
  <1>3. HomeInv => GoneIsClean
    BY DEF HomeInv, AtHome, GoneIsClean
  <1>. QED
    BY <1>1, <1>2, <1>3, PTL DEF Spec

-----------------------------------------------------------------------------
(***************************************************************************)
(* The request of a pass sets leaves of its spec only and answers for all  *)
(* leaves of the entry it was derived from.                                *)
(***************************************************************************)
LEMMA RequestSound ==
  ASSUME NEW p \in Pass, NEW running \in Cfg, KeyedRaw(p.spec),
         p.phase = "deleting" => p.seen # NoGvk,
         Request(p, running) # NoGvk
  PROVE  Sound(Request(p, running)) /\ Succeeds(p.seen, Request(p, running))
  <1>. DEFINE req == Request(p, running)
  <1>1. p.spec \in Cfg \/ ~Parses(p.spec)
    BY DEF Pass, Parses
  <1>2. p.seen \in Gvk \cup {NoGvk}
    BY DEF Pass
  <1>3. CASE p.phase = "deleting"
    <2>1. req = getGvkUpate(p.spec, GetRootPaths(p.spec), NoDiff, "DELETE")
          /\ ValidateCrSpecDelete(p.spec, running)
      BY <1>3 DEF Request, DeleteRequest
    <2>2. p.spec \in Cfg
      BY <1>1, <2>1 DEF ValidateCrSpecDelete
    <2>3. req.action = "DELETE" /\ req.spec = p.spec /\ req.path = GetRootPaths(p.spec)
      BY <2>1 DEF getGvkUpate
    <2>4. Leaves(p.spec) \subseteq GetRootPaths(p.spec)
      <3>1. Leaves(p.spec) \in SUBSET Leaf
        BY DEF Leaves
      <3>. QED
        BY <3>1, CoveredFacts DEF GetRootPaths
    <2>. HIDE DEF req
    <2>. QED
      BY <1>3, <2>3, <2>4 DEF Sound, Succeeds, Claim, req
  <1>4. CASE p.phase # "deleting"
    <2>1. req = LiveRequest(p, running)
      BY <1>4 DEF Request
    <2>2. ValidateCrSpecUpdate(p.spec, running)
      BY <2>1 DEF LiveRequest
    <2>3. p.spec \in Cfg /\ Keyed(p.spec)
      BY <1>1, <2>2 DEF ValidateCrSpecUpdate, KeyedRaw
    <2>4. ASSUME NEW action \in {"CREATE", "UPDATE"},
                 req = DriftRequest(p, running, action),
                 p.seen # NoGvk => IsUpToDate(GetCrSpecDiff(p.spec, p.seen))
          PROVE  Sound(req) /\ Succeeds(p.seen, req)
      <3>1. req = getGvkUpate(p.spec, GetRootPaths(p.spec),
                              GetCrActualDiff(p.spec, running), action)
        BY <2>4 DEF DriftRequest
      <3>2. /\ req.action = action /\ req.spec = p.spec
            /\ req.update = GetCrActualDiff(p.spec, running).updates
        BY <3>1 DEF getGvkUpate
      <3>3. Leaves(req.update) \subseteq Leaves(p.spec)
        BY <2>3, <3>2, ActualDiffLeaves
      <3>4. p.seen # NoGvk => Leaves(p.seen.spec) \subseteq Leaves(p.spec)
        BY <1>2, <2>3, <2>4, SpecDiffLeaves
      <3>. HIDE DEF req
      <3>. QED
        BY <2>4, <3>2, <3>3, <3>4 DEF Sound, Succeeds, Claim
    <2>5. ASSUME req = SpecRequest(p), p.seen # NoGvk
          PROVE  Sound(req) /\ Succeeds(p.seen, req)
      <3>1. /\ req.action = "UPDATE" /\ req.status = "PENDING" /\ req.spec = p.spec
            /\ req.update = GetCrSpecDiff(p.spec, p.seen).updates
            /\ req.delete = GetCrSpecDiff(p.spec, p.seen).deletes
        BY <2>5 DEF SpecRequest, getGvkUpate
      <3>2. /\ Leaves(p.seen.spec) \subseteq Leaves(p.spec) \cup req.delete
            /\ Leaves(req.update) \subseteq Leaves(p.spec)
        BY <1>2, <2>3, <2>5, <3>1, SpecDiffLeaves
      <3>. HIDE DEF req
      <3>. QED
        BY <3>1, <3>2 DEF Sound, Succeeds, Claim
    <2>6. \/ req = DriftRequest(p, running, "CREATE") /\ p.seen = NoGvk
          \/ req = SpecRequest(p) /\ p.seen # NoGvk
          \/ /\ req = DriftRequest(p, running, "UPDATE")
             /\ IsUpToDate(GetCrSpecDiff(p.spec, p.seen))
      BY <2>1, <2>2 DEF LiveRequest
    <2>. HIDE DEF req
    <2>7. Sound(req) /\ Succeeds(p.seen, req)
      BY <2>4, <2>5, <2>6
    <2>. QED
      BY <2>7 DEF req
  <1>. QED
    BY <1>3, <1>4

(***************************************************************************)
(* The idle pass holds the empty configuration, which has no entry without *)
(* its key.                                                                *)
(***************************************************************************)
LEMMA IdlePassKeyed == KeyedRaw(IdlePass.spec) /\ IdlePass.pc = "idle"
  <1>1. Keyed(EmptyCfg)
    BY EntryAssumption DEF Keyed, EmptyCfg
  <1>. QED
    BY <1>1 DEF IdlePass, KeyedRaw

(***************************************************************************)
(* A step that leaves caches, devices and late requests alone only has to  *)
(* keep the passes sound.                                                  *)
(***************************************************************************)
LEMMA OrphanFrame ==
  ASSUME OrphanInv, UNCHANGED <<gvk, device, late>>, faults \subseteq faults',
         \A d \in Cr : PassSound(d)'
  PROVE  OrphanInv'
  BY DEF OrphanInv, EntriesSound, DeletesPending, Benign, NoOrphans

(***************************************************************************)
(* Users submit only specs that carry their keys.                          *)
(***************************************************************************)
LEMMA OrphanUser ==
  ASSUME TypeInv, OrphanInv, NEW c \in Cr, UserStep(c)
  PROVE  OrphanInv'
  <1>. USE DEF workerVars
  <1>1. UNCHANGED <<gvk, device, late, pass>> /\ faults \subseteq faults'
    BY DEF UserStep, UserCreate, UserUpdate, UserRetarget, UserDelete
  <1>2. \A s \in SpecsOf[c] : KeyedRaw(s)
    BY SystemAssumption DEF KeyedRaw
  <1>3. spec \in [Cr -> Raw]
    BY DEF TypeInv, TypeOK
  <1>4. \A d \in Cr : KeyedRaw(spec'[d])
    BY <1>2, <1>3
    DEF UserStep, UserCreate, UserUpdate, UserRetarget, UserDelete, OrphanInv, PassSound
  <1>5. \A d \in Cr : PassSound(d)'
    BY <1>1, <1>4 DEF OrphanInv, PassSound, KeyedRaw
  <1>. QED
    BY <1>1, <1>5, OrphanFrame

(***************************************************************************)
(* A Set replaces the entry the pass has read by one that answers for the  *)
(* same leaves.                                                            *)
(***************************************************************************)
LEMMA OrphanPush ==
  ASSUME TypeInv, SnapshotInv, OrphanInv, NEW c \in Cr, NEW action, Push(c, action),
         UNCHANGED <<spec, device, late>>, faults \subseteq faults',
         "unsyncedDelete" \notin faults' /\ action = "DELETE"
           => pass[c].seen.spec = pass[c].req.spec
  PROVE  OrphanInv'
  <1>. DEFINE t0 == pass[c].tref
              seen == pass[c].seen
              req == pass[c].req
  <1>1. /\ gvk \in [Target -> [Cr -> Gvk \cup {NoGvk}]] /\ t0 \in Target
        /\ pass \in [Cr -> Pass] /\ seen \in Gvk \cup {NoGvk}
    BY DEF TypeInv, TypeOK, Pass
  <1>2. req \in Gvk /\ req.status = "PENDING" /\ req # NoGvk /\ req.action = action
    BY NoGvkAssumption DEF TypeInv, SetHoldsRequest, Push
  <1>3. Sound(req) /\ Succeeds(seen, req)
    BY DEF OrphanInv, PassSound, Push
  <1>4. \A t \in Target, d \in Cr :
          gvk'[t][d] = IF t = t0 /\ d = c THEN req ELSE gvk[t][d]
    BY <1>1 DEF Push
  <1>5. \A d \in Cr : PassSound(d)'
    <2>1. pass'[c] = IdlePass /\ \A d \in Cr : d # c => pass'[d] = pass[d]
      BY <1>1 DEF Push, EndPass
    <2>2. KeyedRaw(IdlePass.spec) /\ IdlePass.pc = "idle"
      BY IdlePassKeyed
    <2>. QED
      BY <2>1, <2>2 DEF OrphanInv, PassSound
  <1>6. EntriesSound'
    BY <1>3, <1>4 DEF OrphanInv, EntriesSound
  <1>7. DeletesPending'
    BY <1>2, <1>4 DEF OrphanInv, DeletesPending, Benign
  <1>8. NoOrphans'
    <2>. SUFFICES ASSUME Benign', NEW t \in Target, NEW l \in Leaves(device[t]) \ Leaves(Factory)
                  PROVE  \E d \in Cr : gvk'[t][d] # NoGvk /\ l \in Claim(gvk'[t][d])
      BY DEF NoOrphans, Benign
    <2>1. Benign
      BY DEF Benign
    <2>2. PICK d \in Cr : gvk[t][d] # NoGvk /\ l \in Claim(gvk[t][d])
      BY <2>1 DEF OrphanInv, NoOrphans, Benign
    <2>3. CASE ~(t = t0 /\ d = c)
      BY <1>4, <2>2, <2>3
    <2>4. CASE t = t0 /\ d = c
      <3>1. gvk[t0][c] = seen /\ seen.status # "PENDING" /\ seen # NoGvk
        BY <2>1, <2>2, <2>4 DEF SnapshotInv, Held, Push, Benign
      <3>2. seen.action # "DELETE"
        BY <1>1, <2>1, <3>1 DEF OrphanInv, DeletesPending
      <3>3. l \in Leaves(seen.spec)
        BY <2>2, <2>4, <3>1, <3>2 DEF Claim
      <3>4. req.action = "DELETE" => seen.spec = req.spec
        BY <1>2 DEF Benign
      <3>5. l \in Claim(req)
        BY <1>3, <3>1, <3>3, <3>4 DEF Succeeds
      <3>. QED
        BY <1>2, <1>4, <2>4, <3>5
    <2>. QED
      BY <2>3, <2>4
  <1>. QED
    BY <1>5, <1>6, <1>7, <1>8 DEF OrphanInv

(***************************************************************************)
(* The steps of a pass keep every leaf answered for.                       *)
(***************************************************************************)
LEMMA OrphanPass ==
  ASSUME TypeInv, SnapshotInv, OrphanInv, NEW c \in Cr, PassStep(c)
  PROVE  OrphanInv'
  <1>. USE DEF crVars, workerVars, bounds
  <1>0. \A d \in Cr : PassSound(d)
    BY DEF OrphanInv
  <1>1. pass \in [Cr -> Pass] /\ pass[c] \in Pass /\ pass[c].tref \in Target
    BY DEF TypeInv, TypeOK, Pass
  <1>2. KeyedRaw(IdlePass.spec) /\ IdlePass.pc = "idle"
    BY IdlePassKeyed
  <1>3. ASSUME UNCHANGED <<gvk, device, late, faults, spec>>,
               \A d \in Cr : d # c => pass'[d] = pass[d], PassSound(c)'
        PROVE  OrphanInv'
    <2>1. \A d \in Cr : PassSound(d)'
      BY <1>0, <1>3 DEF PassSound
    <2>. QED
      BY <1>3, <2>1, OrphanFrame
  <1>4. ASSUME EndPass(c), UNCHANGED spec
        PROVE  PassSound(c)' /\ \A d \in Cr : d # c => pass'[d] = pass[d]
    BY <1>0, <1>1, <1>2, <1>4 DEF EndPass, PassSound
  <1>5. CASE Fetch(c)
    <2>1. PassSound(c)' /\ \A d \in Cr : d # c => pass'[d] = pass[d]
      BY <1>0, <1>1, <1>5 DEF Fetch, PassSound
    <2>. QED
      BY <1>3, <1>5, <2>1 DEF Fetch
  <1>6. CASE Connect(c)
    <2>1. pass'[c].pc = "system" /\ pass'[c].spec = pass[c].spec
          /\ \A d \in Cr : d # c => pass'[d] = pass[d]
      BY <1>1, <1>6 DEF Connect, Pass
    <2>. QED
      BY <1>0, <1>3, <1>6, <2>1 DEF Connect, PassSound
  <1>7. CASE GetSystemConfig(c)
    <2>1. CASE EndPass(c)
      BY <1>3, <1>4, <1>7, <2>1 DEF GetSystemConfig
    <2>2. CASE pass' = [pass EXCEPT ![c].pc = "finalize"]
      <3>1. pass'[c].pc = "finalize" /\ pass'[c].spec = pass[c].spec
            /\ \A d \in Cr : d # c => pass'[d] = pass[d]
        BY <1>1, <2>2 DEF Pass
      <3>. QED
        BY <1>0, <1>3, <1>7, <3>1 DEF GetSystemConfig, PassSound
    <2>3. CASE /\ pass' = [pass EXCEPT ![c].pc = "running", ![c].seen = gvk[pass[c].tref][c]]
               /\ ~CrStatus(c).exhausted
               /\ pass[c].phase = "live" \/ CrStatus(c).exists
      <3>1. /\ pass'[c].pc = "running" /\ pass'[c].spec = pass[c].spec
            /\ pass'[c].seen = gvk[pass[c].tref][c] /\ pass'[c].phase = pass[c].phase
            /\ \A d \in Cr : d # c => pass'[d] = pass[d]
        BY <1>1, <2>3 DEF Pass
      <3>2. pass[c].phase = "deleting" => gvk[pass[c].tref][c] # NoGvk
        BY <2>3 DEF CrStatus, GetCrStatus
      <3>. QED
        BY <1>0, <1>3, <1>7, <3>1, <3>2 DEF GetSystemConfig, PassSound
    <2>. QED
      BY <1>7, <2>1, <2>2, <2>3 DEF GetSystemConfig
  <1>8. ASSUME NEW running \in Cfg, Decide(c, running), pass[c].pc = "running",
               UNCHANGED <<gvk, device, late, faults, spec>>
        PROVE  OrphanInv'
    <2>. DEFINE req == Request(pass[c], running)
    <2>1. CASE req = NoGvk
      BY <1>3, <1>4, <1>8, <2>1 DEF Decide
    <2>2. CASE req # NoGvk
      <3>1. Sound(req) /\ Succeeds(pass[c].seen, req)
        BY <1>0, <1>1, <1>8, <2>2, RequestSound DEF PassSound
      <3>. HIDE DEF req
      <3>2. pass' = [pass EXCEPT ![c].pc = "set", ![c].req = req]
        BY <1>8, <2>2 DEF Decide, req
      <3>3. /\ pass'[c].pc = "set" /\ pass'[c].spec = pass[c].spec
            /\ pass'[c].seen = pass[c].seen /\ pass'[c].req = req
            /\ \A d \in Cr : d # c => pass'[d] = pass[d]
        BY <1>1, <3>2 DEF Pass
      <3>. QED
        BY <1>0, <1>3, <1>8, <3>1, <3>3 DEF PassSound
    <2>. QED
      BY <2>1, <2>2
  <1>9. CASE GetRunningConfig(c)
    <2>1. copy[pass[c].tref] \in Cfg
      BY <1>1 DEF TypeInv, TypeOK
    <2>. QED
      BY <1>8, <1>9, <2>1 DEF GetRunningConfig
  <1>10. CASE GetRunningConfigNoUpdate(c)
    BY <1>8, <1>10, EmptyCfgFacts DEF GetRunningConfigNoUpdate
  <1>11. CASE Create(c)
    BY <1>11, OrphanPush DEF Create
  <1>12. CASE Update(c)
    BY <1>12, OrphanPush DEF Update
  <1>13. CASE Delete(c)
    BY <1>13, OrphanPush DEF Delete
  <1>14. CASE RemoveFinalizer(c) \/ PassFails(c)
    BY <1>3, <1>4, <1>14 DEF RemoveFinalizer, PassFails
  <1>15. CASE SetTimesOut(c)
    <2>1. Sound(pass[c].req)
      BY <1>0, <1>15 DEF SetTimesOut, PassSound
    <2>2. EntriesSound'
      BY <1>15, <2>1 DEF SetTimesOut, OrphanInv, EntriesSound
    <2>3. \A d \in Cr : PassSound(d)'
      BY <1>0, <1>4, <1>15 DEF SetTimesOut, PassSound
    <2>. QED
      BY <1>15, <2>2, <2>3 DEF SetTimesOut, OrphanInv, DeletesPending, Benign, NoOrphans
  <1>16. CASE ReconcilerPanic(c)
    <2>1. \A d \in Cr : PassSound(d)'
      BY <1>0, <1>2, <1>16 DEF ReconcilerPanic, PassSound
    <2>. QED
      BY <1>16, <2>1, OrphanFrame DEF ReconcilerPanic
  <1>. QED
    BY <1>5, <1>6, <1>7, <1>9, <1>10, <1>11, <1>12, <1>13, <1>14, <1>15, <1>16 DEF PassStep

(***************************************************************************)
(* Processing an entry leaves no leaf behind that nobody answers for.      *)
(***************************************************************************)
LEMMA OrphanApply ==
  ASSUME TypeInv, OrphanInv, NEW t \in Target, NEW c \in Cr, WorkerApply(t, c)
  PROVE  OrphanInv'
  <1>. DEFINE e == gvk[t][c]
              new == IF e.action = "DELETE" THEN NoGvk ELSE [e EXCEPT !.status = "SUCCESS"]
  <1>1. /\ gvk \in [Target -> [Cr -> Gvk \cup {NoGvk}]] /\ device \in [Target -> Cfg]
        /\ e \in Gvk /\ e.status = "PENDING"
    BY DEF TypeInv, TypeOK, WorkerApply, Pending
  <1>2. /\ \A u \in Target, d \in Cr : gvk'[u][d] = IF u = t /\ d = c THEN new ELSE gvk[u][d]
        /\ device' = [device EXCEPT ![t] = Candidate(device[t], e)]
        /\ UNCHANGED <<spec, pass, late, faults>>
    BY <1>1 DEF WorkerApply, crVars
  <1>3. e.action # "DELETE" => /\ new \in Gvk /\ new # NoGvk
                              /\ new.action = e.action /\ new.spec = e.spec
                              /\ new.update = e.update /\ new.status = "SUCCESS"
    <2>1. e.action # "DELETE" => new \in Gvk
      BY <1>1 DEF Gvk, Status
    <2>2. e.action # "DELETE" => /\ new.action = e.action /\ new.spec = e.spec
                                /\ new.update = e.update /\ new.status = "SUCCESS"
      BY <1>1 DEF Gvk
    <2>. HIDE DEF new
    <2>. QED
      BY <2>1, <2>2, NoGvkAssumption
  <1>4. e.action = "DELETE" => new = NoGvk
    OBVIOUS
  <1>5. Sound(e)
    BY <1>1, NoGvkAssumption DEF OrphanInv, EntriesSound
  <1>. HIDE DEF new
  <1>6. \A d \in Cr : PassSound(d)'
    BY <1>2 DEF OrphanInv, PassSound
  <1>7. EntriesSound'
    <2>1. new # NoGvk => Sound(new)
      BY <1>3, <1>4, <1>5 DEF Sound
    <2>. QED
      BY <1>2, <2>1 DEF OrphanInv, EntriesSound
  <1>8. DeletesPending'
    BY <1>2, <1>3, <1>4 DEF OrphanInv, DeletesPending, Benign
  <1>9. NoOrphans'
    <2>. SUFFICES ASSUME Benign, NEW u \in Target, NEW l \in Leaves(device'[u]) \ Leaves(Factory)
                  PROVE  \E d \in Cr : gvk'[u][d] # NoGvk /\ l \in Claim(gvk'[u][d])
      BY <1>2 DEF NoOrphans, Benign
    <2>1. ASSUME l \in Leaves(device[u])
          PROVE  \E d \in Cr : gvk[u][d] # NoGvk /\ l \in Claim(gvk[u][d])
      BY <2>1 DEF OrphanInv, NoOrphans, Benign
    <2>2. CASE u # t
      BY <1>1, <1>2, <2>1, <2>2
    <2>3. CASE u = t /\ e.action = "DELETE"
      <3>1. device'[t] = ApplySet(device[t], EmptyCfg, e.path)
        BY <1>1, <1>2, <2>3 DEF Candidate
      <3>2. l \in Leaves(device[t]) \ e.path
        BY <1>1, <2>3, <3>1, ApplySetLeaves, EmptyCfgFacts
      <3>3. PICK d \in Cr : gvk[t][d] # NoGvk /\ l \in Claim(gvk[t][d])
        BY <2>1, <2>3, <3>2
      <3>4. d # c
        BY <2>3, <3>2, <3>3 DEF Claim
      <3>. QED
        BY <1>2, <2>3, <3>3, <3>4
    <2>4. CASE u = t /\ e.action # "DELETE"
      <3>1. device'[t] = ApplySet(device[t], e.update, e.delete)
        BY <1>1, <1>2, <2>4 DEF Candidate
      <3>2. e.update \in Cfg
        BY <1>1 DEF Gvk
      <3>3. l \in (Leaves(device[t]) \ e.delete) \cup Leaves(e.update)
        BY <1>1, <2>4, <3>1, <3>2, ApplySetLeaves
      <3>4. Claim(new) = Leaves(e.spec)
        BY <1>3, <2>4 DEF Claim
      <3>5. CASE l \in Leaves(e.update)
        BY <1>2, <1>3, <1>5, <2>4, <3>4, <3>5 DEF Sound
      <3>6. CASE l \in Leaves(device[t]) \ e.delete
        <4>1. PICK d \in Cr : gvk[t][d] # NoGvk /\ l \in Claim(gvk[t][d])
          BY <2>1, <2>4, <3>6
        <4>2. CASE d # c
          BY <1>2, <2>4, <4>1, <4>2
        <4>3. CASE d = c
          <5>1. l \in Leaves(e.spec)
            BY <2>4, <3>6, <4>1, <4>3 DEF Claim
          <5>. QED
            BY <1>2, <1>3, <2>4, <3>4, <5>1
        <4>. QED
          BY <4>2, <4>3
      <3>. QED
        BY <3>3, <3>5, <3>6
    <2>. QED
      BY <2>2, <2>3, <2>4
  <1>. QED
    BY <1>6, <1>7, <1>8, <1>9 DEF OrphanInv

(***************************************************************************)
(* The worker and the operators of the devices keep every leaf answered    *)
(* for, or leave a fault on record.                                        *)
(***************************************************************************)
LEMMA OrphanWorker ==
  ASSUME TypeInv, OrphanInv, NEW t \in Target, WorkerStep(t)
  PROVE  OrphanInv'
  <1>. USE DEF crVars
  <1>1. /\ gvk \in [Target -> [Cr -> Gvk \cup {NoGvk}]] /\ device \in [Target -> Cfg]
        /\ \A d \in Cr : PassSound(d)
    BY DEF TypeInv, TypeOK, OrphanInv
  <1>2. ASSUME UNCHANGED <<spec, pass>>
        PROVE  \A d \in Cr : PassSound(d)'
    BY <1>1, <1>2 DEF PassSound
  <1>3. ASSUME ~Benign', EntriesSound', UNCHANGED <<spec, pass>>
        PROVE  OrphanInv'
    BY <1>2, <1>3 DEF OrphanInv, DeletesPending, NoOrphans, Benign
  <1>4. ASSUME NEW c \in Cr, WorkerReject(t, c)
        PROVE  OrphanInv'
    <2>1. gvk[t][c] \in Gvk /\ gvk[t][c] # NoGvk
      BY <1>1, <1>4 DEF WorkerReject, Pending
    <2>2. Sound(gvk[t][c])
      BY <2>1 DEF OrphanInv, EntriesSound
    <2>3. Sound([gvk[t][c] EXCEPT !.status = "FAILED"])
      BY <2>1, <2>2 DEF Sound, Gvk
    <2>4. \A u \in Target, d \in Cr :
            gvk'[u][d] = IF u = t /\ d = c THEN [gvk[t][c] EXCEPT !.status = "FAILED"]
                         ELSE gvk[u][d]
      BY <1>1, <1>4 DEF WorkerReject
    <2>5. EntriesSound'
      BY <1>4, <2>3, <2>4 DEF WorkerReject, OrphanInv, EntriesSound
    <2>. QED
      BY <1>3, <1>4, <2>5 DEF WorkerReject, Benign
  <1>5. CASE LateSet(t)
    <2>. PICK m \in late : /\ gvk' = [gvk EXCEPT ![t][m.cr] = m.req]
                           /\ late' = late \ {m}
      BY <1>5 DEF LateSet
    <2>1. EntriesSound'
      BY <1>1 DEF OrphanInv, EntriesSound
    <2>. QED
      BY <1>3, <1>5, <2>1 DEF LateSet, Benign
  <1>6. CASE WorkerRestart(t)
    <2>1. EntriesSound'
      BY <1>1, <1>6 DEF WorkerRestart, OrphanInv, EntriesSound
    <2>. QED
      BY <1>3, <1>6, <2>1 DEF WorkerRestart, Benign
  <1>7. CASE Exhaust(t) \/ Recover(t) \/ StartTarget(t) \/ Resync(t)
    BY <1>2, <1>7, OrphanFrame DEF Exhaust, Recover, StartTarget, Resync
  <1>8. ASSUME NEW cfg \in Cfg, Tamper(t, cfg), Leaves(cfg) \subseteq Leaves(device[t]),
               faults \subseteq faults'
        PROVE  OrphanInv'
    <2>1. \A u \in Target : Leaves(device'[u]) \subseteq Leaves(device[u])
      BY <1>1, <1>8 DEF Tamper
    <2>. QED
      BY <1>2, <1>8, <2>1 DEF Tamper, OrphanInv, EntriesSound, DeletesPending, Benign, NoOrphans
  <1>9. CASE DriftRemove(t)
    <2>. PICK l \in Leaves(device[t]) : Tamper(t, ApplySet(device[t], EmptyCfg, ListEntry[l]))
      BY <1>9 DEF DriftRemove
    <2>1. device[t] \in Cfg
      BY <1>1
    <2>2. ApplySet(device[t], EmptyCfg, ListEntry[l]) \in Cfg
      BY <2>1, ApplySetType, EmptyCfgFacts
    <2>3. Leaves(ApplySet(device[t], EmptyCfg, ListEntry[l]))
            = (Leaves(device[t]) \ ListEntry[l]) \cup Leaves(EmptyCfg)
      BY <2>1, ApplySetLeaves, EmptyCfgFacts
    <2>4. Leaves(ApplySet(device[t], EmptyCfg, ListEntry[l])) \subseteq Leaves(device[t])
      BY <2>3, EmptyCfgFacts
    <2>. QED
      BY <1>8, <1>9, <2>2, <2>4 DEF DriftRemove
  <1>10. CASE DriftChange(t)
    <2>. PICK l \in Leaves(device[t]), v \in Value : Tamper(t, [device[t] EXCEPT ![l] = v])
      BY <1>10 DEF DriftChange
    <2>1. /\ [device[t] EXCEPT ![l] = v] \in Cfg
          /\ Leaves([device[t] EXCEPT ![l] = v]) \subseteq Leaves(device[t])
      BY <1>1 DEF Cfg, Leaves
    <2>. QED
      BY <1>8, <1>10, <2>1 DEF DriftChange
  <1>. QED
    BY <1>4, <1>5, <1>6, <1>7, <1>9, <1>10, OrphanApply DEF WorkerStep

(***************************************************************************)
(* As long as no entry is refused, no cache is lost, no Set is late and no *)
(* deletion overtakes an edit, every leaf on a device that was not there   *)
(* from the start is answered for by an entry of the system cache.         *)
(***************************************************************************)
THEOREM NothingOrphaned == Spec => []NoOrphans
  <1>. DEFINE IInv == TypeInv /\ SnapshotInv /\ OrphanInv
  <1>1. Init => IInv
    <2>1. Init => SnapshotInv
      BY IdlePassType DEF Init, SnapshotInv, Held
    <2>2. Init => OrphanInv
      <3>. SUFFICES ASSUME Init PROVE OrphanInv
        OBVIOUS
      <3>1. \A c \in Cr : PassSound(c)
        BY IdlePassKeyed DEF Init, PassSound, IdlePass
      <3>. QED
        BY <3>1 DEF Init, OrphanInv, EntriesSound, DeletesPending, NoOrphans
    <2>. QED
      BY <2>1, <2>2, TypeInit
  <1>2. IInv /\ [Next]_vars => IInv'
    <2>. SUFFICES ASSUME IInv, [Next]_vars PROVE OrphanInv'
      BY TypeStep, SnapshotStep
    <2>1. CASE UNCHANGED vars
      <3>1. \A d \in Cr : PassSound(d)'
        BY <2>1 DEF vars, OrphanInv, PassSound
      <3>. QED
        BY <2>1, <3>1, OrphanFrame DEF vars
    <2>. QED
      BY <2>1, OrphanUser, OrphanPass, OrphanWorker DEF Next
  <1>3. IInv => NoOrphans
    BY DEF OrphanInv
  <1>. QED
    BY <1>1, <1>2, <1>3, PTL DEF Spec
=============================================================================
