------------------------- MODULE SrlOwnershipProofs -------------------------
(***************************************************************************)
(* Who may change what on a device, and what SUCCESS in a system cache     *)
(* means, for any number of resources, targets, edits and mishaps.         *)
(***************************************************************************)
EXTENDS SrlSystemProofs

USE DEF Raw

(***************************************************************************)
(* OwnLeavesOnly speaks of the step that processes an entry.  What that    *)
(* entry touches was fixed when a pass built it from the spec it fetched   *)
(* and the entry it read, so ownership has to be carried along the whole   *)
(* way: specs, passes, system caches and late requests.                    *)
(***************************************************************************)
OwnRaw(c, raw) == Parses(raw) => Keyed(raw) /\ GetRootPaths(raw) \subseteq Territory(c)

OwnEntry(c, e) ==
  e # NoGvk =>
    /\ GetRootPaths(e.spec) \subseteq Territory(c)
    /\ e.path \subseteq Territory(c)
    /\ e.delete \subseteq Territory(c)
    /\ Leaves(e.update) \subseteq Territory(c)

OwnPass(c) ==
  /\ OwnRaw(c, spec[c]) /\ OwnRaw(c, pass[c].spec)
  /\ OwnEntry(c, pass[c].seen) /\ OwnEntry(c, pass[c].req)

OwnCaches ==
  /\ \A t \in Target, c \in Cr : OwnEntry(c, gvk[t][c])
  /\ \A m \in late : OwnEntry(m.cr, m.req)

OwnInv == (\A c \in Cr : OwnPass(c)) /\ OwnCaches

(***************************************************************************)
(* The territory of a resource is closed under list entries and holds the  *)
(* root paths of every spec its users may submit.                          *)
(***************************************************************************)
LEMMA SpecInTerritory ==
  ASSUME NEW c \in Cr, NEW s \in SpecsOf[c]
  PROVE  OwnRaw(c, s)
  <1>. SUFFICES ASSUME Parses(s) PROVE Keyed(s) /\ GetRootPaths(s) \subseteq Territory(c)
    BY DEF OwnRaw
  <1>1. Keyed(s)
    BY SystemAssumption
  <1>2. \A m \in Leaves(s) : ListEntry[m] \subseteq Territory(c)
    BY DEF Leaves, Territory
  <1>. QED
    BY <1>1, <1>2 DEF GetRootPaths, Covered

(***************************************************************************)
(* The empty configuration, which the idle pass holds, owns nothing.       *)
(***************************************************************************)
LEMMA EmptyOwned ==
  ASSUME NEW c \in Cr
  PROVE  OwnRaw(c, EmptyCfg) /\ OwnEntry(c, NoGvk)
  <1>1. Keyed(EmptyCfg)
    BY EntryAssumption DEF Keyed, EmptyCfg
  <1>2. GetRootPaths(EmptyCfg) = {}
    BY EmptyCfgFacts DEF GetRootPaths, Covered
  <1>. QED
    BY <1>1, <1>2 DEF OwnRaw, OwnEntry

(***************************************************************************)
(* A smaller set of leaves covers less.                                    *)
(***************************************************************************)
LEMMA CoveredMonotone ==
  ASSUME NEW S, NEW T, S \subseteq T
  PROVE  Covered(S) \subseteq Covered(T)
  BY DEF Covered

(***************************************************************************)
(* GetCrActualDiff deletes nothing: the merge only adds leaves.            *)
(***************************************************************************)
LEMMA ActualDiffDeletes ==
  ASSUME NEW raw \in Cfg, NEW running \in Cfg
  PROVE  GetCrActualDiff(raw, running).deletes = {}
  <1>. DEFINE new == Merge(running, raw)
  <1>1. GetCrActualDiff(raw, running).deletes = Covered(DiffDeletes(running, new))
    BY DEF GetCrActualDiff, validateNotification
  <1>2. DiffDeletes(running, new) = {}
    BY DEF DiffDeletes, Leaves, Merge
  <1>. HIDE DEF new
  <1>. QED
    BY <1>1, <1>2 DEF Covered

(***************************************************************************)
(* What a pass asks for stays in the territory of its resource: a delete   *)
(* may take a whole list entry with it, but only an entry that the spec    *)
(* written last has used.                                                  *)
(***************************************************************************)
LEMMA RequestOwn ==
  ASSUME NEW c \in Cr, NEW p \in Pass, NEW running \in Cfg,
         OwnRaw(c, p.spec), OwnEntry(c, p.seen)
  PROVE  OwnEntry(c, Request(p, running))
  <1>. DEFINE req == Request(p, running)
              root == GetRootPaths(p.spec)
  <1>. SUFFICES ASSUME req # NoGvk PROVE OwnEntry(c, req)
    BY DEF OwnEntry
  <1>1. p.seen \in Gvk \cup {NoGvk} /\ (p.spec \in Cfg \/ ~Parses(p.spec))
    BY DEF Pass, Parses
  <1>2. Parses(p.spec)
    BY DEF Request, DeleteRequest, LiveRequest, ValidateCrSpecDelete, ValidateCrSpecUpdate
  <1>3. p.spec \in Cfg /\ Keyed(p.spec) /\ root \subseteq Territory(c)
    BY <1>1, <1>2 DEF OwnRaw
  <1>4. Leaves(p.spec) \subseteq root
    <2>1. Leaves(p.spec) \in SUBSET Leaf
      BY DEF Leaves
    <2>. QED
      BY <2>1, CoveredFacts DEF GetRootPaths
  <1>5. ASSUME NEW obs, NEW action, req = getGvkUpate(p.spec, root, obs, action),
               obs.deletes \subseteq Territory(c), Leaves(obs.updates) \subseteq Leaves(p.spec)
        PROVE  OwnEntry(c, req)
    <2>1. req.spec = p.spec /\ req.path = root /\ req.delete = obs.deletes /\ req.update = obs.updates
      BY <1>5 DEF getGvkUpate
    <2>. HIDE DEF req
    <2>. QED
      BY <1>3, <1>4, <1>5, <2>1 DEF OwnEntry
  <1>6. CASE \E action : req = DriftRequest(p, running, action)
    <2>. PICK action : req = DriftRequest(p, running, action)
      BY <1>6
    <2>1. req = getGvkUpate(p.spec, root, GetCrActualDiff(p.spec, running), action)
      BY DEF DriftRequest
    <2>2. /\ GetCrActualDiff(p.spec, running).deletes = {}
          /\ Leaves(GetCrActualDiff(p.spec, running).updates) \subseteq Leaves(p.spec)
      BY <1>3, ActualDiffDeletes, ActualDiffLeaves
    <2>. HIDE DEF req, root
    <2>. QED
      BY <1>5, <2>1, <2>2
  <1>7. CASE req = SpecRequest(p) /\ p.seen # NoGvk
    <2>1. req = getGvkUpate(p.spec, root, GetCrSpecDiff(p.spec, p.seen), "UPDATE")
      BY <1>7 DEF SpecRequest
    <2>2. GetCrSpecDiff(p.spec, p.seen).deletes = Covered(DiffDeletes(p.seen.spec, p.spec))
      BY <1>7 DEF GetCrSpecDiff, validateNotification
    <2>3. DiffDeletes(p.seen.spec, p.spec) \subseteq Leaves(p.seen.spec)
      BY DEF DiffDeletes
    <2>4. GetCrSpecDiff(p.spec, p.seen).deletes \subseteq Territory(c)
      BY <1>7, <2>2, <2>3, CoveredMonotone DEF OwnEntry, GetRootPaths
    <2>5. Leaves(GetCrSpecDiff(p.spec, p.seen).updates) \subseteq Leaves(p.spec)
      BY <1>1, <1>3, <1>7, SpecDiffLeaves
    <2>. HIDE DEF req, root
    <2>. QED
      BY <1>5, <2>1, <2>4, <2>5
  <1>8. CASE req = DeleteRequest(p, running)
    <2>1. req = getGvkUpate(p.spec, root, NoDiff, "DELETE")
      BY <1>8 DEF DeleteRequest
    <2>2. NoDiff.deletes = {} /\ Leaves(NoDiff.updates) = {}
      BY EmptyCfgFacts DEF NoDiff
    <2>. HIDE DEF req, root
    <2>. QED
      BY <1>5, <2>1, <2>2
  <1>9. \/ req = DeleteRequest(p, running)
        \/ \E action : req = DriftRequest(p, running, action)
        \/ req = SpecRequest(p) /\ p.seen # NoGvk
    <2>1. CASE p.phase = "deleting"
      BY <2>1 DEF Request
    <2>2. CASE p.phase # "deleting"
      <3>1. req = LiveRequest(p, running)
        BY <2>2 DEF Request
      <3>2. \/ req = DriftRequest(p, running, "CREATE")
            \/ req = SpecRequest(p) /\ p.seen # NoGvk
            \/ req = DriftRequest(p, running, "UPDATE")
        BY <3>1 DEF LiveRequest
      <3>. HIDE DEF req
      <3>. QED
        BY <3>2
    <2>. QED
      BY <2>1, <2>2
  <1>. HIDE DEF req
  <1>. QED
    BY <1>6, <1>7, <1>8, <1>9

-----------------------------------------------------------------------------
(***************************************************************************)
(* Users submit what is theirs.                                            *)
(***************************************************************************)
LEMMA OwnUser ==
  ASSUME TypeInv, OwnInv, NEW c \in Cr, UserStep(c)
  PROVE  OwnInv'
  <1>1. UNCHANGED <<gvk, late, pass>> /\ spec \in [Cr -> Raw]
    BY DEF UserStep, UserCreate, UserUpdate, UserRetarget, UserDelete, workerVars, TypeInv, TypeOK
  <1>2. \A d \in Cr : OwnRaw(d, spec[d])
    BY DEF OwnInv, OwnPass
  <1>3. \A d \in Cr : OwnRaw(d, spec'[d])
    BY <1>1, <1>2, SpecInTerritory
    DEF UserStep, UserCreate, UserUpdate, UserRetarget, UserDelete
  <1>. QED
    BY <1>1, <1>3 DEF OwnInv, OwnPass, OwnCaches

(***************************************************************************)
(* A pass hands ownership on: from the spec and the entry it reads to its  *)
(* request, and from there to the system cache or to the late requests.    *)
(***************************************************************************)
LEMMA OwnPassStep ==
  ASSUME TypeInv, OwnInv, NEW c \in Cr, PassStep(c)
  PROVE  OwnInv'
  <1>. USE DEF crVars, workerVars, bounds
  <1>0. \A d \in Cr : OwnPass(d)
    BY DEF OwnInv
  <1>1. /\ pass \in [Cr -> Pass] /\ pass[c] \in Pass /\ pass[c].tref \in Target
        /\ gvk \in [Target -> [Cr -> Gvk \cup {NoGvk}]]
    BY DEF TypeInv, TypeOK, Pass
  <1>2. \A d \in Cr : /\ OwnRaw(d, IdlePass.spec)
                      /\ OwnEntry(d, IdlePass.seen) /\ OwnEntry(d, IdlePass.req)
    BY EmptyOwned DEF IdlePass
  <1>3. ASSUME UNCHANGED <<gvk, late, spec>>,
               \A d \in Cr : d # c => pass'[d] = pass[d], OwnPass(c)'
        PROVE  OwnInv'
    <2>1. \A d \in Cr : OwnPass(d)'
      BY <1>0, <1>3 DEF OwnPass
    <2>. QED
      BY <1>3, <2>1 DEF OwnInv, OwnCaches
  <1>4. ASSUME EndPass(c), UNCHANGED spec
        PROVE  OwnPass(c)' /\ \A d \in Cr : d # c => pass'[d] = pass[d]
    BY <1>0, <1>1, <1>2, <1>4 DEF EndPass, OwnPass
  <1>5. CASE Fetch(c)
    <2>1. /\ pass'[c].spec = spec[c] /\ pass'[c].seen = NoGvk /\ pass'[c].req = NoGvk
          /\ \A d \in Cr : d # c => pass'[d] = pass[d]
      BY <1>1, <1>5 DEF Fetch
    <2>2. OwnPass(c)'
      BY <1>0, <1>5, <2>1, EmptyOwned DEF Fetch, OwnPass
    <2>. QED
      BY <1>3, <1>5, <2>1, <2>2 DEF Fetch
  <1>6. CASE Connect(c)
    <2>1. /\ pass'[c].spec = pass[c].spec /\ pass'[c].seen = pass[c].seen /\ pass'[c].req = pass[c].req
          /\ \A d \in Cr : d # c => pass'[d] = pass[d]
      BY <1>1, <1>6 DEF Connect, Pass
    <2>. QED
      BY <1>0, <1>3, <1>6, <2>1 DEF Connect, OwnPass
  <1>7. CASE GetSystemConfig(c)
    <2>1. CASE EndPass(c)
      BY <1>3, <1>4, <1>7, <2>1 DEF GetSystemConfig
    <2>2. CASE pass' = [pass EXCEPT ![c].pc = "finalize"]
      <3>1. /\ pass'[c].spec = pass[c].spec /\ pass'[c].seen = pass[c].seen /\ pass'[c].req = pass[c].req
            /\ \A d \in Cr : d # c => pass'[d] = pass[d]
        BY <1>1, <2>2 DEF Pass
      <3>. QED
        BY <1>0, <1>3, <1>7, <3>1 DEF GetSystemConfig, OwnPass
    <2>3. CASE pass' = [pass EXCEPT ![c].pc = "running", ![c].seen = gvk[pass[c].tref][c]]
      <3>1. /\ pass'[c].spec = pass[c].spec /\ pass'[c].req = pass[c].req
            /\ pass'[c].seen = gvk[pass[c].tref][c]
            /\ \A d \in Cr : d # c => pass'[d] = pass[d]
        BY <1>1, <2>3 DEF Pass
      <3>2. OwnEntry(c, gvk[pass[c].tref][c])
        BY <1>1 DEF OwnInv, OwnCaches
      <3>. QED
        BY <1>0, <1>3, <1>7, <3>1, <3>2 DEF GetSystemConfig, OwnPass
    <2>. QED
      BY <1>7, <2>1, <2>2, <2>3 DEF GetSystemConfig
  <1>8. ASSUME NEW running \in Cfg, Decide(c, running), UNCHANGED <<gvk, late, spec>>
        PROVE  OwnInv'
    <2>. DEFINE req == Request(pass[c], running)
    <2>1. CASE req = NoGvk
      BY <1>3, <1>4, <1>8, <2>1 DEF Decide
    <2>2. CASE req # NoGvk
      <3>1. OwnEntry(c, req)
        BY <1>0, <1>1, RequestOwn DEF OwnPass
      <3>. HIDE DEF req
      <3>2. pass' = [pass EXCEPT ![c].pc = "set", ![c].req = req]
        BY <1>8, <2>2 DEF Decide, req
      <3>3. /\ pass'[c].spec = pass[c].spec /\ pass'[c].seen = pass[c].seen /\ pass'[c].req = req
            /\ \A d \in Cr : d # c => pass'[d] = pass[d]
        BY <1>1, <3>2 DEF Pass
      <3>. QED
        BY <1>0, <1>3, <1>8, <3>1, <3>3 DEF OwnPass
    <2>. QED
      BY <2>1, <2>2
  <1>9. CASE GetRunningConfig(c)
    <2>1. copy[pass[c].tref] \in Cfg
      BY <1>1 DEF TypeInv, TypeOK
    <2>. QED
      BY <1>8, <1>9, <2>1 DEF GetRunningConfig
  <1>10. CASE GetRunningConfigNoUpdate(c)
    BY <1>8, <1>10, EmptyCfgFacts DEF GetRunningConfigNoUpdate
  <1>11. ASSUME NEW action, Push(c, action), UNCHANGED <<spec, late>>
         PROVE  OwnInv'
    <2>1. \A t \in Target, d \in Cr :
            gvk'[t][d] = IF t = pass[c].tref /\ d = c THEN pass[c].req ELSE gvk[t][d]
      BY <1>1, <1>11 DEF Push
    <2>2. OwnCaches'
      BY <1>0, <1>11, <2>1 DEF OwnInv, OwnCaches, OwnPass
    <2>3. \A d \in Cr : OwnPass(d)'
      BY <1>0, <1>4, <1>11 DEF Push, OwnPass
    <2>. QED
      BY <2>2, <2>3 DEF OwnInv
  <1>12. CASE Create(c) \/ Update(c) \/ Delete(c)
    BY <1>11, <1>12 DEF Create, Update, Delete
  <1>13. CASE RemoveFinalizer(c) \/ PassFails(c)
    BY <1>3, <1>4, <1>13 DEF RemoveFinalizer, PassFails
  <1>14. CASE SetTimesOut(c)
    <2>1. OwnCaches'
      BY <1>0, <1>14 DEF SetTimesOut, OwnInv, OwnCaches, OwnPass
    <2>2. \A d \in Cr : OwnPass(d)'
      BY <1>0, <1>4, <1>14 DEF SetTimesOut, OwnPass
    <2>. QED
      BY <2>1, <2>2 DEF OwnInv
  <1>15. CASE ReconcilerPanic(c)
    <2>1. \A d \in Cr : OwnPass(d)'
      BY <1>0, <1>2, <1>15 DEF ReconcilerPanic, OwnPass
    <2>. QED
      BY <1>15, <2>1 DEF ReconcilerPanic, OwnInv, OwnCaches
  <1>. QED
    BY <1>5, <1>6, <1>7, <1>9, <1>10, <1>12, <1>13, <1>14, <1>15 DEF PassStep

(***************************************************************************)
(* The worker changes the status of an entry, removes entries, or takes a  *)
(* late request over.                                                      *)
(***************************************************************************)
LEMMA OwnWorker ==
  ASSUME TypeInv, OwnInv, NEW t \in Target, WorkerStep(t)
  PROVE  OwnInv'
  <1>. USE DEF crVars
  <1>1. /\ gvk \in [Target -> [Cr -> Gvk \cup {NoGvk}]] /\ OwnCaches
        /\ late \in SUBSET [cr : Cr, tref : Target, req : Gvk]
        /\ \A d \in Cr : OwnPass(d)
    BY DEF TypeInv, TypeOK, OwnInv
  <1>2. UNCHANGED <<spec, pass>>
    BY DEF WorkerStep, WorkerApply, WorkerReject, LateSet, Exhaust, Recover, WorkerRestart,
           StartTarget, Resync, DriftRemove, DriftChange, Tamper
  <1>3. \A d \in Cr : OwnPass(d)'
    BY <1>1, <1>2 DEF OwnPass
  <1>4. SUFFICES OwnCaches'
    BY <1>3 DEF OwnInv
  <1>5. ASSUME NEW c \in Cr, Pending(t, c), NEW s
        PROVE  OwnEntry(c, [gvk[t][c] EXCEPT !.status = s])
    <2>1. gvk[t][c] \in Gvk /\ gvk[t][c] # NoGvk /\ OwnEntry(c, gvk[t][c])
      BY <1>1, <1>5 DEF Pending, OwnCaches
    <2>. QED
      BY <2>1 DEF OwnEntry, Gvk
  <1>6. ASSUME NEW c \in Cr, NEW e, OwnEntry(c, e), gvk' = [gvk EXCEPT ![t][c] = e], late' \subseteq late
        PROVE  OwnCaches'
    <2>1. \A u \in Target, d \in Cr : gvk'[u][d] = IF u = t /\ d = c THEN e ELSE gvk[u][d]
      BY <1>1, <1>6
    <2>. QED
      BY <1>1, <1>6, <2>1 DEF OwnCaches
  <1>7. ASSUME NEW c \in Cr, WorkerApply(t, c)
        PROVE  OwnCaches'
    <2>. DEFINE new == IF gvk[t][c].action = "DELETE" THEN NoGvk
                       ELSE [gvk[t][c] EXCEPT !.status = "SUCCESS"]
    <2>1. OwnEntry(c, new)
      BY <1>5, <1>7, EmptyOwned DEF WorkerApply
    <2>2. gvk' = [gvk EXCEPT ![t][c] = new] /\ UNCHANGED late
      BY <1>7 DEF WorkerApply
    <2>. HIDE DEF new
    <2>. QED
      BY <1>6, <2>1, <2>2
  <1>8. ASSUME NEW c \in Cr, WorkerReject(t, c)
        PROVE  OwnCaches'
    <2>. DEFINE new == [gvk[t][c] EXCEPT !.status = "FAILED"]
    <2>1. OwnEntry(c, new)
      BY <1>5, <1>8 DEF WorkerReject
    <2>2. gvk' = [gvk EXCEPT ![t][c] = new] /\ UNCHANGED late
      BY <1>8 DEF WorkerReject
    <2>. HIDE DEF new
    <2>. QED
      BY <1>6, <2>1, <2>2
  <1>9. CASE LateSet(t)
    <2>. PICK m \in late : /\ gvk' = [gvk EXCEPT ![t][m.cr] = m.req]
                           /\ late' = late \ {m}
      BY <1>9 DEF LateSet
    <2>1. m.cr \in Cr /\ OwnEntry(m.cr, m.req)
      BY <1>1 DEF OwnCaches
    <2>. QED
      BY <1>6, <2>1
  <1>10. CASE WorkerRestart(t)
    <2>1. \A u \in Target, d \in Cr : gvk'[u][d] = IF u = t THEN NoGvk ELSE gvk[u][d]
      BY <1>1, <1>10 DEF WorkerRestart
    <2>. QED
      BY <1>1, <1>10, <2>1, EmptyOwned DEF WorkerRestart, OwnCaches
  <1>11. CASE Exhaust(t) \/ Recover(t) \/ StartTarget(t) \/ Resync(t) \/ DriftRemove(t) \/ DriftChange(t)
    <2>1. UNCHANGED <<gvk, late>>
      BY <1>11 DEF Exhaust, Recover, StartTarget, Resync, DriftRemove, DriftChange, Tamper
    <2>. QED
      BY <1>1, <2>1 DEF OwnCaches
  <1>. QED
    BY <1>7, <1>8, <1>9, <1>10, <1>11 DEF WorkerStep

(***************************************************************************)
(* Ownership is kept by every step.                                        *)
(***************************************************************************)
LEMMA OwnStep == TypeInv /\ OwnInv /\ [Next]_vars => OwnInv'
  <1>. SUFFICES ASSUME TypeInv, OwnInv, [Next]_vars PROVE OwnInv'
    OBVIOUS
  <1>1. CASE UNCHANGED vars
    BY <1>1 DEF vars, OwnInv, OwnPass, OwnCaches
  <1>. QED
    BY <1>1, OwnUser, OwnPassStep, OwnWorker DEF Next

(***************************************************************************)
(* Nothing is owned by anyone else to begin with.                          *)
(***************************************************************************)
LEMMA OwnInit == Init => OwnInv
  <1>. SUFFICES ASSUME Init PROVE OwnInv
    OBVIOUS
  <1>1. \A c \in Cr : OwnPass(c)
    BY EmptyOwned DEF Init, IdlePass, OwnPass
  <1>. QED
    BY <1>1, EmptyOwned DEF Init, OwnInv, OwnCaches

(***************************************************************************)
(* An entry changes leaves of its own territory only.                      *)
(***************************************************************************)
LEMMA CandidateOwn ==
  ASSUME NEW c \in Cr, NEW e \in Gvk, OwnEntry(c, e), NEW cfg \in Cfg,
         NEW l \in Leaf, l \notin Territory(c)
  PROVE  Candidate(cfg, e)[l] = cfg[l]
  <1>1. l \notin e.path /\ l \notin e.delete /\ e.update[l] = Absent
    BY NoGvkAssumption DEF OwnEntry, Leaves
  <1>. QED
    BY <1>1 DEF Candidate, ApplySet, Merge, EmptyCfg

(***************************************************************************)
(* Apart from what operators do, a leaf of a device changes only when the  *)
(* worker processes an entry, and the leaf lies in the territory of that   *)
(* entry's resource.                                                       *)
(***************************************************************************)
THEOREM OwnLeaves == Spec => OwnLeavesOnly
  <1>. DEFINE
         A == \A t \in Target, l \in Leaf :
                device'[t][l] # device[t][l] =>
                  \/ mishaps' # mishaps
                  \/ \E c \in Cr : Pending(t, c) /\ gvk'[t][c] # gvk[t][c] /\ l \in Territory(c)
  <1>1. Init => TypeInv /\ OwnInv
    BY TypeInit, OwnInit
  <1>2. TypeInv /\ OwnInv /\ [Next]_vars => TypeInv' /\ OwnInv'
    BY TypeStep, OwnStep
  <1>3. TypeInv /\ OwnInv /\ [Next]_vars => [A]_vars
    <2>. SUFFICES ASSUME TypeInv, OwnInv, Next, NEW t \in Target, NEW l \in Leaf,
                         device'[t][l] # device[t][l], mishaps' = mishaps
                  PROVE  \E c \in Cr : Pending(t, c) /\ gvk'[t][c] # gvk[t][c] /\ l \in Territory(c)
      OBVIOUS
    <2>1. /\ gvk \in [Target -> [Cr -> Gvk \cup {NoGvk}]] /\ device \in [Target -> Cfg]
          /\ mishaps \in Nat
      BY SystemAssumption DEF TypeInv, TypeOK
    <2>2. ASSUME NEW d \in Cr, UserStep(d) PROVE FALSE
      BY <2>2 DEF UserStep, UserCreate, UserUpdate, UserRetarget, UserDelete, workerVars
    <2>3. ASSUME NEW d \in Cr, PassStep(d) PROVE FALSE
      BY <2>3
      DEF PassStep, Fetch, Connect, GetSystemConfig, RemoveFinalizer, GetRunningConfig,
          GetRunningConfigNoUpdate, Create, Update, Delete, SetTimesOut, PassFails,
          ReconcilerPanic, workerVars
    <2>4. ASSUME NEW u \in Target, DriftRemove(u) \/ DriftChange(u) PROVE FALSE
      <3>1. ASSUME NEW cfg, Tamper(u, cfg) PROVE FALSE
        BY <2>1, <3>1 DEF Tamper, Mishap
      <3>. QED
        BY <2>4, <3>1 DEF DriftRemove, DriftChange
    <2>5. ASSUME NEW u \in Target, NEW c \in Cr, WorkerApply(u, c)
          PROVE  Pending(t, c) /\ gvk'[t][c] # gvk[t][c] /\ l \in Territory(c)
      <3>1. u = t /\ device'[t] = Candidate(device[t], gvk[t][c])
        BY <2>1, <2>5 DEF WorkerApply
      <3>2. gvk[t][c] \in Gvk /\ Pending(t, c)
        BY <2>1, <2>5, <3>1 DEF WorkerApply, Pending
      <3>3. l \in Territory(c)
        BY <2>1, <3>1, <3>2, CandidateOwn DEF OwnInv, OwnCaches
      <3>4. gvk'[t][c] = NoGvk \/ gvk'[t][c].status = "SUCCESS"
        BY <2>1, <2>5, <3>1, <3>2 DEF WorkerApply, Gvk
      <3>5. gvk[t][c] # NoGvk /\ gvk[t][c].status = "PENDING"
        BY <3>2 DEF Pending
      <3>. QED
        BY <3>2, <3>3, <3>4, <3>5
    <2>6. ASSUME NEW u \in Target, WorkerStep(u)
          PROVE  \E c \in Cr : WorkerApply(u, c)
      BY <2>4, <2>6
      DEF WorkerStep, WorkerReject, LateSet, Exhaust, Recover, WorkerRestart, StartTarget, Resync
    <2>. QED
      BY <2>2, <2>3, <2>5, <2>6 DEF Next
  <1>. QED
    BY <1>1, <1>2, <1>3, PTL DEF Spec, OwnLeavesOnly

-----------------------------------------------------------------------------
(***************************************************************************)
(* SUCCESS in a system cache.  AppliedIsPresent is about entries that were *)
(* processed; what makes it inductive is what a pending entry, the request *)
(* of a pass and the entry a pass has read promise: with the device as it  *)
(* is now, the diff of the entry would bring the whole spec onto it.       *)
(***************************************************************************)
Calm == Disjoint /\ faults \cap {"reject", "late", "removed", "overwritten"} = {}

Holds(cfg, s) == \A l \in Leaf : s[l] # Absent => cfg[l] = s[l]

WillHold(cfg, e) ==
  \A l \in Leaf : e.spec[l] # Absent =>
    \/ e.update[l] = e.spec[l]
    \/ e.update[l] = Absent /\ l \notin e.delete /\ cfg[l] = e.spec[l]

Truthful(cfg, e) ==
  e # NoGvk =>
    /\ e.status # "FAILED"
    /\ e.status = "SUCCESS" => Holds(cfg, e.spec)
    /\ e.status = "PENDING" /\ e.action # "DELETE" => WillHold(cfg, e)

TruthfulPass(c) ==
  /\ pass[c].pc \in {"running", "set"} => Truthful(device[pass[c].tref], pass[c].seen)
  /\ pass[c].pc = "set" => Truthful(device[pass[c].tref], pass[c].req)

TruthfulTarget(t) ==
  /\ up[t] => copy[t] = device[t]
  /\ \A c \in Cr : Truthful(device[t], gvk[t][c])

TruthInv ==
  Calm => (\A t \in Target : TruthfulTarget(t)) /\ (\A c \in Cr : TruthfulPass(c))

(***************************************************************************)
(* Only the leaves of its spec matter to what an entry says.               *)
(***************************************************************************)
LEMMA TruthfulFrame ==
  ASSUME NEW e \in Gvk \cup {NoGvk}, NEW cfg, NEW cfg2, Truthful(cfg, e),
         e # NoGvk => \A l \in Leaves(e.spec) : cfg2[l] = cfg[l]
  PROVE  Truthful(cfg2, e)
  BY DEF Truthful, Holds, WillHold, Leaves

(***************************************************************************)
(* Processing a pending entry brings its spec onto the device.             *)
(***************************************************************************)
LEMMA CandidateHolds ==
  ASSUME NEW e \in Gvk, NEW cfg \in Cfg, e.action # "DELETE", WillHold(cfg, e)
  PROVE  Holds(Candidate(cfg, e), e.spec)
  BY DEF Holds, WillHold, Candidate, ApplySet, Merge

(***************************************************************************)
(* The diff against the recorded spec, on a device that holds the recorded *)
(* spec.  A delete shortened to its list entry would take leaves of the    *)
(* new spec with it, but then the new spec sets the key of that entry, and *)
(* the key is not among the deletes.                                       *)
(***************************************************************************)
LEMMA SpecDiffHolds ==
  ASSUME NEW raw \in Cfg, Keyed(raw), NEW g \in Gvk, NEW cfg, Holds(cfg, g.spec),
         NEW l \in Leaf, raw[l] # Absent
  PROVE  LET d == GetCrSpecDiff(raw, g)
         IN  \/ d.updates[l] = raw[l]
             \/ d.updates[l] = Absent /\ l \notin d.deletes /\ cfg[l] = raw[l]
  <1>. DEFINE changed == {m \in Leaf : raw[m] # Absent /\ raw[m] # g.spec[m]}
  <1>1. /\ GetCrSpecDiff(raw, g).deletes = Covered(DiffDeletes(g.spec, raw))
        /\ GetCrSpecDiff(raw, g).updates = DiffUpdates(g.spec, raw)
    BY NoGvkAssumption DEF GetCrSpecDiff, validateNotification
  <1>2. DiffUpdates(g.spec, raw)[l] = IF ListEntry[l] \cap changed # {} THEN raw[l] ELSE Absent
    BY DEF DiffUpdates
  <1>3. CASE ListEntry[l] \cap changed = {}
    <2>1. l \notin changed
      BY <1>3, EntryAssumption
    <2>2. raw[l] = g.spec[l] /\ cfg[l] = raw[l]
      BY <2>1 DEF Holds
    <2>3. l \notin Covered(DiffDeletes(g.spec, raw))
      BY DEF Covered, DiffDeletes, Leaves, Keyed
    <2>. HIDE DEF changed
    <2>. QED
      BY <1>1, <1>2, <1>3, <2>2, <2>3
  <1>. HIDE DEF changed
  <1>. QED
    BY <1>1, <1>2, <1>3

(***************************************************************************)
(* The diff against the running configuration, whether the worker's copy   *)
(* was the device or the answer was taken for an empty configuration.      *)
(***************************************************************************)
LEMMA ActualDiffHolds ==
  ASSUME NEW raw \in Cfg, NEW cfg \in Cfg, NEW running \in {cfg, EmptyCfg},
         NEW l \in Leaf, raw[l] # Absent
  PROVE  LET d == GetCrActualDiff(raw, running)
         IN  \/ d.updates[l] = raw[l]
             \/ d.updates[l] = Absent /\ l \notin d.deletes /\ cfg[l] = raw[l]
  <1>. DEFINE new == Merge(running, raw)
              changed == {m \in Leaf : new[m] # Absent /\ new[m] # running[m]}
  <1>1. GetCrActualDiff(raw, running).updates = DiffUpdates(running, new)
    BY DEF GetCrActualDiff, validateNotification
  <1>2. GetCrActualDiff(raw, running).deletes = {}
    BY ActualDiffDeletes, EmptyCfgFacts
  <1>3. DiffUpdates(running, new)[l] = IF ListEntry[l] \cap changed # {} THEN new[l] ELSE Absent
    BY DEF DiffUpdates
  <1>4. new[l] = raw[l]
    BY DEF Merge
  <1>5. CASE ListEntry[l] \cap changed = {}
    <2>1. running[l] = raw[l]
      BY <1>4, <1>5, EntryAssumption
    <2>2. cfg[l] = raw[l]
      BY <2>1 DEF EmptyCfg
    <2>. HIDE DEF changed, new
    <2>. QED
      BY <1>1, <1>2, <1>3, <1>5, <2>2
  <1>. HIDE DEF changed, new
  <1>. QED
    BY <1>1, <1>3, <1>4, <1>5

(***************************************************************************)
(* What a pass asks for would bring its spec onto the device.              *)
(***************************************************************************)
LEMMA RequestTruthful ==
  ASSUME NEW p \in Pass, NEW cfg \in Cfg, NEW running \in {cfg, EmptyCfg},
         KeyedRaw(p.spec), Truthful(cfg, p.seen), p.seen # NoGvk => p.seen.status # "PENDING"
  PROVE  Truthful(cfg, Request(p, running))
  <1>. DEFINE req == Request(p, running)
  <1>. SUFFICES ASSUME req # NoGvk PROVE Truthful(cfg, req)
    BY DEF Truthful
  <1>1. p.seen \in Gvk \cup {NoGvk} /\ (p.spec \in Cfg \/ ~Parses(p.spec)) /\ running \in Cfg
    BY EmptyCfgFacts DEF Pass, Parses
  <1>2. req.status = "PENDING"
    BY <1>1, RequestType
  <1>3. CASE p.phase = "deleting"
    <2>1. req.action = "DELETE"
      BY <1>3 DEF Request, DeleteRequest, getGvkUpate
    <2>. HIDE DEF req
    <2>. QED
      BY <1>2, <2>1 DEF Truthful
  <1>4. CASE p.phase # "deleting"
    <2>1. req = LiveRequest(p, running)
      BY <1>4 DEF Request
    <2>2. p.spec \in Cfg /\ Keyed(p.spec)
      BY <1>1, <2>1 DEF LiveRequest, ValidateCrSpecUpdate, KeyedRaw
    <2>3. ASSUME NEW obs, NEW action, req = getGvkUpate(p.spec, GetRootPaths(p.spec), obs, action),
                 \A l \in Leaf : p.spec[l] # Absent =>
                   \/ obs.updates[l] = p.spec[l]
                   \/ obs.updates[l] = Absent /\ l \notin obs.deletes /\ cfg[l] = p.spec[l]
          PROVE  Truthful(cfg, req)
      <3>1. req.spec = p.spec /\ req.update = obs.updates /\ req.delete = obs.deletes
        BY <2>3 DEF getGvkUpate
      <3>. HIDE DEF req
      <3>. QED
        BY <1>2, <2>3, <3>1 DEF Truthful, WillHold
    <2>4. ASSUME NEW action, req = DriftRequest(p, running, action)
          PROVE  Truthful(cfg, req)
      <3>1. req = getGvkUpate(p.spec, GetRootPaths(p.spec), GetCrActualDiff(p.spec, running), action)
        BY <2>4 DEF DriftRequest
      <3>. HIDE DEF req
      <3>. QED
        BY <2>2, <2>3, <3>1, ActualDiffHolds
    <2>5. ASSUME req = SpecRequest(p), p.seen # NoGvk
          PROVE  Truthful(cfg, req)
      <3>1. p.seen \in Gvk /\ Holds(cfg, p.seen.spec)
        BY <1>1, <2>5 DEF Truthful, Gvk, Status
      <3>2. req = getGvkUpate(p.spec, GetRootPaths(p.spec), GetCrSpecDiff(p.spec, p.seen), "UPDATE")
        BY <2>5 DEF SpecRequest
      <3>3. \A l \in Leaf : p.spec[l] # Absent =>
              LET d == GetCrSpecDiff(p.spec, p.seen)
              IN  \/ d.updates[l] = p.spec[l]
                  \/ d.updates[l] = Absent /\ l \notin d.deletes /\ cfg[l] = p.spec[l]
        BY <2>2, <3>1, SpecDiffHolds
      <3>. HIDE DEF req
      <3>. QED
        BY <2>3, <3>2, <3>3
    <2>6. \/ req = DriftRequest(p, running, "CREATE")
          \/ req = SpecRequest(p) /\ p.seen # NoGvk
          \/ req = DriftRequest(p, running, "UPDATE")
      BY <2>1 DEF LiveRequest
    <2>. HIDE DEF req
    <2>. QED
      BY <2>4, <2>5, <2>6
  <1>. QED
    BY <1>3, <1>4

-----------------------------------------------------------------------------
(***************************************************************************)
(* A step that leaves devices, workers and caches alone only has to keep   *)
(* the passes truthful.                                                    *)
(***************************************************************************)
LEMMA TruthFrame ==
  ASSUME TruthInv, UNCHANGED <<gvk, device, copy, up>>, faults \subseteq faults',
         Calm /\ (\A c \in Cr : TruthfulPass(c)) => \A c \in Cr : TruthfulPass(c)'
  PROVE  TruthInv'
  BY DEF TruthInv, TruthfulTarget, Calm

(***************************************************************************)
(* What a pass decides is truthful about the device of its target.         *)
(***************************************************************************)
LEMMA DecideTruthful ==
  ASSUME TypeInv, SnapshotInv, OwnInv, Calm, NEW c \in Cr, TruthfulPass(c),
         pass[c].pc = "running",
         NEW running \in {device[pass[c].tref], EmptyCfg}, Decide(c, running), UNCHANGED device
  PROVE  TruthfulPass(c)'
  <1>. DEFINE req == Request(pass[c], running)
              t == pass[c].tref
  <1>1. pass[c] \in Pass /\ pass \in [Cr -> Pass] /\ device[t] \in Cfg
    BY DEF TypeInv, TypeOK, Pass
  <1>2. CASE req = NoGvk
    BY <1>1, <1>2, IdlePassType DEF Decide, EndPass, TruthfulPass
  <1>3. CASE req # NoGvk
    <2>1. pass[c].seen # NoGvk => pass[c].seen.status # "PENDING"
      BY DEF SnapshotInv, Held, Calm
    <2>2. KeyedRaw(pass[c].spec) /\ Truthful(device[t], pass[c].seen)
      BY DEF OwnInv, OwnPass, OwnRaw, KeyedRaw, TruthfulPass
    <2>3. Truthful(device[t], req)
      BY <1>1, <2>1, <2>2, RequestTruthful
    <2>4. pass' = [pass EXCEPT ![c].pc = "set", ![c].req = req]
      BY <1>3 DEF Decide
    <2>. HIDE DEF req
    <2>5. /\ pass'[c].pc = "set" /\ pass'[c].tref = t /\ pass'[c].seen = pass[c].seen
          /\ pass'[c].req = req
      BY <1>1, <2>4 DEF Pass
    <2>. QED
      BY <2>2, <2>3, <2>5 DEF TruthfulPass
  <1>. QED
    BY <1>2, <1>3

(***************************************************************************)
(* The steps of a pass keep system caches and passes truthful.             *)
(***************************************************************************)
LEMMA TruthPass ==
  ASSUME TypeInv, SnapshotInv, OwnInv, TruthInv, NEW c \in Cr, PassStep(c)
  PROVE  TruthInv'
  <1>. USE DEF crVars, workerVars, bounds
  <1>1. /\ pass \in [Cr -> Pass] /\ pass[c] \in Pass /\ pass[c].tref \in Target
        /\ gvk \in [Target -> [Cr -> Gvk \cup {NoGvk}]]
    BY DEF TypeInv, TypeOK, Pass
  <1>2. ASSUME UNCHANGED <<gvk, device, copy, up>>, faults \subseteq faults',
               \A d \in Cr : d # c => pass'[d] = pass[d],
               Calm /\ TruthfulPass(c) => TruthfulPass(c)'
        PROVE  TruthInv'
    <2>1. \A d \in Cr : d # c /\ TruthfulPass(d) => TruthfulPass(d)'
      BY <1>2 DEF TruthfulPass
    <2>. QED
      BY <1>2, <2>1, TruthFrame
  <1>3. ASSUME EndPass(c)
        PROVE  /\ pass'[c].pc = "idle" /\ TruthfulPass(c)'
               /\ \A d \in Cr : d # c => pass'[d] = pass[d]
    BY <1>1, <1>3, IdlePassType DEF EndPass, TruthfulPass
  <1>4. CASE Fetch(c) \/ Connect(c)
    <2>1. pass'[c].pc \in {"connect", "system"} /\ \A d \in Cr : d # c => pass'[d] = pass[d]
      BY <1>1, <1>4 DEF Fetch, Connect, Pass
    <2>2. TruthfulPass(c)'
      BY <2>1 DEF TruthfulPass
    <2>. QED
      BY <1>2, <1>4, <2>1, <2>2 DEF Fetch, Connect
  <1>5. CASE GetSystemConfig(c)
    <2>1. CASE EndPass(c)
      BY <1>2, <1>3, <1>5, <2>1 DEF GetSystemConfig
    <2>2. CASE pass' = [pass EXCEPT ![c].pc = "finalize"]
      <3>1. pass'[c].pc = "finalize" /\ \A d \in Cr : d # c => pass'[d] = pass[d]
        BY <1>1, <2>2 DEF Pass
      <3>2. TruthfulPass(c)'
        BY <3>1 DEF TruthfulPass
      <3>. QED
        BY <1>2, <1>5, <3>1, <3>2 DEF GetSystemConfig
    <2>3. CASE pass' = [pass EXCEPT ![c].pc = "running", ![c].seen = gvk[pass[c].tref][c]]
      <3>1. /\ pass'[c].pc = "running" /\ pass'[c].tref = pass[c].tref
            /\ pass'[c].seen = gvk[pass[c].tref][c]
            /\ \A d \in Cr : d # c => pass'[d] = pass[d]
        BY <1>1, <2>3 DEF Pass
      <3>2. Calm => Truthful(device[pass[c].tref], gvk[pass[c].tref][c])
        BY <1>1 DEF TruthInv, TruthfulTarget
      <3>3. Calm => TruthfulPass(c)'
        BY <1>5, <3>1, <3>2 DEF GetSystemConfig, TruthfulPass
      <3>. QED
        BY <1>2, <1>5, <3>1, <3>3 DEF GetSystemConfig
    <2>. QED
      BY <1>5, <2>1, <2>2, <2>3 DEF GetSystemConfig
  <1>6. ASSUME NEW running, Decide(c, running), pass[c].pc = "running",
               UNCHANGED <<gvk, device, copy, up, faults>>,
               Calm => running \in {device[pass[c].tref], EmptyCfg}
        PROVE  TruthInv'
    <2>1. \A d \in Cr : d # c => pass'[d] = pass[d]
      BY <1>1, <1>3, <1>6 DEF Decide
    <2>2. Calm /\ TruthfulPass(c) => TruthfulPass(c)'
      BY <1>6, DecideTruthful
    <2>. QED
      BY <1>2, <1>6, <2>1, <2>2
  <1>7. CASE GetRunningConfig(c)
    <2>1. Calm => copy[pass[c].tref] = device[pass[c].tref]
      BY <1>1, <1>7 DEF GetRunningConfig, TruthInv, TruthfulTarget
    <2>. QED
      BY <1>6, <1>7, <2>1 DEF GetRunningConfig
  <1>8. CASE GetRunningConfigNoUpdate(c)
    BY <1>6, <1>8 DEF GetRunningConfigNoUpdate
  <1>9. ASSUME NEW action, Push(c, action), UNCHANGED <<device, copy, up>>, faults \subseteq faults'
        PROVE  TruthInv'
    <2>. SUFFICES ASSUME Calm'
                  PROVE  (\A t \in Target : TruthfulTarget(t)') /\ (\A d \in Cr : TruthfulPass(d)')
      BY DEF TruthInv
    <2>1. Calm
      BY <1>9 DEF Calm
    <2>2. \A t \in Target, d \in Cr :
            gvk'[t][d] = IF t = pass[c].tref /\ d = c THEN pass[c].req ELSE gvk[t][d]
      BY <1>1, <1>9 DEF Push
    <2>3. Truthful(device[pass[c].tref], pass[c].req)
      BY <1>9, <2>1 DEF Push, TruthInv, TruthfulPass
    <2>4. \A t \in Target : TruthfulTarget(t)'
      BY <1>9, <2>1, <2>2, <2>3 DEF TruthInv, TruthfulTarget
    <2>5. \A d \in Cr : TruthfulPass(d)'
      BY <1>3, <1>9, <2>1 DEF Push, TruthInv, TruthfulPass
    <2>. QED
      BY <2>4, <2>5
  <1>10. CASE Create(c) \/ Update(c) \/ Delete(c)
    BY <1>9, <1>10 DEF Create, Update, Delete
  <1>11. CASE RemoveFinalizer(c) \/ SetTimesOut(c) \/ PassFails(c)
    BY <1>2, <1>3, <1>11 DEF RemoveFinalizer, SetTimesOut, PassFails
  <1>12. CASE ReconcilerPanic(c)
    <2>1. \A d \in Cr : TruthfulPass(d)'
      BY <1>12, IdlePassType DEF ReconcilerPanic, TruthfulPass
    <2>. QED
      BY <1>12, <2>1, TruthFrame DEF ReconcilerPanic
  <1>. QED
    BY <1>4, <1>5, <1>7, <1>8, <1>10, <1>11, <1>12 DEF PassStep

(***************************************************************************)
(* Processing an entry makes it true and, between resources that share no  *)
(* list entry, takes nothing from what the other entries and passes say.   *)
(***************************************************************************)
LEMMA TruthApply ==
  ASSUME TypeInv, SnapshotInv, OwnInv, TruthInv, NEW t \in Target, NEW c \in Cr, WorkerApply(t, c)
  PROVE  TruthInv'
  <1>. DEFINE e == gvk[t][c]
              new == IF e.action = "DELETE" THEN NoGvk ELSE [e EXCEPT !.status = "SUCCESS"]
  <1>. SUFFICES ASSUME Calm
                PROVE  (\A u \in Target : TruthfulTarget(u)') /\ (\A d \in Cr : TruthfulPass(d)')
    BY DEF TruthInv, Calm, WorkerApply
  <1>1. /\ gvk \in [Target -> [Cr -> Gvk \cup {NoGvk}]] /\ device \in [Target -> Cfg]
        /\ copy \in [Target -> Cfg] /\ pass \in [Cr -> Pass]
        /\ \A d \in Cr : /\ pass[d].tref \in Target /\ pass[d].seen \in Gvk \cup {NoGvk}
                          /\ pass[d].req \in Gvk \cup {NoGvk}
    BY DEF TypeInv, TypeOK, Pass
  <1>2. e \in Gvk /\ e # NoGvk /\ e.status = "PENDING" /\ up[t]
    BY <1>1 DEF WorkerApply, Pending
  <1>3. /\ \A u \in Target, d \in Cr : gvk'[u][d] = IF u = t /\ d = c THEN new ELSE gvk[u][d]
        /\ \A u \in Target : device'[u] = IF u = t THEN Candidate(device[t], e) ELSE device[u]
        /\ \A u \in Target : copy'[u] = IF u = t THEN Candidate(copy[t], e) ELSE copy[u]
        /\ UNCHANGED <<pass, up>>
    BY <1>1 DEF WorkerApply
  <1>4. /\ \A u \in Target : TruthfulTarget(u)
        /\ \A d \in Cr : TruthfulPass(d)
    BY DEF TruthInv
  <1>5. ASSUME NEW d \in Cr, d # c, NEW f \in Gvk \cup {NoGvk}, OwnEntry(d, f), NEW u \in Target,
               Truthful(device[u], f)
        PROVE  Truthful(device'[u], f)
    <2>1. ASSUME f # NoGvk, NEW l \in Leaves(f.spec)
          PROVE  device'[u][l] = device[u][l]
      <3>1. l \in Leaf /\ l \in GetRootPaths(f.spec)
        BY <2>1, CoveredFacts DEF Leaves, GetRootPaths
      <3>2. l \notin Territory(c)
        BY <1>5, <2>1, <3>1 DEF OwnEntry, Calm, Disjoint
      <3>3. OwnEntry(c, e)
        BY DEF OwnInv, OwnCaches
      <3>4. Candidate(device[t], e)[l] = device[t][l]
        BY <1>1, <1>2, <3>1, <3>2, <3>3, CandidateOwn
      <3>. QED
        BY <1>3, <3>4
    <2>. QED
      BY <1>5, <2>1, TruthfulFrame
  <1>6. Truthful(device'[t], new)
    <2>1. CASE e.action = "DELETE"
      BY <2>1 DEF Truthful
    <2>2. CASE e.action # "DELETE"
      <3>1. WillHold(device[t], e)
        BY <1>2, <1>4, <2>2 DEF TruthfulTarget, Truthful
      <3>2. Holds(device'[t], e.spec)
        BY <1>1, <1>2, <1>3, <2>2, <3>1, CandidateHolds
      <3>3. new.spec = e.spec /\ new.status = "SUCCESS"
        BY <1>2, <2>2 DEF Gvk
      <3>. HIDE DEF new
      <3>. QED
        BY <3>2, <3>3 DEF Truthful
    <2>. QED
      BY <2>1, <2>2
  <1>. HIDE DEF new
  <1>7. ASSUME NEW u \in Target PROVE TruthfulTarget(u)'
    <2>1. up'[u] => copy'[u] = device'[u]
      BY <1>2, <1>3, <1>4 DEF TruthfulTarget
    <2>2. ASSUME NEW d \in Cr PROVE Truthful(device'[u], gvk'[u][d])
      <3>1. Truthful(device[u], gvk[u][d]) /\ gvk[u][d] \in Gvk \cup {NoGvk} /\ OwnEntry(d, gvk[u][d])
        BY <1>1, <1>4 DEF TruthfulTarget, OwnInv, OwnCaches
      <3>2. CASE u # t
        BY <1>3, <3>1, <3>2
      <3>3. CASE u = t /\ d = c
        BY <1>3, <1>6, <3>3
      <3>4. CASE u = t /\ d # c
        BY <1>3, <1>5, <3>1, <3>4
      <3>. QED
        BY <3>2, <3>3, <3>4
    <2>. QED
      BY <2>1, <2>2 DEF TruthfulTarget
  <1>8. ASSUME NEW d \in Cr PROVE TruthfulPass(d)'
    <2>1. OwnEntry(d, pass[d].seen) /\ OwnEntry(d, pass[d].req)
      BY DEF OwnInv, OwnPass
    <2>2. CASE d # c
      BY <1>1, <1>3, <1>4, <1>5, <2>1, <2>2 DEF TruthfulPass
    <2>3. CASE d = c /\ pass[c].tref = t
      <3>1. pass[c].pc \notin {"running", "set"}
        BY <1>2, <2>3 DEF SnapshotInv, Held, Calm
      <3>. QED
        BY <1>3, <2>3, <3>1 DEF TruthfulPass
    <2>4. CASE d = c /\ pass[c].tref # t
      BY <1>1, <1>3, <1>4, <2>4 DEF TruthfulPass
    <2>. QED
      BY <2>2, <2>3, <2>4
  <1>. QED
    BY <1>7, <1>8

(***************************************************************************)
(* The other steps of the worker and of the operators: what they break is  *)
(* a fault on record, a restart forgets entries, and a copy is made from   *)
(* the device.                                                             *)
(***************************************************************************)
LEMMA TruthWorker ==
  ASSUME TypeInv, SnapshotInv, OwnInv, TruthInv, NEW t \in Target, WorkerStep(t)
  PROVE  TruthInv'
  <1>. USE DEF crVars
  <1>1. /\ gvk \in [Target -> [Cr -> Gvk \cup {NoGvk}]] /\ device \in [Target -> Cfg]
        /\ copy \in [Target -> Cfg] /\ up \in [Target -> BOOLEAN]
    BY DEF TypeInv, TypeOK
  <1>2. ASSUME NEW c \in Cr, WorkerReject(t, c) PROVE TruthInv'
    BY <1>2 DEF WorkerReject, TruthInv, Calm
  <1>3. CASE LateSet(t) \/ DriftRemove(t) \/ DriftChange(t)
    BY <1>3 DEF LateSet, DriftRemove, DriftChange, TruthInv, Calm
  <1>4. CASE Exhaust(t) \/ Recover(t)
    BY <1>4, TruthFrame DEF Exhaust, Recover, TruthfulPass
  <1>5. ASSUME UNCHANGED <<pass, device>>, faults \subseteq faults',
               Calm => \A u \in Target : TruthfulTarget(u) => TruthfulTarget(u)'
        PROVE  TruthInv'
    BY <1>5 DEF TruthInv, TruthfulPass, Calm
  <1>6. CASE WorkerRestart(t)
    <2>1. /\ \A u \in Target, d \in Cr : gvk'[u][d] = IF u = t THEN NoGvk ELSE gvk[u][d]
          /\ \A u \in Target : u # t => up'[u] = up[u] /\ copy'[u] = copy[u]
          /\ ~up'[t]
      BY <1>1, <1>6 DEF WorkerRestart
    <2>2. \A u \in Target : TruthfulTarget(u) => TruthfulTarget(u)'
      BY <1>6, <2>1 DEF WorkerRestart, TruthfulTarget, Truthful
    <2>. QED
      BY <1>5, <1>6, <2>2 DEF WorkerRestart
  <1>7. CASE StartTarget(t) \/ Resync(t)
    <2>1. /\ UNCHANGED <<gvk, device, pass, faults>> /\ copy'[t] = device[t]
          /\ \A u \in Target : u # t => up'[u] = up[u] /\ copy'[u] = copy[u]
      BY <1>1, <1>7 DEF StartTarget, Resync, GetConfig
    <2>2. \A u \in Target : TruthfulTarget(u) => TruthfulTarget(u)'
      BY <2>1 DEF TruthfulTarget
    <2>. QED
      BY <1>5, <2>1, <2>2
  <1>. QED
    BY <1>2, <1>3, <1>4, <1>6, <1>7, TruthApply DEF WorkerStep

(***************************************************************************)
(* SUCCESS is the truth: between resources that share no list entry, as    *)
(* long as nothing is refused, late or changed behind the provider's back, *)
(* the device carries the spec of every entry that is marked SUCCESS,      *)
(* whatever restarts, retargeting, failed calls and empty answers happen.  *)
(***************************************************************************)
THEOREM SuccessIsTrue == Spec => []AppliedIsPresent
  <1>. DEFINE IInv == TypeInv /\ SnapshotInv /\ OwnInv /\ TruthInv
  <1>1. Init => IInv
    <2>1. Init => SnapshotInv
      BY IdlePassType DEF Init, SnapshotInv, Held
    <2>2. Init => TruthInv
      BY IdlePassType DEF Init, TruthInv, TruthfulTarget, TruthfulPass, Truthful
    <2>. QED
      BY <2>1, <2>2, TypeInit, OwnInit
  <1>2. IInv /\ [Next]_vars => IInv'
    <2>. SUFFICES ASSUME IInv, [Next]_vars PROVE TruthInv'
      BY TypeStep, SnapshotStep, OwnStep
    <2>1. CASE UNCHANGED vars
      BY <2>1, TruthFrame DEF vars, TruthfulPass
    <2>2. ASSUME NEW c \in Cr, UserStep(c) PROVE TruthInv'
      <3>1. UNCHANGED <<gvk, device, copy, up, pass>> /\ faults \subseteq faults'
        BY <2>2 DEF UserStep, UserCreate, UserUpdate, UserRetarget, UserDelete, workerVars
      <3>. QED
        BY <3>1, TruthFrame DEF TruthfulPass
    <2>. QED
      BY <2>1, <2>2, TruthPass, TruthWorker DEF Next
  <1>3. IInv => AppliedIsPresent
    BY DEF TruthInv, Calm, TruthfulTarget, Truthful, Holds, Carries, AppliedIsPresent
  <1>. QED
    BY <1>1, <1>2, <1>3, PTL DEF Spec
=============================================================================
