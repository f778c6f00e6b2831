-------------------------- MODULE SrlValidatorProofs --------------------------
(***************************************************************************)
(* Lemmas about the configuration algebra and about the decisions of the   *)
(* validator, for every schema, leafref relation and value set.            *)
(***************************************************************************)
EXTENDS SrlValidator, TLAPS

(***************************************************************************)
(* Merging and applying a Set give a configuration again.                  *)
(***************************************************************************)
LEMMA ApplySetType ==
  ASSUME NEW cfg \in Cfg, NEW updates \in Cfg, NEW deletes
  PROVE  /\ Merge(cfg, updates) \in Cfg
         /\ ApplySet(cfg, updates, deletes) \in Cfg
  BY DEF Merge, ApplySet, Cfg

(***************************************************************************)
(* What a Set leaves on the device: the leaves it does not delete and the  *)
(* ones it updates.                                                        *)
(***************************************************************************)
LEMMA ApplySetLeaves ==
  ASSUME NEW cfg \in Cfg, NEW updates \in Cfg, NEW deletes
  PROVE  Leaves(ApplySet(cfg, updates, deletes))
           = (Leaves(cfg) \ deletes) \cup Leaves(updates)
  BY DEF Merge, ApplySet, Cfg, Leaves

(***************************************************************************)
(* The empty configuration sets no leaf.                                   *)
(***************************************************************************)
LEMMA EmptyCfgFacts == EmptyCfg \in Cfg /\ Leaves(EmptyCfg) = {}
  BY DEF EmptyCfg, Cfg, Leaves

(***************************************************************************)
(* A leaf is covered by its own path, and paths cover leaves only.         *)
(***************************************************************************)
LEMMA CoveredFacts ==
  ASSUME NEW S \in SUBSET Leaf
  PROVE  S \subseteq Covered(S) /\ Covered(S) \in SUBSET Leaf
  BY EntryAssumption DEF Covered

(***************************************************************************)
(* A processed diff of two configurations is well typed.                   *)
(***************************************************************************)
LEMMA DiffType ==
  ASSUME NEW from \in Cfg, NEW to \in Cfg
  PROVE  LET d == validateNotification(DiffDeletes(from, to), DiffUpdates(from, to))
         IN  d.deletes \in SUBSET Leaf /\ d.updates \in Cfg
  <1>1. DiffDeletes(from, to) \in SUBSET Leaf
    BY DEF DiffDeletes, Leaves
  <1>2. DiffUpdates(from, to) \in Cfg
    BY DEF DiffUpdates, Cfg
  <1>. QED
    BY <1>1, <1>2, CoveredFacts DEF validateNotification

(***************************************************************************)
(* The observations the reconciler hands to Create, Update and Delete are  *)
(* well typed.                                                             *)
(***************************************************************************)
LEMMA ObservationType ==
  ASSUME NEW raw \in Cfg, NEW running \in Cfg, NEW g \in Gvk \cup {NoGvk}
  PROVE  /\ GetRootPaths(raw) \in SUBSET Leaf
         /\ NoDiff.deletes \in SUBSET Leaf /\ NoDiff.updates \in Cfg
         /\ GetCrSpecDiff(raw, g).deletes \in SUBSET Leaf
         /\ GetCrSpecDiff(raw, g).updates \in Cfg
         /\ GetCrActualDiff(raw, running).deletes \in SUBSET Leaf
         /\ GetCrActualDiff(raw, running).updates \in Cfg
  <1>1. NoDiff.deletes \in SUBSET Leaf /\ NoDiff.updates \in Cfg
    BY EmptyCfgFacts DEF NoDiff
  <1>2. GetRootPaths(raw) \in SUBSET Leaf
    <2>1. Leaves(raw) \in SUBSET Leaf
      BY DEF Leaves
    <2>. QED
      BY <2>1, CoveredFacts DEF GetRootPaths
  <1>3. /\ GetCrSpecDiff(raw, g).deletes \in SUBSET Leaf
        /\ GetCrSpecDiff(raw, g).updates \in Cfg
    <2>1. CASE g = NoGvk
      BY <1>1, <2>1 DEF GetCrSpecDiff
    <2>2. CASE g # NoGvk
      <3>1. g.spec \in Cfg
        BY <2>2 DEF Gvk
      <3>. QED
        BY <2>2, <3>1, DiffType DEF GetCrSpecDiff
    <2>. QED
      BY <2>1, <2>2
  <1>4. /\ GetCrActualDiff(raw, running).deletes \in SUBSET Leaf
        /\ GetCrActualDiff(raw, running).updates \in Cfg
    BY DiffType, ApplySetType DEF GetCrActualDiff
  <1>. QED
    BY <1>1, <1>2, <1>3, <1>4

(***************************************************************************)
(* getGvkUpate builds a pending entry of the system cache.                 *)
(***************************************************************************)
LEMMA GvkType ==
  ASSUME NEW raw \in Cfg, NEW paths \in SUBSET Leaf, NEW obs,
         obs.deletes \in SUBSET Leaf, obs.updates \in Cfg,
         NEW action \in Action
  PROVE  LET e == getGvkUpate(raw, paths, obs, action)
         IN  /\ e \in Gvk /\ e # NoGvk
             /\ e.status = "PENDING" /\ e.action = action /\ e.spec = raw
             /\ e.path = paths
             /\ e.update = obs.updates /\ e.delete = obs.deletes
  <1>. DEFINE e == getGvkUpate(raw, paths, obs, action)
  <1>1. e \in Gvk
    BY DEF getGvkUpate, Gvk, Status
  <1>2. e # NoGvk
    BY <1>1, NoGvkAssumption
  <1>3. /\ e.status = "PENDING" /\ e.action = action /\ e.spec = raw
        /\ e.path = paths /\ e.update = obs.updates /\ e.delete = obs.deletes
    BY DEF getGvkUpate
  <1>. QED
    BY <1>1, <1>2, <1>3

(***************************************************************************)
(* No leaf of the recorded spec is lost by the diff of GetCrSpecDiff: it   *)
(* is in the new spec or among the deletes.  The updates set leaves of the *)
(* new spec only.                                                          *)
(***************************************************************************)
LEMMA SpecDiffLeaves ==
  ASSUME NEW raw \in Cfg, NEW g \in Gvk
  PROVE  /\ Leaves(g.spec) \subseteq Leaves(raw) \cup GetCrSpecDiff(raw, g).deletes
         /\ Leaves(GetCrSpecDiff(raw, g).updates) \subseteq Leaves(raw)
         /\ IsUpToDate(GetCrSpecDiff(raw, g)) => Leaves(g.spec) \subseteq Leaves(raw)
  <1>. DEFINE del == DiffDeletes(g.spec, raw)
              upd == DiffUpdates(g.spec, raw)
  <1>1. g # NoGvk
    BY NoGvkAssumption
  <1>2. /\ GetCrSpecDiff(raw, g).deletes = Covered(del)
        /\ GetCrSpecDiff(raw, g).updates = upd
    BY <1>1 DEF GetCrSpecDiff, validateNotification
  <1>3. del \in SUBSET Leaf /\ Leaves(g.spec) \subseteq Leaves(raw) \cup del
    BY DEF DiffDeletes, Leaves
  <1>4. del \subseteq Covered(del)
    BY <1>3, CoveredFacts
  <1>5. Leaves(upd) \subseteq Leaves(raw)
    BY DEF DiffUpdates, Leaves
  <1>6. IsUpToDate(GetCrSpecDiff(raw, g)) => GetCrSpecDiff(raw, g).deletes = {}
    BY DEF IsUpToDate, NoDiff
  <1>. QED
    BY <1>2, <1>3, <1>4, <1>5, <1>6

(***************************************************************************)
(* The updates of GetCrActualDiff set leaves of the spec only.  They name  *)
(* the keys of the list entries they go through, so this takes a spec that *)
(* sets the key of every entry it uses.                                    *)
(***************************************************************************)
LEMMA ActualDiffLeaves ==
  ASSUME NEW raw \in Cfg, NEW running \in Cfg, Keyed(raw)
  PROVE  Leaves(GetCrActualDiff(raw, running).updates) \subseteq Leaves(raw)
  <1>. DEFINE new == Merge(running, raw)
  <1>1. GetCrActualDiff(raw, running).updates = DiffUpdates(running, new)
    BY DEF GetCrActualDiff, validateNotification
  <1>2. SUFFICES ASSUME NEW l \in Leaf, DiffUpdates(running, new)[l] # Absent
                 PROVE  raw[l] # Absent
    BY <1>1 DEF Leaves
  <1>3. PICK m \in ListEntry[l] : m \in Leaf /\ new[m] # running[m]
    BY <1>2, EntryAssumption DEF DiffUpdates
  <1>4. raw[m] # Absent
    BY <1>3 DEF Merge
  <1>. QED
    BY <1>3, <1>4 DEF Keyed
=============================================================================
