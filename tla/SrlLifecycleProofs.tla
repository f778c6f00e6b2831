------------------------- MODULE SrlLifecycleProofs -------------------------
(***************************************************************************)
(* SrlSystem implements GvkLifecycle, for any number of resources, targets *)
(* and faults.  The argument rests on the snapshot of a pass (SnapshotInv) *)
(* and on where entries are (HomeInv); what is added here is that a pass   *)
(* asks for a creation exactly when it has seen no entry.                  *)
(***************************************************************************)
EXTENDS SrlSystemProofs

Asks(c) ==
  /\ pass[c].pc = "running" /\ pass[c].phase = "deleting" => pass[c].seen # NoGvk
  /\ pass[c].pc = "set" => (pass[c].req.action = "CREATE" <=> pass[c].seen = NoGvk)

AskInv == \A c \in Cr : Asks(c)

(* The action of a request follows from what the pass has seen.            *)
LEMMA RequestAction ==
  ASSUME NEW p \in Pass, NEW running \in Cfg,
         p.phase = "deleting" => p.seen # NoGvk,
         Request(p, running) # NoGvk
  PROVE  Request(p, running).action = "CREATE" <=> p.seen = NoGvk
  <1>1. CASE p.phase = "deleting"
    BY <1>1 DEF Request, DeleteRequest, getGvkUpate
  <1>2. CASE p.phase # "deleting"
    <2>1. Request(p, running) = LiveRequest(p, running)
      BY <1>2 DEF Request
    <2>2. CASE ~ValidateCrSpecUpdate(p.spec, running)
      BY <2>1, <2>2 DEF LiveRequest
    <2>3. CASE ValidateCrSpecUpdate(p.spec, running) /\ p.seen = NoGvk
      <3>1. Request(p, running) = DriftRequest(p, running, "CREATE")
        BY <2>1, <2>3 DEF LiveRequest
      <3>. QED
        BY <2>3, <3>1 DEF DriftRequest, getGvkUpate
    <2>4. CASE ValidateCrSpecUpdate(p.spec, running) /\ p.seen # NoGvk
      <3>1. Request(p, running) \in {SpecRequest(p), DriftRequest(p, running, "UPDATE")}
        BY <2>1, <2>4 DEF LiveRequest
      <3>. QED
        BY <2>4, <3>1 DEF SpecRequest, DriftRequest, getGvkUpate
    <2>. QED
      BY <2>2, <2>3, <2>4
  <1>. QED
    BY <1>1, <1>2

(* A pass that decides keeps what it has seen.                             *)
LEMMA DecideAsks ==
  ASSUME TypeInv, AskInv, NEW c \in Cr, NEW running \in Cfg,
         pass[c].pc = "running", Decide(c, running)
  PROVE  Asks(c)'
  <1>1. pass[c] \in Pass /\ pass \in [Cr -> Pass]
    BY DEF TypeInv, TypeOK
  <1>2. CASE Request(pass[c], running) = NoGvk
    BY <1>1, <1>2, IdlePassType DEF Decide, EndPass, Asks
  <1>3. CASE Request(pass[c], running) # NoGvk
    <2>1. /\ pass'[c].pc = "set" /\ pass'[c].seen = pass[c].seen
          /\ pass'[c].req = Request(pass[c], running)
      BY <1>1, <1>3 DEF Decide, Pass
    <2>. QED
      BY <1>1, <1>3, <2>1, RequestAction DEF AskInv, Asks
  <1>. QED
    BY <1>2, <1>3

(* Every step of a pass keeps the invariant.                               *)
LEMMA AskPass ==
  ASSUME TypeInv, AskInv, NEW d \in Cr, PassStep(d)
  PROVE  AskInv'
  <1>. SUFFICES ASSUME NEW c \in Cr PROVE Asks(c)'
    BY DEF AskInv
  <1>1. pass \in [Cr -> Pass] /\ Asks(c)
    BY DEF TypeInv, TypeOK, AskInv
  <1>2. CASE pass'[c] = pass[c]
    BY <1>1, <1>2 DEF Asks
  <1>3. CASE pass'[c].pc = "idle"
    BY <1>3 DEF Asks
  <1>4. ASSUME EndPass(d) PROVE Asks(c)'
    BY <1>1, <1>2, <1>3, <1>4, IdlePassType DEF EndPass
  <1>5. CASE Fetch(d) \/ Connect(d)
    <2>1. c # d => pass'[c] = pass[c]
      BY <1>1, <1>5 DEF Fetch, Connect
    <2>2. c = d => pass'[c].pc \in {"connect", "system"}
      BY <1>1, <1>5 DEF Fetch, Connect, Pass
    <2>. QED
      BY <1>2, <2>1, <2>2 DEF Asks
  <1>6. CASE GetSystemConfig(d)
    <2>. DEFINE e == gvk[pass[d].tref][d]
    <2>1. CASE EndPass(d)
      BY <1>4, <2>1
    <2>2. CASE pass' = [pass EXCEPT ![d].pc = "finalize"]
      <3>1. c # d => pass'[c] = pass[c]
        BY <1>1, <2>2
      <3>2. c = d => pass'[c].pc = "finalize"
        BY <1>1, <2>2 DEF Pass
      <3>. QED
        BY <1>2, <3>1, <3>2 DEF Asks
    <2>3. CASE /\ pass[d].phase = "live" \/ CrStatus(d).exists
               /\ ~CrStatus(d).exhausted
               /\ pass' = [pass EXCEPT ![d].pc = "running", ![d].seen = e]
      <3>1. c # d => pass'[c] = pass[c]
        BY <1>1, <2>3
      <3>2. c = d => /\ pass'[c].pc = "running" /\ pass'[c].seen = e
                     /\ pass'[c].phase = pass[c].phase
        BY <1>1, <2>3 DEF Pass
      <3>3. pass[d].phase = "deleting" => e # NoGvk
        BY <2>3 DEF CrStatus, GetCrStatus
      <3>. QED
        BY <1>2, <3>1, <3>2, <3>3 DEF Asks
    <2>. QED
      BY <1>6, <2>1, <2>2, <2>3 DEF GetSystemConfig
  <1>7. CASE GetRunningConfig(d) \/ GetRunningConfigNoUpdate(d)
    <2>1. PICK running \in Cfg : pass[d].pc = "running" /\ Decide(d, running)
      BY <1>1, <1>7, EmptyCfgFacts
      DEF GetRunningConfig, GetRunningConfigNoUpdate, TypeInv, TypeOK, Pass
    <2>2. c # d => pass'[c] = pass[c]
      BY <1>1, <2>1 DEF Decide, EndPass
    <2>. QED
      BY <1>2, <2>1, <2>2, DecideAsks
  <1>8. CASE ReconcilerPanic(d)
    BY <1>3, <1>8, IdlePassType DEF ReconcilerPanic
  <1>9. CASE RemoveFinalizer(d) \/ Create(d) \/ Update(d) \/ Delete(d) \/ SetTimesOut(d) \/ PassFails(d)
    BY <1>4, <1>9 DEF RemoveFinalizer, Create, Update, Delete, Push, SetTimesOut, PassFails
  <1>. QED
    BY <1>5, <1>6, <1>7, <1>8, <1>9 DEF PassStep

(* Nobody but a pass changes what a pass holds.                            *)
LEMMA AskStep == TypeInv /\ AskInv /\ [Next]_vars => AskInv'
  <1>. SUFFICES ASSUME TypeInv, AskInv, [Next]_vars PROVE AskInv'
    OBVIOUS
  <1>1. CASE UNCHANGED pass
    BY <1>1 DEF AskInv, Asks
  <1>2. ASSUME NEW c \in Cr, UserStep(c) PROVE UNCHANGED pass
    BY <1>2 DEF UserStep, UserCreate, UserUpdate, UserRetarget, UserDelete
  <1>3. ASSUME NEW t \in Target, WorkerStep(t) PROVE UNCHANGED pass
    BY <1>3 DEF WorkerStep, WorkerApply, WorkerReject, LateSet, Exhaust, Recover, WorkerRestart,
                StartTarget, Resync, DriftRemove, DriftChange, Tamper
  <1>. QED
    BY <1>1, <1>2, <1>3, AskPass DEF Next, vars

-----------------------------------------------------------------------------
(***************************************************************************)
(* The refinement mapping, with names for its parts.                       *)
(***************************************************************************)
Entries == [t \in Target |-> [c \in Cr |-> EntryState(gvk[t][c])]]

Kept == {c \in Cr : phase[c] \in {"live", "deleting"}}

SameKept == Kept' = Kept

SameFlags == \A f \in {"restart", "retarget", "late"} : f \in faults' <=> f \in faults

(* What the state of an entry says about the entry.                        *)
LEMMA EntryStateFacts ==
  ASSUME NEW e \in Gvk \cup {NoGvk}
  PROVE  /\ EntryState(e) = "none" <=> e = NoGvk
         /\ e # NoGvk /\ e.status = "SUCCESS" => EntryState(e) = "applied"
         /\ e # NoGvk /\ e.status = "FAILED" => EntryState(e) = "failed"
         /\ e # NoGvk /\ e.status = "PENDING" =>
              /\ e.action = "CREATE" => EntryState(e) = "creating"
              /\ e.action = "UPDATE" => EntryState(e) = "updating"
              /\ e.action = "DELETE" => EntryState(e) = "deleting"
  <1>1. e = NoGvk => EntryState(e) = "none"
    BY DEF EntryState
  <1>2. ASSUME e # NoGvk
        PROVE  /\ e.status \in {"SUCCESS", "FAILED", "PENDING"}
               /\ e.action \in {"CREATE", "UPDATE", "DELETE"}
    BY <1>2 DEF Gvk, Status, Action
  <1>3. ASSUME e # NoGvk, e.status = "SUCCESS" PROVE EntryState(e) = "applied"
    BY <1>3 DEF EntryState
  <1>4. ASSUME e # NoGvk, e.status = "FAILED" PROVE EntryState(e) = "failed"
    BY <1>4 DEF EntryState
  <1>5. ASSUME e # NoGvk, e.status = "PENDING", e.action = "CREATE" PROVE EntryState(e) = "creating"
    BY <1>5 DEF EntryState
  <1>6. ASSUME e # NoGvk, e.status = "PENDING", e.action = "UPDATE" PROVE EntryState(e) = "updating"
    BY <1>6 DEF EntryState
  <1>7. ASSUME e # NoGvk, e.status = "PENDING", e.action = "DELETE" PROVE EntryState(e) = "deleting"
    BY <1>7 DEF EntryState
  <1>. QED
    BY <1>1, <1>2, <1>3, <1>4, <1>5, <1>6, <1>7

(* A write of one entry is a write of its state.                           *)
LEMMA EntryWrite ==
  ASSUME TypeInv, NEW t \in Target, NEW c \in Cr, NEW e,
         gvk' = [gvk EXCEPT ![t][c] = e]
  PROVE  Entries' = [Entries EXCEPT ![t][c] = EntryState(e)]
  <1>1. gvk \in [Target -> [Cr -> Gvk \cup {NoGvk}]]
    BY DEF TypeInv, TypeOK
  <1>2. \A u \in Target, d \in Cr : gvk'[u][d] = IF u = t /\ d = c THEN e ELSE gvk[u][d]
    BY <1>1
  <1>3. \A u \in Target, d \in Cr :
          EntryState(gvk'[u][d]) = IF u = t /\ d = c THEN EntryState(e) ELSE EntryState(gvk[u][d])
    BY <1>2
  <1>4. Entries' = [u \in Target |-> [d \in Cr |-> EntryState(gvk'[u][d])]]
    BY DEF Entries
  <1>. QED
    BY <1>3, <1>4 DEF Entries

(* A step that leaves entries, finalizers and flags alone is a stutter.    *)
LEMMA LifecycleStutter ==
  ASSUME UNCHANGED gvk, SameKept, SameFlags
  PROVE  UNCHANGED Lifecycle!vars
  BY DEF Lifecycle!vars, SameKept, Kept, SameFlags

(* After a late Set every step is allowed.                                 *)
LEMMA LifecycleDisorder ==
  ASSUME "late" \in faults'
  PROVE  Lifecycle!Next
  BY DEF Lifecycle!Next, Lifecycle!Disorder

(* Finalizers and flags that stay are unchanged under the mapping.         *)
LEMMA LifecycleFrame ==
  ASSUME SameKept, SameFlags
  PROVE  UNCHANGED <<{c \in Cr : phase[c] \in {"live", "deleting"}},
                     "restart" \in faults, "retarget" \in faults, "late" \in faults>>
  BY DEF SameKept, Kept, SameFlags

(* The write of an entry state under the mapping.                          *)
LEMMA LifecycleEnter ==
  ASSUME NEW t \in Target, NEW c \in Cr, NEW s,
         Entries' = [Entries EXCEPT ![t][c] = s]
  PROVE  Lifecycle!Enter(t, c, s)
  BY DEF Lifecycle!Enter, Entries

(* A request that meets what its pass has seen is a submission.            *)
LEMMA LifecycleSubmit ==
  ASSUME NEW t \in Target, NEW c \in Cr, NEW s,
         c \in Kept, SameKept, SameFlags,
         Entries' = [Entries EXCEPT ![t][c] = s],
         \/ Entries[t][c] = "none" /\ s = "creating"
         \/ /\ s \in {"updating", "deleting"}
            /\ \/ Entries[t][c] \in {"applied", "failed"}
               \/ "restart" \in faults /\ Entries[t][c] = "none"
  PROVE  Lifecycle!Next
  <1>1. Lifecycle!Enter(t, c, s)
    BY LifecycleEnter
  <1>2. \/ Entries[t][c] = "none" /\ Lifecycle!Enter(t, c, "creating")
        \/ /\ Entries[t][c] \in {"applied", "failed"} \/ ("restart" \in faults /\ Entries[t][c] = "none")
           /\ Lifecycle!Enter(t, c, "updating") \/ Lifecycle!Enter(t, c, "deleting")
    BY <1>1
  <1>3. Lifecycle!Submit(t, c)
    BY <1>2, LifecycleFrame, Zenon DEF Lifecycle!Submit, Entries, Kept
  <1>. QED
    BY <1>3 DEF Lifecycle!Next

(* An answer to a pending request.                                         *)
LEMMA LifecycleAnswer ==
  ASSUME NEW t \in Target, NEW c \in Cr, NEW s,
         SameKept, SameFlags,
         Entries' = [Entries EXCEPT ![t][c] = s],
         \/ Entries[t][c] \in {"creating", "updating"} /\ s = "applied"
         \/ Entries[t][c] = "deleting" /\ s = "none"
         \/ Entries[t][c] \in {"creating", "updating", "deleting"} /\ s = "failed"
  PROVE  Lifecycle!Next
  <1>1. Lifecycle!Enter(t, c, s)
    BY LifecycleEnter
  <1>2. \/ Entries[t][c] \in {"creating", "updating"} /\ Lifecycle!Enter(t, c, "applied")
        \/ Entries[t][c] = "deleting" /\ Lifecycle!Enter(t, c, "none")
        \/ Entries[t][c] \in {"creating", "updating", "deleting"} /\ Lifecycle!Enter(t, c, "failed")
    BY <1>1
  <1>3. Lifecycle!Answer(t, c)
    BY <1>2, LifecycleFrame, Zenon DEF Lifecycle!Answer, Entries
  <1>. QED
    BY <1>3 DEF Lifecycle!Next

(* A step of a user moves a resource or changes nothing here: a resource   *)
(* without finalizer is not kept, and one with a finalizer stays.          *)
LEMMA LifecycleUser ==
  ASSUME TypeInv, NEW c \in Cr, UserStep(c)
  PROVE  [Lifecycle!Next]_Lifecycle!vars
  <1>1. phase \in [Cr -> Phase] /\ UNCHANGED gvk
    BY DEF TypeInv, TypeOK, UserStep, UserCreate, UserUpdate, UserRetarget, UserDelete, workerVars
  <1>2. SameKept
    <2>1. \A d \in Cr : phase'[d] \in {"live", "deleting"} <=> phase[d] \in {"live", "deleting"}
      BY <1>1 DEF UserStep, UserCreate, UserUpdate, UserRetarget, UserDelete
    <2>. QED
      BY <2>1 DEF SameKept, Kept
  <1>3. CASE UserRetarget(c)
    <2>1. /\ "retarget" \in faults'
          /\ \A f \in {"restart", "late"} : f \in faults' <=> f \in faults
      BY <1>3 DEF UserRetarget
    <2>2. Lifecycle!Move
      BY <1>1, <1>2, <2>1 DEF Lifecycle!Move, SameKept, Kept
    <2>. QED
      BY <2>2 DEF Lifecycle!Next
  <1>4. CASE UserCreate(c) \/ UserUpdate(c) \/ UserDelete(c)
    <2>1. SameFlags
      BY <1>4 DEF SameFlags, UserCreate, UserUpdate, UserDelete
    <2>. QED
      BY <1>1, <1>2, <2>1, LifecycleStutter
  <1>. QED
    BY <1>3, <1>4 DEF UserStep

(* The worker's steps answer, or lose a cache.                             *)
LEMMA LifecycleWorker ==
  ASSUME TypeInv, NEW t \in Target, WorkerStep(t)
  PROVE  [Lifecycle!Next]_Lifecycle!vars
  <1>. USE DEF crVars
  <1>1. /\ gvk \in [Target -> [Cr -> Gvk \cup {NoGvk}]]
        /\ \A d \in Cr : Entries[t][d] = EntryState(gvk[t][d])
    BY DEF TypeInv, TypeOK, Entries
  <1>2. SameKept
    <2>1. UNCHANGED phase
      BY DEF WorkerStep, WorkerApply, WorkerReject, LateSet, Exhaust, Recover, WorkerRestart,
             StartTarget, Resync, DriftRemove, DriftChange, Tamper
    <2>. QED
      BY <2>1 DEF SameKept, Kept
  <1>3. ASSUME NEW c \in Cr, Pending(t, c)
        PROVE  /\ gvk[t][c] \in Gvk
               /\ gvk[t][c].action # "DELETE" => Entries[t][c] \in {"creating", "updating"}
               /\ gvk[t][c].action = "DELETE" => Entries[t][c] = "deleting"
    <2>1. gvk[t][c] \in Gvk /\ gvk[t][c] # NoGvk /\ gvk[t][c].status = "PENDING"
      BY <1>1, <1>3 DEF Pending
    <2>2. gvk[t][c].action \in {"CREATE", "UPDATE", "DELETE"}
      BY <2>1 DEF Gvk, Action
    <2>. QED
      BY <1>1, <2>1, <2>2, EntryStateFacts
  <1>4. ASSUME NEW c \in Cr, WorkerApply(t, c)
        PROVE  Lifecycle!Next
    <2>. DEFINE e == gvk[t][c]
                new == IF e.action = "DELETE" THEN NoGvk ELSE [e EXCEPT !.status = "SUCCESS"]
    <2>1. Pending(t, c) /\ e \in Gvk
      BY <1>3, <1>4 DEF WorkerApply
    <2>2. gvk' = [gvk EXCEPT ![t][c] = new]
      BY <1>4 DEF WorkerApply
    <2>3. EntryState(new) = IF e.action = "DELETE" THEN "none" ELSE "applied"
      <3>1. CASE e.action = "DELETE"
        BY <3>1, EntryStateFacts
      <3>2. CASE e.action # "DELETE"
        <4>1. new \in Gvk /\ new.status = "SUCCESS"
          BY <2>1, <3>2 DEF Gvk, Status
        <4>. HIDE DEF new
        <4>. QED
          BY <3>2, <4>1, EntryStateFacts, NoGvkAssumption
      <3>. QED
        BY <3>1, <3>2
    <2>. HIDE DEF new
    <2>4. Entries' = [Entries EXCEPT ![t][c] = EntryState(new)]
      BY <2>2, EntryWrite
    <2>5. SameFlags
      BY <1>4 DEF WorkerApply, SameFlags
    <2>. QED
      BY <1>2, <1>3, <2>1, <2>3, <2>4, <2>5, LifecycleAnswer
  <1>5. ASSUME NEW c \in Cr, WorkerReject(t, c)
        PROVE  Lifecycle!Next
    <2>. DEFINE new == [gvk[t][c] EXCEPT !.status = "FAILED"]
    <2>1. Pending(t, c) /\ gvk[t][c] \in Gvk
      BY <1>3, <1>5 DEF WorkerReject
    <2>2. gvk' = [gvk EXCEPT ![t][c] = new]
      BY <1>5 DEF WorkerReject
    <2>3. new \in Gvk /\ new.status = "FAILED"
      BY <2>1 DEF Gvk, Status
    <2>. HIDE DEF new
    <2>4. EntryState(new) = "failed"
      BY <2>3, EntryStateFacts, NoGvkAssumption
    <2>5. Entries' = [Entries EXCEPT ![t][c] = EntryState(new)]
      BY <2>2, EntryWrite
    <2>6. SameFlags
      BY <1>5 DEF WorkerReject, SameFlags
    <2>. QED
      BY <1>2, <1>3, <2>1, <2>4, <2>5, <2>6, LifecycleAnswer
  <1>6. CASE LateSet(t)
    BY <1>6, LifecycleDisorder DEF LateSet
  <1>7. CASE WorkerRestart(t)
    <2>1. /\ \A u \in Target, d \in Cr : gvk'[u][d] = IF u = t THEN NoGvk ELSE gvk[u][d]
          /\ "restart" \in faults'
          /\ \A f \in {"retarget", "late"} : f \in faults' <=> f \in faults
      BY <1>1, <1>7 DEF WorkerRestart
    <2>2. \A u \in Target, d \in Cr :
            EntryState(gvk'[u][d]) = IF u = t THEN "none" ELSE EntryState(gvk[u][d])
      BY <2>1, EntryStateFacts
    <2>3. Entries' = [Entries EXCEPT ![t] = [d \in Cr |-> "none"]]
      <3>1. Entries' = [u \in Target |-> [d \in Cr |-> EntryState(gvk'[u][d])]]
        BY DEF Entries
      <3>. QED
        BY <2>2, <3>1 DEF Entries
    <2>4. Lifecycle!Lose(t)
      BY <1>2, <2>1, <2>3 DEF Lifecycle!Lose, Entries, SameKept, Kept
    <2>. QED
      BY <2>4 DEF Lifecycle!Next
  <1>8. CASE Exhaust(t) \/ Recover(t) \/ StartTarget(t) \/ Resync(t) \/ DriftRemove(t) \/ DriftChange(t)
    <2>1. UNCHANGED gvk
      BY <1>8 DEF Exhaust, Recover, StartTarget, Resync, DriftRemove, DriftChange, Tamper
    <2>2. SameFlags
      BY <1>8 DEF SameFlags, Exhaust, Recover, StartTarget, Resync, DriftRemove, DriftChange
    <2>. QED
      BY <1>2, <2>1, <2>2, LifecycleStutter
  <1>. QED
    BY <1>4, <1>5, <1>6, <1>7, <1>8 DEF WorkerStep

(* A Set of a pass meets the entry the pass has seen, or none if the cache *)
(* got lost since, and its action fits what was seen.                      *)
LEMMA LifecyclePush ==
  ASSUME TypeInv, SnapshotInv, HomeInv, AskInv, "late" \notin faults,
         NEW c \in Cr, NEW action \in Action, Push(c, action), UNCHANGED phase, SameFlags
  PROVE  Lifecycle!Next
  <1>. DEFINE t == pass[c].tref
              req == pass[c].req
              seen == pass[c].seen
  <1>1. /\ gvk \in [Target -> [Cr -> Gvk \cup {NoGvk}]] /\ t \in Target
        /\ seen \in Gvk \cup {NoGvk} /\ phase \in [Cr -> Phase]
    BY DEF TypeInv, TypeOK, Pass
  <1>2. /\ pass[c].pc = "set" /\ req \in Gvk /\ req.status = "PENDING" /\ req.action = action
        /\ gvk' = [gvk EXCEPT ![t][c] = req]
    BY DEF Push, TypeInv, SetHoldsRequest
  <1>3. /\ gvk[t][c] = seen \/ (gvk[t][c] = NoGvk /\ "restart" \in faults)
        /\ seen # NoGvk => seen.status # "PENDING"
    BY <1>2 DEF SnapshotInv, Held
  <1>4. action = "CREATE" <=> seen = NoGvk
    BY <1>2 DEF AskInv, Asks
  <1>5. c \in Kept
    BY <1>1, <1>2 DEF HomeInv, NotStarted, Kept, Phase
  <1>6. SameKept
    BY DEF SameKept, Kept
  <1>7. Entries[t][c] = EntryState(gvk[t][c])
    BY <1>1 DEF Entries
  <1>8. Entries' = [Entries EXCEPT ![t][c] = EntryState(req)]
    BY <1>1, <1>2, EntryWrite
  <1>9. /\ action = "CREATE" => EntryState(req) = "creating"
        /\ action # "CREATE" => EntryState(req) \in {"updating", "deleting"}
    BY <1>2, EntryStateFacts, NoGvkAssumption DEF Action
  <1>10. seen # NoGvk => EntryState(seen) \in {"applied", "failed"}
    <2>1. seen # NoGvk => seen.status \in {"SUCCESS", "FAILED"}
      BY <1>1, <1>3 DEF Gvk, Status
    <2>. QED
      BY <1>1, <2>1, EntryStateFacts
  <1>11. gvk[t][c] = NoGvk => Entries[t][c] = "none"
    BY <1>7, EntryStateFacts
  <1>12. CASE action = "CREATE"
    <2>1. Entries[t][c] = "none"
      BY <1>3, <1>4, <1>11, <1>12
    <2>. HIDE DEF t, req, seen
    <2>. QED
      BY <1>1, <1>5, <1>6, <1>8, <1>9, <1>12, <2>1, LifecycleSubmit
  <1>13. CASE action # "CREATE"
    <2>1. Entries[t][c] \in {"applied", "failed"} \/ ("restart" \in faults /\ Entries[t][c] = "none")
      BY <1>3, <1>4, <1>7, <1>10, <1>11, <1>13
    <2>. HIDE DEF t, req, seen
    <2>. QED
      BY <1>1, <1>5, <1>6, <1>8, <1>9, <1>13, <2>1, LifecycleSubmit
  <1>. QED
    BY <1>12, <1>13

(* A finalizer goes when no target has an entry, or after a move.          *)
LEMMA LifecycleRelease ==
  ASSUME TypeInv, HomeInv, "late" \notin faults, NEW c \in Cr, RemoveFinalizer(c)
  PROVE  [Lifecycle!Next]_Lifecycle!vars
  <1>1. /\ phase \in [Cr -> Phase] /\ pass[c].pc = "finalize"
        /\ UNCHANGED <<gvk, faults>>
    BY DEF TypeInv, TypeOK, RemoveFinalizer, workerVars
  <1>2. SameFlags
    BY <1>1 DEF SameFlags
  <1>3. CASE UNCHANGED phase
    <2>1. SameKept
      BY <1>3 DEF SameKept, Kept
    <2>. QED
      BY <1>1, <1>2, <2>1, LifecycleStutter
  <1>4. CASE phase' = [phase EXCEPT ![c] = "absent"]
    <2>1. c \in Kept
      BY <1>1 DEF HomeInv, NotStarted, Kept, Phase
    <2>2. Kept' = Kept \ {c}
      <3>1. \A d \in Cr : phase'[d] \in {"live", "deleting"} <=> (d # c /\ phase[d] \in {"live", "deleting"})
        BY <1>1, <1>4
      <3>. QED
        BY <3>1 DEF Kept
    <2>3. CASE "retarget" \in faults
      <3>1. Lifecycle!ReleaseMoved(c)
        BY <1>1, <2>1, <2>2, <2>3 DEF Lifecycle!ReleaseMoved, Kept
      <3>. QED
        BY <3>1 DEF Lifecycle!Next
    <2>4. CASE "retarget" \notin faults
      <3>1. \A t \in Target : gvk[t][c] = NoGvk
        BY <1>1, <2>4 DEF HomeInv, AtHome
      <3>2. \A t \in Target : Entries[t][c] = "none"
        BY <3>1, EntryStateFacts DEF Entries
      <3>3. Lifecycle!Release(c)
        BY <1>1, <2>1, <2>2, <3>2 DEF Lifecycle!Release, Kept, Entries
      <3>. QED
        BY <3>3 DEF Lifecycle!Next
    <2>. QED
      BY <2>3, <2>4
  <1>. QED
    BY <1>3, <1>4 DEF RemoveFinalizer

(* The first pass of a resource adds the finalizer.                        *)
LEMMA LifecycleFetch ==
  ASSUME TypeInv, NEW c \in Cr, Fetch(c)
  PROVE  [Lifecycle!Next]_Lifecycle!vars
  <1>1. /\ phase \in [Cr -> Phase] /\ UNCHANGED <<gvk, faults>>
        /\ phase' = [phase EXCEPT ![c] = IF phase[c] = "fresh" THEN "live" ELSE phase[c]]
    BY DEF TypeInv, TypeOK, Fetch, workerVars
  <1>2. SameFlags
    BY <1>1 DEF SameFlags
  <1>3. CASE phase[c] = "fresh"
    <2>1. c \notin Kept
      BY <1>3 DEF Kept
    <2>2. Kept' = Kept \cup {c}
      <3>1. \A d \in Cr : phase'[d] \in {"live", "deleting"} <=> (d = c \/ phase[d] \in {"live", "deleting"})
        BY <1>1, <1>3
      <3>. QED
        BY <3>1 DEF Kept
    <2>3. Lifecycle!Adopt(c)
      BY <1>1, <2>1, <2>2 DEF Lifecycle!Adopt, Kept
    <2>. QED
      BY <2>3 DEF Lifecycle!Next
  <1>4. CASE phase[c] # "fresh"
    <2>1. SameKept
      BY <1>1, <1>4 DEF SameKept, Kept
    <2>. QED
      BY <1>1, <1>2, <2>1, LifecycleStutter
  <1>. QED
    BY <1>3, <1>4

(* The steps of a pass.                                                    *)
LEMMA LifecyclePass ==
  ASSUME TypeInv, SnapshotInv, HomeInv, AskInv, "late" \notin faults,
         NEW c \in Cr, PassStep(c)
  PROVE  [Lifecycle!Next]_Lifecycle!vars
  <1>. USE DEF crVars, workerVars
  <1>1. CASE Fetch(c)
    BY <1>1, LifecycleFetch
  <1>2. CASE RemoveFinalizer(c)
    BY <1>2, LifecycleRelease
  <1>3. CASE Create(c) \/ Update(c) \/ Delete(c)
    <2>1. SameFlags /\ UNCHANGED phase
      BY <1>3 DEF SameFlags, Create, Update, Delete
    <2>2. PICK action \in Action : Push(c, action)
      BY <1>3 DEF Create, Update, Delete, Action
    <2>. QED
      BY <2>1, <2>2, LifecyclePush
  <1>4. CASE \/ Connect(c) \/ GetSystemConfig(c) \/ GetRunningConfig(c) \/ GetRunningConfigNoUpdate(c)
             \/ SetTimesOut(c) \/ PassFails(c) \/ ReconcilerPanic(c)
    <2>1. UNCHANGED <<gvk, faults, phase>>
      BY <1>4 DEF Connect, GetSystemConfig, GetRunningConfig, GetRunningConfigNoUpdate,
                  SetTimesOut, PassFails, ReconcilerPanic
    <2>2. SameFlags /\ SameKept
      BY <2>1 DEF SameFlags, SameKept, Kept
    <2>. QED
      BY <2>1, <2>2, LifecycleStutter
  <1>. QED
    BY <1>1, <1>2, <1>3, <1>4 DEF PassStep

(* What has been recorded stays recorded.                                  *)
LEMMA FaultsGrow == [Next]_vars => faults \subseteq faults'
  <1>1. ASSUME NEW c \in Cr, UserStep(c) PROVE faults \subseteq faults'
    BY <1>1 DEF UserStep, UserCreate, UserUpdate, UserRetarget, UserDelete
  <1>2. ASSUME NEW c \in Cr, PassStep(c) PROVE faults \subseteq faults'
    BY <1>2 DEF PassStep, Fetch, Connect, GetSystemConfig, RemoveFinalizer, GetRunningConfig,
                GetRunningConfigNoUpdate, Create, Update, Delete, SetTimesOut, PassFails,
                ReconcilerPanic
  <1>3. ASSUME NEW t \in Target, WorkerStep(t) PROVE faults \subseteq faults'
    BY <1>3 DEF WorkerStep, WorkerApply, WorkerReject, LateSet, Exhaust, Recover, WorkerRestart,
                StartTarget, Resync, DriftRemove, DriftChange
  <1>. QED
    BY <1>1, <1>2, <1>3 DEF Next, vars

(***************************************************************************)
(* The detailed system implements the life cycle of entries: whatever the  *)
(* interleaving of users, passes and workers, a request meets an answered  *)
(* entry or none, an answer meets a pending one, and a finalizer outlives  *)
(* the entries of its resource unless the resource has been moved.         *)
(***************************************************************************)
THEOREM LifecycleImplemented == Spec => ImplementsLifecycle
  <1>. DEFINE IInv == TypeInv /\ SnapshotInv /\ HomeInv /\ AskInv
  <1>1. Init => IInv
    <2>1. Init => SnapshotInv
      BY IdlePassType DEF Init, SnapshotInv, Held
    <2>2. Init => HomeInv
      BY IdlePassType DEF Init, HomeInv, NotStarted, AtHome
    <2>3. Init => AskInv
      BY IdlePassType DEF Init, AskInv, Asks
    <2>. QED
      BY <2>1, <2>2, <2>3, TypeInit
  <1>2. IInv /\ [Next]_vars => IInv'
    <2>. SUFFICES ASSUME IInv, [Next]_vars PROVE HomeInv'
      BY TypeStep, SnapshotStep, AskStep
    <2>1. CASE UNCHANGED vars
      BY <2>1, HomeFrame DEF vars, HomeInv
    <2>. QED
      BY <2>1, HomeUser, HomePass, HomeWorker DEF Next
  <1>3. Init => Lifecycle!Init
    <2>. SUFFICES ASSUME Init PROVE Lifecycle!Init
      OBVIOUS
    <2>1. EntryState(NoGvk) = "none"
      BY EntryStateFacts
    <2>2. [t \in Target |-> [c \in Cr |-> EntryState(gvk[t][c])]] = [t \in Target |-> [c \in Cr |-> "none"]]
      BY <2>1 DEF Init
    <2>3. {c \in Cr : phase[c] \in {"live", "deleting"}} = {}
      BY DEF Init
    <2>4. /\ ("restart" \in faults) = FALSE
          /\ ("retarget" \in faults) = FALSE
          /\ ("late" \in faults) = FALSE
      BY SMT DEF Init
    <2>. QED
      BY <2>2, <2>3, <2>4, Zenon DEF Lifecycle!Init
  <1>4. IInv /\ [Next]_vars => [Lifecycle!Next]_Lifecycle!vars
    <2>. SUFFICES ASSUME IInv, [Next]_vars PROVE [Lifecycle!Next]_Lifecycle!vars
      OBVIOUS
    <2>1. CASE UNCHANGED vars
      <3>1. UNCHANGED gvk /\ SameKept /\ SameFlags
        BY <2>1 DEF vars, SameKept, Kept, SameFlags
      <3>. QED
        BY <3>1, LifecycleStutter
    <2>2. CASE "late" \in faults
      BY <2>2, FaultsGrow, LifecycleDisorder
    <2>3. CASE Next /\ "late" \notin faults
      BY <2>3, LifecycleUser, LifecyclePass, LifecycleWorker DEF Next
    <2>. QED
      BY <2>1, <2>2, <2>3
  <1>. QED
    BY <1>1, <1>2, <1>3, <1>4, PTL DEF Spec, ImplementsLifecycle, Lifecycle!Spec
=============================================================================
