--------------------------- MODULE DeviceWatcher ---------------------------
(***************************************************************************)
(* From a change in the API server to a reconcile pass: the watch that     *)
(* Setup installs with its event filter, the handlers that turn events     *)
(* into queue keys (EnqueueRequestForAllDevice and the handler of For),    *)
(* the coalescing work queue, the concurrent workers, and the requeueing   *)
(* of a pass that is not the last one.                                     *)
(*                                                                         *)
(* Informer, work queue and controller are libraries (client-go and        *)
(* controller-runtime); they are modelled by the steps that interleave.    *)
(* Setup also hands out a channel for generic events; its caller throws it *)
(* away, so no such event exists.                                          *)
(***************************************************************************)
EXTENDS Naturals, Sequences

CONSTANTS
  Key,          \* the resources, by namespace and name
  Worker,       \* MaxConcurrentReconciles of them
  NoKey,        \* a worker has nothing to do
  MaxChanges    \* bound on what users do and on restarts of the process

ASSUME WatcherAssumption ==
  /\ NoKey \notin Key
  /\ MaxChanges \in Nat

VARIABLES
  object,      \* [Key -> Version]: the resource in the API server
  stream,      \* [Key -> Seq(Version)]: watch events on their way
  cached,      \* [Key -> Version]: the informer's cache, which passes read
  inbox,       \* [Key -> Nat]: calls of Add the event handlers have yet to make
  dirty,       \* keys that need a pass
  processing,  \* keys that have one
  queue,       \* keys waiting for a worker
  delayed,     \* keys a timer will add (AddRateLimited, AddAfter)
  job,         \* [Worker -> Key \cup {NoKey}]
  stage,       \* [Worker -> Stage]: how far the pass is
  known,       \* history variable: [Key -> Version], what passes last fetched
  conflated,   \* history variable: keys of which a relist hid a change (see Relist)
  changes      \* counter for the bound

apiVars   == <<object, stream, changes>>
queueVars == <<dirty, processing, queue>>
workVars  == <<job, stage, known>>
vars == <<object, stream, cached, inbox, dirty, processing, queue, delayed,
          job, stage, known, conflated, changes>>

Version == [uid : Nat, gen : Nat, exists : BOOLEAN, deleting : BOOLEAN, final : BOOLEAN]

Never == [uid |-> 0, gen |-> 0, exists |-> FALSE, deleting |-> FALSE, final |-> FALSE]

(* What a pass has to know of a version: which object, at which spec.      *)
View(v) == IF v.exists THEN <<v.uid, v.gen>> ELSE <<0, 0>>

Stage == {"idle", "got", "busy", "done"}

Init ==
  /\ object = [k \in Key |-> Never]
  /\ stream = [k \in Key |-> <<>>]
  /\ cached = [k \in Key |-> Never]
  /\ inbox = [k \in Key |-> 0]
  /\ dirty = {} /\ processing = {} /\ queue = <<>> /\ delayed = {}
  /\ job = [w \in Worker |-> NoKey]
  /\ stage = [w \in Worker |-> "idle"]
  /\ known = [k \in Key |-> Never]
  /\ conflated = {}
  /\ changes = 0

-----------------------------------------------------------------------------
(***************************************************************************)
(* The API server.  The generation grows with every change of the spec and *)
(* when a deletion timestamp is set, and starts over with a new object.    *)
(***************************************************************************)
Store(k, v) ==
  /\ object' = [object EXCEPT ![k] = v]
  /\ stream' = [stream EXCEPT ![k] = Append(@, v)]

UserChange(k, v) ==
  /\ changes < MaxChanges
  /\ changes' = changes + 1
  /\ Store(k, v)
  /\ UNCHANGED <<cached, inbox, queueVars, delayed, workVars, conflated>>

UserCreate(k) ==
  /\ ~object[k].exists
  /\ UserChange(k, [uid |-> object[k].uid + 1, gen |-> 1, exists |-> TRUE,
                    deleting |-> FALSE, final |-> FALSE])

UserEdit(k) ==
  /\ object[k].exists
  /\ UserChange(k, [object[k] EXCEPT !.gen = @ + 1])

UserDelete(k) ==
  /\ object[k].exists /\ ~object[k].deleting
  /\ UserChange(k, IF object[k].final
                   THEN [object[k] EXCEPT !.gen = @ + 1, !.deleting = TRUE]
                   ELSE [object[k] EXCEPT !.exists = FALSE])

-----------------------------------------------------------------------------
(***************************************************************************)
(* The watch.  IgnoreUpdateWithoutGenerationChangePredicate, in front of   *)
(* every handler, lets creations and deletions through.                    *)
(***************************************************************************)
EventFilter_SpecOnly(old, new) ==   \* faulty: blind for the deletion timestamp
  old.exists /\ new.exists => old.gen # new.gen /\ ~new.deleting

EventFilter(old, new) == old.exists /\ new.exists => old.gen # new.gen

(***************************************************************************)
(* The calls of queue.Add that one event leads to.  The handler of For     *)
(* makes one; the one of Owns makes none, as no SrlConfig owns another.    *)
(* EnqueueRequestForAllDevice makes one for Create and for Delete, and two *)
(* for Update, for the old and for the new object.                         *)
(***************************************************************************)
ObjectHandlerAdds == 1

DeviceHandlerAdds(old, new) == IF old.exists /\ new.exists THEN 2 ELSE 1

Adds(old, new) ==
  IF (old.exists \/ new.exists) /\ EventFilter(old, new)
  THEN ObjectHandlerAdds + DeviceHandlerAdds(old, new)
  ELSE 0

Learn(k, new) ==
  /\ cached' = [cached EXCEPT ![k] = new]
  /\ inbox' = [inbox EXCEPT ![k] = @ + Adds(cached[k], new)]

Deliver(k) ==
  /\ stream[k] # <<>>
  /\ Learn(k, Head(stream[k]))
  /\ stream' = [stream EXCEPT ![k] = Tail(@)]
  /\ UNCHANGED <<object, changes, queueVars, delayed, workVars, conflated>>

(***************************************************************************)
(* The connection broke and the informer lists anew: it goes from the      *)
(* version it had straight to the latest one.  An object that replaced     *)
(* another one of the same name then arrives as an update, and one that    *)
(* happens to have the same generation is filtered out: the key stays      *)
(* conflated until a pass fetches it for another reason.  When the pass of *)
(* the old object ended in Finalize not even a timer is left, and the new  *)
(* one waits for its next event or for a restart of the process.           *)
(***************************************************************************)
Conflates(old, new) ==
  old.exists /\ new.exists /\ old.uid # new.uid /\ old.gen = new.gen

Relist_ThenReplay(k) ==   \* faulty: what was under way is delivered after all
  /\ Len(stream[k]) > 1
  /\ Learn(k, object[k])
  /\ conflated' = IF Conflates(cached[k], object[k]) THEN conflated \cup {k} ELSE conflated
  /\ UNCHANGED <<apiVars, queueVars, delayed, workVars>>

Relist(k) ==
  /\ Len(stream[k]) > 1
  /\ Learn(k, object[k])
  /\ stream' = [stream EXCEPT ![k] = <<>>]
  /\ conflated' = IF Conflates(cached[k], object[k]) THEN conflated \cup {k} ELSE conflated
  /\ UNCHANGED <<object, changes, queueVars, delayed, workVars>>

-----------------------------------------------------------------------------
(***************************************************************************)
(* The work queue: Add puts a key into the queue unless it is there        *)
(* already or has a pass; in the latter case Done puts it there.           *)
(***************************************************************************)
Add_DuringPass(k) ==   \* faulty: a key that has a pass is queued too
  /\ dirty' = dirty \cup {k}
  /\ queue' = IF k \in dirty THEN queue ELSE Append(queue, k)
  /\ UNCHANGED processing

Add(k) ==
  /\ dirty' = dirty \cup {k}
  /\ queue' = IF k \in dirty \cup processing THEN queue ELSE Append(queue, k)
  /\ UNCHANGED processing

HandlerAdd(k) ==
  /\ inbox[k] > 0
  /\ inbox' = [inbox EXCEPT ![k] = @ - 1]
  /\ Add(k)
  /\ UNCHANGED <<apiVars, cached, delayed, workVars, conflated>>

TimerAdd(k) ==
  /\ k \in delayed
  /\ delayed' = delayed \ {k}
  /\ Add(k)
  /\ UNCHANGED <<apiVars, cached, inbox, workVars, conflated>>

Get(w) ==
  /\ job[w] = NoKey
  /\ queue # <<>>
  /\ LET k == Head(queue) IN
       /\ job' = [job EXCEPT ![w] = k]
       /\ dirty' = dirty \ {k}
       /\ processing' = processing \cup {k}
  /\ stage' = [stage EXCEPT ![w] = "got"]
  /\ queue' = Tail(queue)
  /\ UNCHANGED <<apiVars, cached, inbox, delayed, known, conflated>>

Done_DropDirty(w) ==   \* faulty: what came in during the pass is forgotten
  LET k == job[w] IN
  /\ stage[w] = "done"
  /\ job' = [job EXCEPT ![w] = NoKey]
  /\ stage' = [stage EXCEPT ![w] = "idle"]
  /\ processing' = processing \ {k}
  /\ dirty' = dirty \ {k}
  /\ UNCHANGED <<queue, apiVars, cached, inbox, delayed, known, conflated>>

Done(w) ==
  LET k == job[w] IN
  /\ stage[w] = "done"
  /\ job' = [job EXCEPT ![w] = NoKey]
  /\ stage' = [stage EXCEPT ![w] = "idle"]
  /\ processing' = processing \ {k}
  /\ queue' = IF k \in dirty THEN Append(queue, k) ELSE queue
  /\ UNCHANGED <<dirty, apiVars, cached, inbox, delayed, known, conflated>>

-----------------------------------------------------------------------------
(***************************************************************************)
(* A pass.  It fetches the resource from the informer's cache; one that is *)
(* not found ends the pass.  The finalizer is added by an update that the  *)
(* API server refuses when the cached version is not the latest; this      *)
(* changes the metadata only.                                              *)
(***************************************************************************)
Fetch(w) ==
  LET k == job[w] IN
  /\ stage[w] = "got"
  /\ known' = [known EXCEPT ![k] = cached[k]]
  /\ conflated' = conflated \ {k}
  /\ stage' = [stage EXCEPT ![w] = IF cached[k].exists THEN "busy" ELSE "done"]
  /\ IF cached[k].exists /\ ~cached[k].final /\ object[k] = cached[k]
     THEN Store(k, [object[k] EXCEPT !.final = TRUE])
     ELSE UNCHANGED <<object, stream>>
  /\ UNCHANGED <<changes, cached, inbox, queueVars, delayed, job>>

(* The finalizer of a deleted resource goes, and the resource with it;     *)
(* there is nothing left to requeue.                                       *)
Finalize(w) ==
  LET k == job[w] IN
  /\ stage[w] = "busy"
  /\ known[k].deleting /\ object[k] = known[k]
  /\ Store(k, [object[k] EXCEPT !.exists = FALSE])
  /\ stage' = [stage EXCEPT ![w] = "done"]
  /\ UNCHANGED <<changes, cached, inbox, queueVars, delayed, job, known, conflated>>

Requeue_Never(w) ==   \* faulty: no poll interval
  /\ stage[w] = "busy"
  /\ stage' = [stage EXCEPT ![w] = "done"]
  /\ UNCHANGED <<apiVars, cached, inbox, queueVars, delayed, job, known, conflated>>

(* Every other pass is repeated: after an error at the rate limiter's      *)
(* pace, otherwise after the poll interval.                                *)
Requeue(w) ==
  /\ stage[w] = "busy"
  /\ delayed' = delayed \cup {job[w]}
  /\ stage' = [stage EXCEPT ![w] = "done"]
  /\ UNCHANGED <<apiVars, cached, inbox, queueVars, job, known, conflated>>

(***************************************************************************)
(* The process restarts: everything in memory is gone, and the informer    *)
(* lists what there is.                                                    *)
(***************************************************************************)
Restart ==
  /\ changes < MaxChanges
  /\ changes' = changes + 1
  /\ stream' = [k \in Key |-> IF object[k].exists THEN <<object[k]>> ELSE <<>>]
  /\ cached' = [k \in Key |-> Never]
  /\ inbox' = [k \in Key |-> 0]
  /\ dirty' = {} /\ processing' = {} /\ queue' = <<>> /\ delayed' = {}
  /\ job' = [w \in Worker |-> NoKey]
  /\ stage' = [w \in Worker |-> "idle"]
  /\ known' = [k \in Key |-> Never]
  /\ conflated' = {}
  /\ UNCHANGED object

-----------------------------------------------------------------------------
KeyStep(k) ==
  \/ UserCreate(k) \/ UserEdit(k) \/ UserDelete(k)
  \/ Deliver(k) \/ Relist(k) \/ HandlerAdd(k) \/ TimerAdd(k)

WorkStep(w) == Get(w) \/ Fetch(w) \/ Finalize(w) \/ Requeue(w) \/ Done(w)

Next == Restart \/ (\E k \in Key : KeyStep(k)) \/ (\E w \in Worker : WorkStep(w))

Spec == Init /\ [][Next]_vars

(***************************************************************************)
(* The process makes progress: events are delivered, handlers and workers  *)
(* run, timers fire, passes end.  Users, broken connections and restarts   *)
(* need not happen.                                                        *)
(***************************************************************************)
Fairness ==
  /\ \A k \in Key : WF_vars(Deliver(k)) /\ WF_vars(HandlerAdd(k)) /\ WF_vars(TimerAdd(k))
  /\ \A w \in Worker : /\ WF_vars(Get(w)) /\ WF_vars(Fetch(w))
                       /\ WF_vars(Finalize(w) \/ Requeue(w)) /\ WF_vars(Done(w))

FairSpec == Spec /\ Fairness

-----------------------------------------------------------------------------
(***************************************************************************)
(* However many workers there are and however often a key is added, a      *)
(* resource has one pass at a time: no two workers hold the same key.      *)
(***************************************************************************)
OnePassPerKey ==
  \A v, w \in Worker : job[v] = job[w] /\ job[v] # NoKey => v = w

(***************************************************************************)
(* No wake-up is lost: when the informer knows of a spec that no pass has  *)
(* fetched, then a handler has still to add the key, or the key is in the  *)
(* queue, or the pass it has will put it back there, or a pass is about to *)
(* fetch.  It need not wait for the poll interval.  The update events that *)
(* the filter drops and the Adds that coalesce during a pass could break   *)
(* this; only a relist that conflates two objects does.                    *)
(***************************************************************************)
Stale(k) == View(cached[k]) # View(known[k])

AboutToFetch(k) == \E w \in Worker : job[w] = k /\ stage[w] = "got"

Queued(k) == \E i \in 1..Len(queue) : queue[i] = k

Returns(k) == k \in dirty /\ \E w \in Worker : job[w] = k

NoLostWakeup ==
  \A k \in Key \ conflated :
    Stale(k) => inbox[k] > 0 \/ Queued(k) \/ Returns(k) \/ AboutToFetch(k)

(***************************************************************************)
(* No resource drops out of the loop: while the object that the informer   *)
(* knows is there, its key is about to be added, waits, returns after its  *)
(* pass, has a pass that is not over, or has a timer.  The paths that end  *)
(* a pass without a timer (resource not found, finalizer removed) have to  *)
(* be the ones after which there is nothing to poll, also when the name is *)
(* used again before the informer hears of the deletion.                   *)
(***************************************************************************)
UnderWay(k) == \E w \in Worker : job[w] = k /\ stage[w] \in {"got", "busy"}

StaysScheduled ==
  \A k \in Key \ conflated :
    object[k].exists /\ cached[k].exists /\ object[k].uid = cached[k].uid
      => inbox[k] > 0 \/ Queued(k) \/ Returns(k) \/ UnderWay(k) \/ k \in delayed

(***************************************************************************)
(* Until the process restarts, a pass of a resource never fetches an older *)
(* version than a pass before it, although it reads the informer's cache:  *)
(* SrlSystem can therefore let a pass fetch the latest version and think   *)
(* of the edits it misses as made later.                                   *)
(***************************************************************************)
NotNewer(a, b) ==
  \/ a.uid < b.uid
  \/ /\ a.uid = b.uid /\ a.gen <= b.gen
     /\ b.exists => a.exists
     /\ a.deleting => b.deleting
     /\ a.final => b.final

FetchesInOrder == [][Restart \/ \A k \in Key : NotNewer(known[k], known'[k])]_vars

(***************************************************************************)
(* Once users stop, passes have seen the last version of every resource.   *)
(***************************************************************************)
EveryChangeSeen ==
  \A k \in Key : <>[](k \notin conflated => View(known[k]) = View(object[k]))

(***************************************************************************)
(* A resource that stays gets a pass again and again, for its drift to be  *)
(* noticed: this is what lets SrlSystem start passes forever.              *)
(***************************************************************************)
Polled ==
  \A k \in Key :
    []<>(object[k].exists /\ k \notin conflated => \E w \in Worker : job[w] = k)

(***************************************************************************)
(* The queue implements PassSchedule, its liveness included.               *)
(***************************************************************************)
Schedule == INSTANCE PassSchedule
  WITH running <- {k \in Key : \E w \in Worker : job[w] = k /\ stage[w] # "got"},
       due <- {k \in Key : Stale(k) /\ k \notin conflated}

ImplementsSchedule == Schedule!FairSpec
=============================================================================
