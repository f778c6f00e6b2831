---------------------------- MODULE PassSchedule ----------------------------
(***************************************************************************)
(* What the reconciler may rely on: a resource has at most one pass at a   *)
(* time, and a change that no pass has seen yet is seen by one that starts *)
(* later.  SrlSystem is written against this contract (Fetch starts a pass *)
(* of an idle resource); DeviceWatcher is the queue that implements it.    *)
(***************************************************************************)
CONSTANT Key   \* the resources, by namespace and name

VARIABLES
  running,   \* the keys that have a pass which has fetched its resource
  due        \* the keys with a change that no pass has fetched

vars == <<running, due>>

Init == running = {} /\ due = {}

Change(k) == due' = due \cup {k} /\ UNCHANGED running

(* A change that is undone before a pass has seen it need not be seen.     *)
Retract(k) == due' = due \ {k} /\ UNCHANGED running

Begin(k) ==
  /\ k \notin running
  /\ running' = running \cup {k}
  /\ due' = due \ {k}

End(k) == running' = running \ {k} /\ UNCHANGED due

(* The process dies, with the passes and with what it knew.                *)
Crash == running' = {} /\ due' = {}

Next == Crash \/ \E k \in Key : Change(k) \/ Retract(k) \/ Begin(k) \/ End(k)

Spec == Init /\ [][Next]_vars

FairSpec == Spec /\ \A k \in Key : WF_vars(k \in due /\ Begin(k)) /\ WF_vars(k \in running /\ End(k))
=============================================================================
