---------------------------- MODULE GvkLifecycle ----------------------------
(***************************************************************************)
(* What the provider promises about the entry of a resource in the system  *)
(* cache of a target, without passes, specs and configurations: requests   *)
(* and answers alternate, a resource is created once, and its finalizer    *)
(* outlives its entries.  SrlSystem implements this although every request *)
(* of a pass rests on an entry that was read several calls earlier.        *)
(***************************************************************************)
CONSTANTS Cr, Target

VARIABLES
  entry,   \* [Target -> [Cr -> State]]
  kept,    \* the resources that have a finalizer
  lost,    \* a system cache has been lost
  moved,   \* a target reference has been changed
  wild     \* a request took effect after its pass had given up on it

vars == <<entry, kept, lost, moved, wild>>

State == {"none", "creating", "updating", "deleting", "applied", "failed"}

Init ==
  /\ entry = [t \in Target |-> [c \in Cr |-> "none"]]
  /\ kept = {}
  /\ lost = FALSE /\ moved = FALSE /\ wild = FALSE

Enter(t, c, s) == entry' = [entry EXCEPT ![t][c] = s]

Adopt(c) ==
  /\ c \notin kept
  /\ kept' = kept \cup {c}
  /\ UNCHANGED <<entry, lost, moved, wild>>

(* The reconciler creates what is not there, and updates and deletes what  *)
(* has been answered, or was there when it looked and got lost since.      *)
Submit(t, c) ==
  /\ c \in kept
  /\ \/ entry[t][c] = "none" /\ Enter(t, c, "creating")
     \/ /\ entry[t][c] \in {"applied", "failed"} \/ (lost /\ entry[t][c] = "none")
        /\ Enter(t, c, "updating") \/ Enter(t, c, "deleting")
  /\ UNCHANGED <<kept, lost, moved, wild>>

(* The worker answers.                                                     *)
Answer(t, c) ==
  /\ \/ entry[t][c] \in {"creating", "updating"} /\ Enter(t, c, "applied")
     \/ entry[t][c] = "deleting" /\ Enter(t, c, "none")
     \/ entry[t][c] \in {"creating", "updating", "deleting"} /\ Enter(t, c, "failed")
  /\ UNCHANGED <<kept, lost, moved, wild>>

(* The finalizer goes when the entry is gone.                              *)
Release(c) ==
  /\ c \in kept
  /\ \A t \in Target : entry[t][c] = "none"
  /\ kept' = kept \ {c}
  /\ UNCHANGED <<entry, lost, moved, wild>>

Lose(t) ==
  /\ entry' = [entry EXCEPT ![t] = [c \in Cr |-> "none"]]
  /\ lost' = TRUE
  /\ UNCHANGED <<kept, moved, wild>>

Move == moved' = TRUE /\ UNCHANGED <<entry, kept, lost, wild>>

(* A resource that has been moved may leave an entry behind.               *)
ReleaseMoved(c) ==
  /\ moved
  /\ c \in kept
  /\ kept' = kept \ {c}
  /\ UNCHANGED <<entry, lost, moved, wild>>

(* From a late request on nothing is promised any more.                    *)
Disorder == wild'

Next ==
  \/ Move \/ Disorder
  \/ \E c \in Cr : Adopt(c) \/ Release(c) \/ ReleaseMoved(c)
  \/ \E t \in Target : Lose(t) \/ \E c \in Cr : Submit(t, c) \/ Answer(t, c)

Spec == Init /\ [][Next]_vars
=============================================================================
