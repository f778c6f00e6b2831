----------------------------- MODULE GnmiPaths -----------------------------
(***************************************************************************)
(* The way of a diff to the device, at the level of gNMI paths: ygot.Diff  *)
(* yields a notification, validateNotification shortens its paths, getPaths*)
(* and getUpdates write them into the entry of the system cache, the       *)
(* updates into a map with the text of the path as key, and the device     *)
(* carries out the deletes and then the updates.                           *)
(*                                                                         *)
(* SrlData says the same in one step and about sets of leaves.  This       *)
(* module keeps what could break it: the paths, the order of Go maps, and  *)
(* updates that fall together in one key of a map.                         *)
(***************************************************************************)
EXTENDS Naturals, FiniteSets, SequencesExt

CONSTANTS
  Leaf,         \* leaf paths, see PathAssumption
  KeyLeaf,      \* those that are the key of the list entry they are in
  Value,        \* the values of leaves
  Absent,       \* "the leaf is not set"
  EmptyObject,  \* the JSON value {}
  SpecCfg,      \* configurations that specs describe
  DeviceCfg     \* configurations a device may have

(***************************************************************************)
(* A path is a sequence of elements.  An element has a name and, in a list *)
(* entry, keys: a set of pairs <<key leaf, value>>.                        *)
(***************************************************************************)
Elem(name, key) == [name |-> name, key |-> key]

ASSUME PathAssumption ==
  /\ Leaf \subseteq Seq(UNION {Range(p) : p \in Leaf})
  /\ \A p \in Leaf : Len(p) > 0 /\ Last(p).key = {}
  /\ \A p, q \in Leaf : IsPrefix(p, q) => p = q   \* nothing is below a leaf
  /\ KeyLeaf = {p \in Leaf : Len(p) > 1 /\ \E kv \in p[Len(p) - 1].key : kv[1] = Last(p).name}
  /\ \A p \in Leaf : \A i \in 1..Len(p) : \A kv \in p[i].key :
       SubSeq(p, 1, i) \o <<Elem(kv[1], {})>> \in KeyLeaf
  /\ EmptyObject \notin Value \cup {Absent}

(***************************************************************************)
(* The leaves at or below a path; the value of a key leaf, which is part   *)
(* of its path.                                                            *)
(***************************************************************************)
Below(p) == {q \in Leaf : IsPrefix(p, q)}

KeyValue(p) == CHOOSE v \in Value : <<Last(p).name, v>> \in p[Len(p) - 1].key

(***************************************************************************)
(* The leaf-level view of the same data.                                   *)
(***************************************************************************)
LeafLevel == INSTANCE SrlData
  WITH ListEntry <- [p \in Leaf |-> IF p \in KeyLeaf THEN Below(Front(p)) ELSE {p}],
       LeafRef <- {}, Malformed <- EmptyObject

ASSUME LeafLevelAssumption ==
  /\ \A p \in Leaf : p \in KeyLeaf => KeyValue(p) \in Value
  /\ SpecCfg \subseteq {c \in LeafLevel!Cfg : LeafLevel!Keyed(c)}
  /\ DeviceCfg \subseteq {c \in LeafLevel!Cfg : LeafLevel!Keyed(c)}
  /\ \A c \in SpecCfg \cup DeviceCfg : \A p \in KeyLeaf : c[p] \in {Absent, KeyValue(p)}

VARIABLES
  from, to,   \* the recorded spec and the spec of the resource
  start,      \* history variable: the configuration of the device before
  device,     \* the configuration of the device
  diff,       \* the notification: what is not yet in the entry
  deletes,    \* the entry's deletes
  updates,    \* the entry's updates, a function from path texts to values
  phase

vars == <<from, to, start, device, diff, deletes, updates, phase>>

(***************************************************************************)
(* ygot.Diff(from, to): the leaves that are gone, and those that are new   *)
(* or have another value, in the order of a Go map, which is any order.    *)
(***************************************************************************)
Diff(a, b) ==
  [delete |-> {p \in Leaf : a[p] # Absent /\ b[p] = Absent},
   update |-> {[path |-> p, val |-> b[p]] : p \in {q \in Leaf : b[q] \notin {Absent, a[q]}}}]

Init ==
  /\ from \in SpecCfg /\ to \in SpecCfg
  /\ start \in DeviceCfg
  /\ device = start
  /\ diff = Diff(from, to)
  /\ deletes = {} /\ updates = <<>>
  /\ phase = "entry"

-----------------------------------------------------------------------------
validatePath_AnyLeaf(p) ==   \* faulty: trims every leaf of a list entry
  IF Len(p) > 1 /\ p[Len(p) - 1].key # {}
  THEN [changed |-> TRUE, path |-> Front(p)]
  ELSE [changed |-> FALSE, path |-> p]

validatePath_Never(p) ==   \* faulty: without the workaround
  [changed |-> FALSE, path |-> p]

(***************************************************************************)
(* A path whose last element is a key of the element before loses it.      *)
(***************************************************************************)
validatePath(p) ==
  IF Len(p) > 1 /\ \E kv \in p[Len(p) - 1].key : kv[1] = Last(p).name
  THEN [changed |-> TRUE, path |-> Front(p)]
  ELSE [changed |-> FALSE, path |-> p]

(***************************************************************************)
(* The texts of a path.  The keys of an element are a Go map; nothing in   *)
(* this code depends on the order in which they are written, so an element *)
(* with two keys may come out in two ways.                                 *)
(***************************************************************************)
GnmiPath2XPath(p) ==
  {[path |-> p, spelling |-> i] :
      i \in 1..(IF \E j \in 1..Len(p) : Cardinality(p[j].key) > 1 THEN 2 ELSE 1)}

(***************************************************************************)
(* One round of the loops over the updates, of validateNotification and of *)
(* getUpdates.  A shortened update gets the value {}.                      *)
(***************************************************************************)
getUpdates(u) ==
  LET vp == validatePath(u.path)
  IN  /\ phase = "entry"
      /\ u \in diff.update
      /\ diff' = [diff EXCEPT !.update = @ \ {u}]
      /\ \E xpath \in GnmiPath2XPath(vp.path) :
           updates' = [x \in DOMAIN updates \cup {xpath} |->
                         IF x # xpath THEN updates[x]
                         ELSE IF vp.changed THEN EmptyObject ELSE u.val]
      /\ UNCHANGED <<from, to, start, device, deletes, phase>>

(* The loops over the deletes, of validateNotification and of getPaths.    *)
(* The list of texts is only ever walked, so that the set of paths will do.*)
getPaths ==
  /\ phase = "entry" /\ diff.delete # {}
  /\ deletes' = {validatePath(p).path : p \in diff.delete}
  /\ diff' = [diff EXCEPT !.delete = {}]
  /\ UNCHANGED <<from, to, start, device, updates, phase>>

-----------------------------------------------------------------------------
(* The entry is complete: the device carries out the deletes.              *)
ApplyDeletes ==
  /\ phase = "entry" /\ diff = [delete |-> {}, update |-> {}]
  /\ LET gone == UNION {Below(p) : p \in deletes}
     IN  device' = [p \in Leaf |-> IF p \in gone THEN Absent ELSE device[p]]
  /\ phase' = "update"
  /\ UNCHANGED <<from, to, start, diff, deletes, updates>>

(* One update: it creates the list entries on its path, with their keys,   *)
(* and sets the leaf, if it has a value for one.                           *)
ApplyUpdate(x) ==
  /\ phase = "update"
  /\ x \in DOMAIN updates
  /\ device' = [p \in Leaf |->
       CASE p = x.path -> updates[x]
         [] p \in KeyLeaf /\ p # x.path /\ IsPrefix(Front(p), x.path) -> KeyValue(p)
         [] OTHER -> device[p]]
  /\ updates' = [y \in DOMAIN updates \ {x} |-> updates[y]]
  /\ UNCHANGED <<from, to, start, diff, deletes, phase>>

Next ==
  \/ \E u \in diff.update : getUpdates(u)
  \/ getPaths
  \/ ApplyDeletes
  \/ \E x \in DOMAIN updates : ApplyUpdate(x)

Spec == Init /\ [][Next]_vars

-----------------------------------------------------------------------------
Applied == phase = "update" /\ DOMAIN updates = {}

(***************************************************************************)
(* What the shortened paths, the texts and the maps do to a device is what *)
(* the leaf-level operators of SrlData say, whatever else is configured on *)
(* it and in whatever order the maps are walked: no update is lost by      *)
(* falling together with another one, none brings back what was deleted.   *)
(***************************************************************************)
AgreesWithLeafLevel ==
  LET n == LeafLevel!validateNotification(LeafLevel!DiffDeletes(from, to),
                                          LeafLevel!DiffUpdates(from, to))
  IN  Applied => device = LeafLevel!ApplySet(start, n.updates, n.deletes)

(***************************************************************************)
(* A device that had all of the recorded spec has all of the new spec      *)
(* afterwards and nothing that only the recorded one had.  Of what is in   *)
(* neither it keeps everything, except for the leaves of list entries that *)
(* the new spec no longer has.                                             *)
(***************************************************************************)
Has(cfg, spec) == \A p \in Leaf : spec[p] \in {Absent, cfg[p]}

ReachesSpec ==
  Applied =>
    /\ Has(start, from) => Has(device, to)
    /\ \A p \in Leaf : to[p] = Absent =>
         IF from[p] # Absent
         THEN device[p] = Absent
         ELSE \/ device[p] = start[p]
              \/ \E k \in KeyLeaf : from[k] # Absent /\ to[k] = Absent /\ IsPrefix(Front(k), p)
=============================================================================
