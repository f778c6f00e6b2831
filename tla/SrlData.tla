------------------------------ MODULE SrlData ------------------------------
(***************************************************************************)
(* Device configurations, as the SR Linux config provider handles them.    *)
(*                                                                         *)
(* The code keeps a configuration as a ygot struct (ygotsrl.Device) and    *)
(* works on it with ygot's Merge, Diff, DeleteNode and Validate.  Only     *)
(* three things about a leaf matter to the control flow: whether it is     *)
(* set, to which value, and which leaves go away with it.  A configuration *)
(* is therefore a function from leaf paths to values, Absent where a leaf  *)
(* is not set.  A path of a gNMI delete is represented by the set of       *)
(* leaves at or below it.                                                  *)
(***************************************************************************)

CONSTANTS
  Leaf,       \* the leaf paths of the schema that custom resources use
  Value,      \* the values a leaf can be set to
  Absent,     \* "the leaf is not set"
  Malformed,  \* raw properties that the YANG unmarshaller refuses
  ListEntry,  \* [Leaf -> SUBSET Leaf]: see EntryAssumption
  LeafRef     \* pairs <<l, m>>: leaf l is a leafref that points at leaf m

(***************************************************************************)
(* ListEntry[l] is the set of leaves of the list entry whose key leaf is l *)
(* and {l} when l is not a key.  Entries nest.                             *)
(***************************************************************************)
ASSUME EntryAssumption ==
  /\ ListEntry \in [Leaf -> SUBSET Leaf]
  /\ \A l \in Leaf : l \in ListEntry[l]
  /\ \A l \in Leaf : \A m \in ListEntry[l] : ListEntry[m] \subseteq ListEntry[l]

ASSUME DataAssumption ==
  /\ Absent \notin Value
  /\ LeafRef \subseteq Leaf \X Leaf
  /\ Malformed \notin [Leaf -> Value \cup {Absent}]

Cfg == [Leaf -> Value \cup {Absent}]

EmptyCfg == [l \in Leaf |-> Absent]

Leaves(cfg) == {l \in Leaf : cfg[l] # Absent}

(***************************************************************************)
(* NewConfigStruct(raw, false) returns an error for malformed properties.  *)
(***************************************************************************)
Parses(raw) == raw # Malformed

(***************************************************************************)
(* A list entry in JSON always carries its key: a configuration that sets  *)
(* a leaf of an entry sets the key leaf too.                               *)
(***************************************************************************)
Keyed(cfg) ==
  \A l \in Leaf : \A m \in ListEntry[l] : cfg[m] # Absent => cfg[l] # Absent

(***************************************************************************)
(* ygot's Validate() with leafref checking: every leafref that is set      *)
(* points at a leaf that is set.                                           *)
(***************************************************************************)
Valid(cfg) == \A r \in LeafRef : cfg[r[1]] # Absent => cfg[r[2]] # Absent

(***************************************************************************)
(* ygot.MergeStructInto with MergeOverwriteExistingFields.                 *)
(***************************************************************************)
Merge(cfg, src) == [l \in Leaf |-> IF src[l] # Absent THEN src[l] ELSE cfg[l]]

(***************************************************************************)
(* Without that option MergeStructInto returns an error as soon as a leaf  *)
(* is set to different values on both sides.                               *)
(***************************************************************************)
MergeConflict(cfg, src) ==
  \E l \in Leaf : cfg[l] # Absent /\ src[l] # Absent /\ cfg[l] # src[l]

(***************************************************************************)
(* The leaves covered by the paths of a set of leaves, once a path that    *)
(* ends in a key leaf is shortened to its list entry (validatePath), or    *)
(* once rootpaths reduces it to the entry.                                 *)
(***************************************************************************)
Covered(leaves) == UNION {ListEntry[l] : l \in leaves}

(***************************************************************************)
(* ygot.Diff(from, to): the leaves to delete and the leaves to update.     *)
(* The path of an update names the key of every list entry it goes         *)
(* through, so an update sets these keys as well.                          *)
(***************************************************************************)
DiffDeletes(from, to) == Leaves(from) \ Leaves(to)

DiffUpdates(from, to) ==
  LET changed == {l \in Leaf : to[l] # Absent /\ to[l] # from[l]}
  IN  [l \in Leaf |-> IF ListEntry[l] \cap changed # {} THEN to[l] ELSE Absent]

(***************************************************************************)
(* validateNotification: shortens every path of a diff that ends in a key  *)
(* leaf.  A shortened update carries the empty object {}, which creates    *)
(* the entry and with it the key leaf, so the leaves an update sets stay   *)
(* the same; a shortened delete takes the whole entry with it.             *)
(***************************************************************************)
validateNotification(deletes, updates) ==
  [deletes |-> Covered(deletes), updates |-> updates]

NoDiff == [deletes |-> {}, updates |-> EmptyCfg]

(***************************************************************************)
(* A gNMI SetRequest on the device: the deletes come first.                *)
(***************************************************************************)
ApplySet(cfg, updates, deletes) ==
  Merge([l \in Leaf |-> IF l \in deletes THEN Absent ELSE cfg[l]], updates)
=============================================================================
