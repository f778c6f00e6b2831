---------------------------- MODULE MCSrlSystem ----------------------------
(***************************************************************************)
(* Small instances of SrlSystem.  The schema has one list entry, whose key *)
(* leaf is "key" and which holds a leaf "attr", a leaf "ref" that is a     *)
(* leafref to "key", and a leaf "sys" that stands on its own.              *)
(***************************************************************************)
EXTENDS SrlSystem

CONSTANTS
  c1, c2,   \* custom resources
  Garbled   \* what malformed properties consist of

MCLeaf == {"key", "attr", "ref", "sys"}

MCListEntry == [l \in MCLeaf |-> IF l = "key" THEN {"key", "attr"} ELSE {l}]

MCLeafRef == {<<"ref", "key">>}

(* The configuration that sets the leaves of f, a function with a domain   *)
(* of leaves.                                                              *)
Set(f) == [l \in MCLeaf |-> IF l \in DOMAIN f THEN f[l] ELSE Absent]

MCMalformed == [l \in MCLeaf |-> Garbled]

MCFactory == EmptyCfg

(* One resource that owns the list entry and grows, changes or shrinks it. *)
EntrySpecs ==
  {Set([key |-> 1, attr |-> 1]), Set([key |-> 1, attr |-> 2]), Set([key |-> 1]),
   Set([sys |-> 1])}

(* A resource that points at the entry of another one.                     *)
RefSpecs == {Set([ref |-> 1])}

(* Owner of the entry and owner of the pointer.                            *)
TwoCrSpecs ==
  [c \in Cr |-> IF c = c1
                THEN {Set([key |-> 1, attr |-> 1]), Set([key |-> 1, attr |-> 2]),
                      Set([sys |-> 1])}
                ELSE RefSpecs]

OneCrSpecs == [c \in Cr |-> EntrySpecs \cup {Malformed}]
=============================================================================
