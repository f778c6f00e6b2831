------------------------------ MODULE MCSrlPair ------------------------------
(***************************************************************************)
(* An instance of SrlSystem in which two resources can come to point at    *)
(* each other: each owns a list entry (key leaf k1, k2) with a leafref     *)
(* (r1, r2) to the key of the other's entry.                               *)
(***************************************************************************)
EXTENDS SrlSystem

CONSTANTS
  c1, c2,   \* custom resources
  Garbled   \* what malformed properties consist of

PairLeaf == {"k1", "r1", "k2", "r2"}

PairListEntry ==
  [l \in PairLeaf |-> CASE l = "k1" -> {"k1", "r1"}
                        [] l = "k2" -> {"k2", "r2"}
                        [] OTHER    -> {l}]

PairLeafRef == {<<"r1", "k2">>, <<"r2", "k1">>}

Set(leaves) == [l \in PairLeaf |-> IF l \in leaves THEN 1 ELSE Absent]

PairMalformed == [l \in PairLeaf |-> Garbled]

PairFactory == EmptyCfg

PairSpecs ==
  [c \in Cr |-> IF c = c1 THEN {Set({"k1"}), Set({"k1", "r1"})}
                          ELSE {Set({"k2", "r2"})}]
=============================================================================
