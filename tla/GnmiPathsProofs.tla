-------------------------- MODULE GnmiPathsProofs --------------------------
(***************************************************************************)
(* The entry of the system cache, with its shortened paths and the map     *)
(* from path texts to values, does to a device what the leaf-level         *)
(* operators of SrlData say, for every schema, every pair of specs, every  *)
(* device and every order in which the Go maps are walked.                 *)
(***************************************************************************)
EXTENDS GnmiPaths, SequenceTheorems, TLAPS

-----------------------------------------------------------------------------
(***************************************************************************)
(* Prefixes, element by element.                                           *)
(***************************************************************************)
LEMMA PrefixFacts ==
  ASSUME NEW S, NEW s \in Seq(S), NEW t \in Seq(S)
  PROVE  IsPrefix(s, t) <=> Len(s) <= Len(t) /\ \A i \in 1..Len(s) : s[i] = t[i]
  BY DEF IsPrefix

(***************************************************************************)
(* A path without its last element.                                        *)
(***************************************************************************)
LEMMA FrontFacts ==
  ASSUME NEW S, NEW s \in Seq(S), Len(s) > 0
  PROVE  /\ Front(s) \in Seq(S)
         /\ Len(Front(s)) = Len(s) - 1
         /\ \A i \in 1..Len(s) - 1 : Front(s)[i] = s[i]
  <1>. DEFINE n == Len(s) - 1
  <1>1. 1 \in Int /\ n \in Nat /\ n \in Int /\ \A i \in 1..n : s[i] \in S
    OBVIOUS
  <1>2. /\ SubSeq(s, 1, n) \in Seq(S)
        /\ Len(SubSeq(s, 1, n)) = IF 1 <= n THEN n - 1 + 1 ELSE 0
        /\ \A i \in 1..n - 1 + 1 : SubSeq(s, 1, n)[i] = s[1 + i - 1]
    <2>. HIDE DEF n
    <2>. QED
      BY <1>1, SubSeqProperties
  <1>3. n - 1 + 1 = n /\ \A i \in 1..n : 1 + i - 1 = i
    BY <1>1
  <1>4. Len(SubSeq(s, 1, n)) = n /\ \A i \in 1..n : SubSeq(s, 1, n)[i] = s[i]
    <2>. HIDE DEF n
    <2>. QED
      BY <1>1, <1>2, <1>3
  <1>. QED
    BY <1>2, <1>4 DEF Front

-----------------------------------------------------------------------------
(***************************************************************************)
(* The path of a leaf in the entry, and the leaves that go with it: those  *)
(* of its list entry for a key, itself otherwise.                          *)
(***************************************************************************)
Short(p) == validatePath(p).path

Entry(p) == IF p \in KeyLeaf THEN Below(Front(p)) ELSE {p}

(***************************************************************************)
(* Only the paths of key leaves are shortened.                             *)
(***************************************************************************)
LEMMA ShortFacts ==
  ASSUME NEW p \in Leaf
  PROVE  /\ validatePath(p).changed <=> p \in KeyLeaf
         /\ Short(p) = IF p \in KeyLeaf THEN Front(p) ELSE p
  BY PathAssumption DEF validatePath, Short

(***************************************************************************)
(* Leaves are paths; a leaf and its path without the last element.         *)
(***************************************************************************)
LEMMA LeafFacts ==
  ASSUME NEW p \in Leaf
  PROVE  \E S : /\ Leaf \subseteq Seq(S) /\ Len(p) > 0
                /\ Front(p) \in Seq(S) /\ IsPrefix(Front(p), p)
                /\ Len(Front(p)) = Len(p) - 1
  <1>. DEFINE S == UNION {Range(q) : q \in Leaf}
  <1>1. Leaf \subseteq Seq(S) /\ p \in Seq(S) /\ Len(p) > 0
    BY PathAssumption
  <1>. HIDE DEF S
  <1>2. Front(p) \in Seq(S) /\ Len(Front(p)) = Len(p) - 1
        /\ \A i \in 1..Len(p) - 1 : Front(p)[i] = p[i]
    BY <1>1, FrontFacts
  <1>3. IsPrefix(Front(p), p)
    BY <1>1, <1>2, PrefixFacts
  <1>. QED
    BY <1>1, <1>2, <1>3

(***************************************************************************)
(* The path of a list entry is not the path of a leaf: the value {} of a   *)
(* shortened update never ends up in one.                                  *)
(***************************************************************************)
LEMMA EntryIsNoLeaf ==
  ASSUME NEW k \in Leaf, NEW p \in Leaf
  PROVE  Front(k) # p
  <1>. SUFFICES ASSUME Front(k) = p PROVE FALSE
    OBVIOUS
  <1>1. PICK S : Leaf \subseteq Seq(S) /\ IsPrefix(Front(k), k) /\ Len(Front(k)) = Len(k) - 1
    BY LeafFacts
  <1>2. p = k
    BY <1>1, PathAssumption
  <1>3. Len(k) \in Nat
    BY <1>1
  <1>. QED
    BY <1>1, <1>2, <1>3

(***************************************************************************)
(* A leaf is in its own entry, and a delete of the shortened path takes    *)
(* the entry and nothing else.                                             *)
(***************************************************************************)
LEMMA EntryFacts ==
  ASSUME NEW p \in Leaf
  PROVE  p \in Entry(p) /\ Entry(p) \subseteq Leaf /\ Below(Short(p)) = Entry(p)
  <1>1. PICK S : Leaf \subseteq Seq(S) /\ IsPrefix(Front(p), p)
    BY LeafFacts
  <1>2. IsPrefix(p, p)
    BY <1>1, PrefixFacts
  <1>3. \A q \in Leaf : IsPrefix(p, q) => q = p
    BY PathAssumption
  <1>. QED
    BY <1>1, <1>2, <1>3, ShortFacts DEF Entry, Below

(***************************************************************************)
(* A leaf below a list entry has its own list entry at or below that one.  *)
(***************************************************************************)
LEMMA EntryBelowEntry ==
  ASSUME NEW p \in Leaf, NEW q \in Leaf
  PROVE  IsPrefix(Front(p), q) <=> IsPrefix(Front(p), Front(q))
  <1>1. PICK S : /\ Leaf \subseteq Seq(S) /\ Len(p) > 0
                 /\ Front(p) \in Seq(S) /\ Len(Front(p)) = Len(p) - 1
    BY LeafFacts
  <1>2. /\ p \in Seq(S) /\ q \in Seq(S) /\ Len(q) > 0 /\ Len(q) \in Nat
        /\ Len(Front(p)) \in Nat
    BY <1>1, PathAssumption
  <1>3. /\ Front(q) \in Seq(S) /\ Len(Front(q)) = Len(q) - 1
        /\ \A i \in 1..Len(q) - 1 : Front(q)[i] = q[i]
    BY <1>2, FrontFacts
  <1>4. IsPrefix(Front(p), q) <=>
          Len(Front(p)) <= Len(q) /\ \A i \in 1..Len(Front(p)) : Front(p)[i] = q[i]
    BY <1>1, <1>2, PrefixFacts
  <1>5. IsPrefix(Front(p), Front(q)) <=>
          Len(Front(p)) <= Len(Front(q)) /\ \A i \in 1..Len(Front(p)) : Front(p)[i] = Front(q)[i]
    BY <1>1, <1>3, PrefixFacts
  <1>6. ~(Len(Front(p)) = Len(q) /\ \A i \in 1..Len(Front(p)) : Front(p)[i] = q[i])
    <2>1. Front(p) # q
      BY EntryIsNoLeaf
    <2>. QED
      BY <1>1, <1>2, <2>1
  <1>. QED
    BY <1>2, <1>3, <1>4, <1>5, <1>6

(***************************************************************************)
(* An update of leaf q sets leaf p if p is its path, or the key of a list  *)
(* entry on the path, which the device creates.  These are the leaves p in *)
(* whose entry q is.                                                       *)
(***************************************************************************)
Touches(path, p) == p = path \/ (p \in KeyLeaf /\ IsPrefix(Front(p), path))

(***************************************************************************)
(* Which leaves an update of a shortened path sets.                        *)
(***************************************************************************)
LEMMA TouchFacts ==
  ASSUME NEW p \in Leaf, NEW q \in Leaf
  PROVE  Touches(Short(q), p) <=> q \in Entry(p)
  <1>1. Front(q) # p
    BY EntryIsNoLeaf
  <1>2. CASE q \in KeyLeaf
    BY <1>1, <1>2, EntryBelowEntry, ShortFacts, EntryFacts DEF Touches, Entry, Below
  <1>3. CASE q \notin KeyLeaf
    BY <1>3, ShortFacts, EntryFacts DEF Touches, Entry, Below
  <1>. QED
    BY <1>2, <1>3

(***************************************************************************)
(* Paths are a model of the assumption that SrlData, and with it every     *)
(* theorem about SrlSystem, makes of a schema: a leaf is in its own list   *)
(* entry, and list entries nest.                                           *)
(***************************************************************************)
THEOREM EntriesNest ==
  LET ListEntry == [p \in Leaf |-> IF p \in KeyLeaf THEN Below(Front(p)) ELSE {p}]
  IN  /\ ListEntry \in [Leaf -> SUBSET Leaf]
      /\ \A l \in Leaf : l \in ListEntry[l]
      /\ \A l \in Leaf : \A m \in ListEntry[l] : ListEntry[m] \subseteq ListEntry[l]
  <1>1. \A p \in Leaf : p \in Entry(p) /\ Entry(p) \subseteq Leaf
    BY EntryFacts
  <1>2. ASSUME NEW l \in Leaf, NEW m \in Entry(l), NEW n \in Entry(m) PROVE n \in Entry(l)
    <2>1. m \in Leaf /\ n \in Leaf
      BY <1>1, <1>2
    <2>2. CASE l \in KeyLeaf /\ m \in KeyLeaf
      <3>1. IsPrefix(Front(l), Front(m)) /\ IsPrefix(Front(m), n)
        BY <1>2, <2>1, <2>2, EntryBelowEntry DEF Entry, Below
      <3>2. PICK S : Leaf \subseteq Seq(S) /\ Front(l) \in Seq(S)
        BY LeafFacts
      <3>3. Front(m) \in Seq(S) /\ n \in Seq(S)
        <4>1. m \in Seq(S) /\ Len(m) > 0
          BY <2>1, <3>2, PathAssumption
        <4>. QED
          BY <2>1, <3>2, <4>1, FrontFacts
      <3>4. /\ Len(Front(l)) <= Len(Front(m)) /\ Len(Front(m)) <= Len(n)
            /\ \A i \in 1..Len(Front(l)) : Front(l)[i] = Front(m)[i]
            /\ \A i \in 1..Len(Front(m)) : Front(m)[i] = n[i]
        BY <3>1, <3>2, <3>3, PrefixFacts
      <3>5. /\ Len(Front(l)) \in Nat /\ Len(Front(m)) \in Nat /\ Len(n) \in Nat
        BY <3>2, <3>3
      <3>6. Len(Front(l)) <= Len(n) /\ \A i \in 1..Len(Front(l)) : Front(l)[i] = n[i]
        BY <3>4, <3>5
      <3>7. IsPrefix(Front(l), n)
        BY <3>2, <3>3, <3>6, PrefixFacts
      <3>. QED
        BY <2>1, <2>2, <3>7 DEF Entry, Below
    <2>3. CASE l \notin KeyLeaf \/ m \notin KeyLeaf
      BY <1>2, <2>3 DEF Entry
    <2>. QED
      BY <2>2, <2>3
  <1>. QED
    BY <1>1, <1>2 DEF Entry

-----------------------------------------------------------------------------
(***************************************************************************)
(* What the leaf-level operators make of the device, in one definition.    *)
(* Changed and Gone are the leaves of the diff.                            *)
(***************************************************************************)
Changed == {q \in Leaf : to[q] \notin {Absent, from[q]}}

Gone == {q \in Leaf : from[q] # Absent /\ to[q] = Absent}

Cleared == [p \in Leaf |-> IF \E q \in Gone : p \in Entry(q) THEN Absent ELSE start[p]]

Target == [p \in Leaf |-> IF \E q \in Changed : q \in Entry(p) THEN to[p] ELSE Cleared[p]]

(***************************************************************************)
(* What the specs are: every leaf that is set has the keys of the list     *)
(* entries it is in, and a key leaf has the value its path says.           *)
(***************************************************************************)
SpecsInv ==
  /\ \A p \in Leaf, q \in Leaf : q \in Entry(p) /\ to[q] # Absent => to[p] # Absent
  /\ \A p \in KeyLeaf : to[p] \in {Absent, KeyValue(p)}

(***************************************************************************)
(* The entry is made of the diff, with the paths of its leaves shortened.  *)
(* Once the deletes are carried out, every leaf has its final value unless *)
(* an update that will set it is still to come.                            *)
(***************************************************************************)
UpdateOf(q) == [path |-> q, val |-> to[q]]

ValueOf(q) == IF q \in KeyLeaf THEN EmptyObject ELSE to[q]

DiffInv ==
  /\ diff = [delete |-> diff.delete, update |-> diff.update]
  /\ \A u \in diff.update : \E q \in Changed : u = UpdateOf(q)
  /\ phase = "entry" =>
       \A q \in Changed : \/ UpdateOf(q) \in diff.update
                          \/ \E x \in DOMAIN updates : x.path = Short(q)
  /\ \/ phase = "entry" /\ diff.delete = Gone /\ deletes = {}
     \/ diff.delete = {} /\ deletes = {Short(q) : q \in Gone}

TextInv ==
  \A x \in DOMAIN updates :
    \E q \in Changed : x.path = Short(q) /\ updates[x] = ValueOf(q)

DeviceInv ==
  \/ phase = "entry" /\ device = start
  \/ /\ phase = "update"
     /\ device = [p \in Leaf |-> device[p]]
     /\ \A p \in Leaf :
          device[p] = Target[p] \/ \E x \in DOMAIN updates : Touches(x.path, p)

PathInv == SpecsInv /\ DiffInv /\ TextInv /\ DeviceInv

(***************************************************************************)
(* The invariant holds at the start.                                       *)
(***************************************************************************)
LEMMA PathInit == Init => PathInv
  <1>. SUFFICES ASSUME Init PROVE PathInv
    OBVIOUS
  <1>1. SpecsInv
    <2>1. /\ LeafLevel!Keyed(to)
          /\ \A p \in KeyLeaf : to[p] \in {Absent, KeyValue(p)}
      BY LeafLevelAssumption DEF Init
    <2>2. \A p \in Leaf, q \in Leaf : q \in Entry(p) /\ to[q] # Absent => to[p] # Absent
      BY <2>1 DEF LeafLevel!Keyed, Entry
    <2>. QED
      BY <2>1, <2>2 DEF SpecsInv
  <1>2. diff.delete = Gone /\ diff.update = {UpdateOf(q) : q \in Changed}
        /\ diff = [delete |-> diff.delete, update |-> diff.update]
    BY DEF Init, Diff, Gone, Changed, UpdateOf
  <1>3. DiffInv
    BY <1>2 DEF DiffInv, Init
  <1>4. DOMAIN updates = {}
    BY DEF Init
  <1>. QED
    BY <1>1, <1>3, <1>4 DEF PathInv, TextInv, DeviceInv, Init

(***************************************************************************)
(* An update of the diff goes into the map.  Should its text be there      *)
(* already, the value it replaces is the same.                             *)
(***************************************************************************)
LEMMA PathUpdates ==
  ASSUME PathInv, NEW u, getUpdates(u)
  PROVE  PathInv'
  <1>. USE DEF PathInv
  <1>1. /\ phase = "entry" /\ u \in diff.update
        /\ diff' = [diff EXCEPT !.update = @ \ {u}]
        /\ UNCHANGED <<from, to, start, device, deletes, phase>>
    BY DEF getUpdates
  <1>2. PICK q \in Changed : u = UpdateOf(q)
    BY <1>1 DEF DiffInv
  <1>3. q \in Leaf /\ u.path = q /\ u.val = to[q]
    BY <1>2 DEF Changed, UpdateOf
  <1>4. PICK x \in GnmiPath2XPath(Short(q)) :
          updates' = [y \in DOMAIN updates \cup {x} |->
                        IF y # x THEN updates[y]
                        ELSE IF validatePath(q).changed THEN EmptyObject ELSE to[q]]
    BY <1>3, Zenon DEF getUpdates, Short
  <1>5. x.path = Short(q)
    BY <1>4 DEF GnmiPath2XPath
  <1>6. /\ DOMAIN updates' = DOMAIN updates \cup {x} /\ updates'[x] = ValueOf(q)
        /\ \A y \in DOMAIN updates : y # x => updates'[y] = updates[y]
    BY <1>3, <1>4, ShortFacts DEF ValueOf
  <1>7. /\ Changed' = Changed /\ Gone' = Gone
        /\ \A z : UpdateOf(z)' = UpdateOf(z) /\ ValueOf(z)' = ValueOf(z)
    BY <1>1 DEF Changed, Gone, UpdateOf, ValueOf
  <1>8. /\ diff'.update = diff.update \ {u} /\ diff'.delete = diff.delete
        /\ diff' = [delete |-> diff'.delete, update |-> diff'.update]
    BY <1>1 DEF DiffInv
  <1>9. SpecsInv'
    BY <1>1 DEF SpecsInv
  <1>10. DiffInv'
    <2>1. \A z : z # q => UpdateOf(z) # u
      BY <1>2 DEF UpdateOf
    <2>2. \A z \in Changed : \/ UpdateOf(z) \in diff'.update
                             \/ \E y \in DOMAIN updates' : y.path = Short(z)
      BY <1>1, <1>5, <1>6, <1>8, <2>1 DEF DiffInv
    <2>3. \A v \in diff'.update : \E z \in Changed : v = UpdateOf(z)
      BY <1>8 DEF DiffInv
    <2>4. \/ phase = "entry" /\ diff'.delete = Gone /\ deletes = {}
          \/ diff'.delete = {} /\ deletes = {Short(z) : z \in Gone}
      BY <1>8 DEF DiffInv
    <2>. QED
      BY <1>1, <1>7, <1>8, <2>2, <2>3, <2>4 DEF DiffInv
  <1>11. TextInv'
    BY <1>5, <1>6, <1>7 DEF TextInv
  <1>12. DeviceInv'
    BY <1>1 DEF DeviceInv
  <1>. QED
    BY <1>9, <1>10, <1>11, <1>12

(***************************************************************************)
(* The deletes of the diff go into the entry.                              *)
(***************************************************************************)
LEMMA PathDeletes ==
  ASSUME PathInv, getPaths
  PROVE  PathInv'
  <1>. USE DEF PathInv
  <1>1. /\ phase = "entry" /\ diff.delete # {}
        /\ deletes' = {validatePath(p).path : p \in diff.delete}
        /\ diff' = [diff EXCEPT !.delete = {}]
        /\ UNCHANGED <<from, to, start, device, updates, phase>>
    BY DEF getPaths
  <1>2. /\ Changed' = Changed /\ Gone' = Gone
        /\ \A z : UpdateOf(z)' = UpdateOf(z) /\ ValueOf(z)' = ValueOf(z)
    BY <1>1 DEF Changed, Gone, UpdateOf, ValueOf
  <1>3. /\ diff'.update = diff.update /\ diff'.delete = {}
        /\ diff' = [delete |-> diff'.delete, update |-> diff'.update]
    BY <1>1 DEF DiffInv
  <1>4. deletes' = {Short(q) : q \in Gone}
    BY <1>1 DEF DiffInv, Short
  <1>5. SpecsInv'
    BY <1>1 DEF SpecsInv
  <1>6. DiffInv'
    BY <1>1, <1>2, <1>3, <1>4 DEF DiffInv
  <1>7. TextInv'
    BY <1>1, <1>2 DEF TextInv
  <1>8. DeviceInv'
    BY <1>1 DEF DeviceInv
  <1>. QED
    BY <1>5, <1>6, <1>7, <1>8

(***************************************************************************)
(* The device carries out the deletes: of a leaf that has not its final    *)
(* value yet, an update is in the map.                                     *)
(***************************************************************************)
LEMMA PathApplyDeletes ==
  ASSUME PathInv, ApplyDeletes
  PROVE  PathInv'
  <1>. USE DEF PathInv
  <1>. DEFINE gone == UNION {Below(p) : p \in deletes}
  <1>1. /\ phase = "entry" /\ diff = [delete |-> {}, update |-> {}] /\ phase' = "update"
        /\ device' = [p \in Leaf |-> IF p \in gone THEN Absent ELSE device[p]]
        /\ UNCHANGED <<from, to, start, diff, deletes, updates>>
    BY DEF ApplyDeletes
  <1>2. /\ Changed' = Changed /\ Gone' = Gone /\ Target' = Target
        /\ \A z : UpdateOf(z)' = UpdateOf(z) /\ ValueOf(z)' = ValueOf(z)
    BY <1>1 DEF Changed, Gone, Target, Cleared, UpdateOf, ValueOf
  <1>3. diff.delete = {} /\ diff.update = {}
    BY <1>1
  <1>4. deletes = {Short(q) : q \in Gone}
    BY <1>1, <1>3 DEF DiffInv
  <1>5. \A p : p \in gone <=> \E q \in Gone : p \in Entry(q)
    <2>1. \A q \in Gone : Below(Short(q)) = Entry(q)
      BY EntryFacts DEF Gone
    <2>. QED
      BY <1>4, <2>1
  <1>6. \A p \in Leaf : device'[p] = Cleared[p]
    BY <1>1, <1>5 DEF DeviceInv, Cleared
  <1>7. \A p \in Leaf : device'[p] = Target[p] \/ \E x \in DOMAIN updates : Touches(x.path, p)
    <2>. SUFFICES ASSUME NEW p \in Leaf, NEW q \in Changed, q \in Entry(p)
                  PROVE  \E x \in DOMAIN updates : Touches(x.path, p)
      BY <1>6 DEF Target
    <2>1. PICK x \in DOMAIN updates : x.path = Short(q)
      BY <1>1, <1>3 DEF DiffInv
    <2>. QED
      BY <2>1, TouchFacts DEF Changed
  <1>8. SpecsInv'
    BY <1>1 DEF SpecsInv
  <1>9. DiffInv'
    BY <1>1, <1>2, <1>3, <1>4 DEF DiffInv
  <1>10. TextInv'
    BY <1>1, <1>2 DEF TextInv
  <1>11. DeviceInv'
    BY <1>1, <1>2, <1>7 DEF DeviceInv
  <1>. QED
    BY <1>8, <1>9, <1>10, <1>11

(***************************************************************************)
(* An update gives every leaf that it touches its final value: the leaf    *)
(* itself, and the keys of the list entries on its path.                   *)
(***************************************************************************)
LEMMA PathApplyUpdate ==
  ASSUME PathInv, NEW x, ApplyUpdate(x)
  PROVE  PathInv'
  <1>. USE DEF PathInv
  <1>1. /\ phase = "update" /\ x \in DOMAIN updates
        /\ updates' = [y \in DOMAIN updates \ {x} |-> updates[y]]
        /\ UNCHANGED <<from, to, start, diff, deletes, phase>>
    BY DEF ApplyUpdate
  <1>2. /\ Changed' = Changed /\ Gone' = Gone /\ Target' = Target
        /\ \A z : UpdateOf(z)' = UpdateOf(z) /\ ValueOf(z)' = ValueOf(z)
    BY <1>1 DEF Changed, Gone, Target, Cleared, UpdateOf, ValueOf
  <1>3. PICK q \in Changed : x.path = Short(q) /\ updates[x] = ValueOf(q)
    BY <1>1 DEF TextInv
  <1>4. q \in Leaf /\ to[q] # Absent
    BY DEF Changed
  <1>5. /\ device' = [p \in Leaf |-> device'[p]]
        /\ \A p \in Leaf : device'[p] =
             CASE p = x.path -> updates[x]
               [] p \in KeyLeaf /\ p # x.path /\ IsPrefix(Front(p), x.path) -> KeyValue(p)
               [] OTHER -> device[p]
    BY DEF ApplyUpdate
  <1>6. ASSUME NEW p \in Leaf, Touches(x.path, p) PROVE device'[p] = Target[p]
    <2>1. q \in Entry(p) /\ to[p] # Absent
      BY <1>3, <1>4, <1>6, TouchFacts DEF SpecsInv
    <2>2. Target[p] = to[p]
      BY <2>1 DEF Target
    <2>3. CASE p = x.path
      <3>1. p = q /\ q \notin KeyLeaf
        BY <1>3, <1>4, <2>3, ShortFacts, EntryIsNoLeaf
      <3>. QED
        BY <1>3, <1>5, <2>2, <2>3, <3>1 DEF ValueOf
    <2>4. CASE p # x.path
      <3>1. p \in KeyLeaf /\ IsPrefix(Front(p), x.path)
        BY <1>6, <2>4 DEF Touches
      <3>2. device'[p] = KeyValue(p)
        BY <1>5, <2>4, <3>1
      <3>3. to[p] = KeyValue(p)
        BY <2>1, <3>1 DEF SpecsInv
      <3>. QED
        BY <2>2, <3>2, <3>3
    <2>. QED
      BY <2>3, <2>4
  <1>7. ASSUME NEW p \in Leaf, ~Touches(x.path, p) PROVE device'[p] = device[p]
    BY <1>5, <1>7 DEF Touches
  <1>8. \A p \in Leaf : device'[p] = Target[p] \/ \E y \in DOMAIN updates' : Touches(y.path, p)
    <2>. SUFFICES ASSUME NEW p \in Leaf, device'[p] # Target[p]
                  PROVE  \E y \in DOMAIN updates' : Touches(y.path, p)
      OBVIOUS
    <2>1. ~Touches(x.path, p)
      BY <1>6
    <2>2. PICK y \in DOMAIN updates : Touches(y.path, p)
      BY <1>1, <1>7, <2>1 DEF DeviceInv
    <2>. QED
      BY <1>1, <2>1, <2>2
  <1>9. SpecsInv'
    BY <1>1 DEF SpecsInv
  <1>10. DiffInv'
    BY <1>1, <1>2 DEF DiffInv
  <1>11. TextInv'
    BY <1>1, <1>2 DEF TextInv
  <1>12. DeviceInv'
    BY <1>1, <1>2, <1>5, <1>8 DEF DeviceInv
  <1>. QED
    BY <1>9, <1>10, <1>11, <1>12

(***************************************************************************)
(* Every step keeps the invariant.                                         *)
(***************************************************************************)
LEMMA PathStep == PathInv /\ [Next]_vars => PathInv'
  <1>. SUFFICES ASSUME PathInv, [Next]_vars PROVE PathInv'
    OBVIOUS
  <1>1. CASE UNCHANGED vars
    BY <1>1 DEF vars, PathInv, SpecsInv, DiffInv, TextInv, DeviceInv, Changed, Gone, Target,
                Cleared, UpdateOf, ValueOf
  <1>. QED
    BY <1>1, PathUpdates, PathDeletes, PathApplyDeletes, PathApplyUpdate DEF Next

-----------------------------------------------------------------------------
(***************************************************************************)
(* Target is the outcome of the leaf-level operators.                      *)
(***************************************************************************)
LEMMA TargetIsApplySet ==
  ASSUME SpecsInv
  PROVE  LET n == LeafLevel!validateNotification(LeafLevel!DiffDeletes(from, to),
                                                 LeafLevel!DiffUpdates(from, to))
         IN  LeafLevel!ApplySet(start, n.updates, n.deletes) = Target
  <1>. DEFINE deleted == LeafLevel!Covered(LeafLevel!DiffDeletes(from, to))
              updated == LeafLevel!DiffUpdates(from, to)
  <1>1. \A p : p \in deleted <=> \E q \in Gone : p \in Entry(q)
    BY DEF LeafLevel!Covered, LeafLevel!DiffDeletes, LeafLevel!Leaves, Gone, Entry
  <1>2. \A p \in Leaf : updated[p] = IF \E q \in Changed : q \in Entry(p) THEN to[p] ELSE Absent
    BY DEF LeafLevel!DiffUpdates, Changed, Entry
  <1>3. \A p \in Leaf : (\E q \in Changed : q \in Entry(p)) => to[p] # Absent
    BY DEF SpecsInv, Changed
  <1>. HIDE DEF deleted, updated
  <1>4. LeafLevel!ApplySet(start, updated, deleted) = Target
    <2>1. LeafLevel!ApplySet(start, updated, deleted) =
            [p \in Leaf |-> IF updated[p] # Absent THEN updated[p]
                            ELSE IF p \in deleted THEN Absent ELSE start[p]]
      BY DEF LeafLevel!ApplySet, LeafLevel!Merge
    <2>2. \A p \in Leaf : (IF updated[p] # Absent THEN updated[p]
                           ELSE IF p \in deleted THEN Absent ELSE start[p]) = Target[p]
      BY <1>1, <1>2, <1>3 DEF Target, Cleared
    <2>. QED
      BY <2>1, <2>2 DEF Target
  <1>. QED
    BY <1>4 DEF LeafLevel!validateNotification, deleted, updated

(***************************************************************************)
(* When everything is carried out, the device is as Target says.           *)
(***************************************************************************)
LEMMA AppliedIsTarget ==
  ASSUME PathInv, Applied
  PROVE  device = Target
  BY DEF PathInv, DeviceInv, Applied, Target

(***************************************************************************)
(* Shortened paths, path texts that fall together, texts with two          *)
(* spellings and the order of Go maps make no difference: the device ends  *)
(* up as the leaf-level operators that SrlSystem works with say.           *)
(***************************************************************************)
THEOREM EntryAgrees == Spec => []AgreesWithLeafLevel
  <1>1. PathInv => AgreesWithLeafLevel
    BY AppliedIsTarget, TargetIsApplySet DEF AgreesWithLeafLevel, PathInv
  <1>. QED
    BY <1>1, PathInit, PathStep, PTL DEF Spec

(***************************************************************************)
(* A device that had the recorded spec has the new spec afterwards; what   *)
(* only the recorded spec had is gone; and of what is in neither only the  *)
(* leaves of dropped list entries are lost.                                *)
(***************************************************************************)
THEOREM EntryReaches == Spec => []ReachesSpec
  <1>1. PathInv => ReachesSpec
    <2>. SUFFICES ASSUME PathInv, Applied
                  PROVE  /\ Has(start, from) => Has(device, to)
                         /\ \A p \in Leaf : to[p] = Absent =>
                              IF from[p] # Absent
                              THEN device[p] = Absent
                              ELSE \/ device[p] = start[p]
                                   \/ \E k \in KeyLeaf : /\ from[k] # Absent /\ to[k] = Absent
                                                         /\ IsPrefix(Front(k), p)
      BY DEF ReachesSpec
    <2>1. \A p \in Leaf :
            device[p] = IF \E q \in Changed : q \in Entry(p) THEN to[p]
                        ELSE IF \E q \in Gone : p \in Entry(q) THEN Absent ELSE start[p]
      BY AppliedIsTarget DEF Target, Cleared
    <2>2. SpecsInv
      BY DEF PathInv
    <2>3. ASSUME Has(start, from), NEW p \in Leaf PROVE to[p] \in {Absent, device[p]}
      <3>. SUFFICES ASSUME to[p] # Absent, ~ \E q \in Changed : q \in Entry(p)
                    PROVE  to[p] = device[p]
        BY <2>1
      <3>1. to[p] = from[p] /\ from[p] = start[p]
        BY <2>3, EntryFacts DEF Changed, Has
      <3>2. ~ \E q \in Gone : p \in Entry(q)
        BY <2>2 DEF SpecsInv, Gone
      <3>. QED
        BY <2>1, <3>1, <3>2
    <2>4. ASSUME NEW p \in Leaf, to[p] = Absent
          PROVE  IF from[p] # Absent
                 THEN device[p] = Absent
                 ELSE \/ device[p] = start[p]
                      \/ \E k \in KeyLeaf : /\ from[k] # Absent /\ to[k] = Absent
                                            /\ IsPrefix(Front(k), p)
      <3>1. device[p] = IF \E q \in Gone : p \in Entry(q) THEN Absent ELSE start[p]
        BY <2>1, <2>2, <2>4 DEF SpecsInv, Changed
      <3>2. CASE from[p] # Absent
        BY <2>4, <3>1, <3>2, EntryFacts DEF Gone
      <3>3. CASE from[p] = Absent
        <4>1. ASSUME NEW q \in Gone, p \in Entry(q)
              PROVE  q \in KeyLeaf /\ IsPrefix(Front(q), p)
          BY <3>3, <4>1 DEF Gone, Entry, Below
        <4>. QED
          BY <3>1, <3>3, <4>1 DEF Gone
      <3>. QED
        BY <3>2, <3>3
    <2>. QED
      BY <2>3, <2>4 DEF Has
  <1>. QED
    BY <1>1, PathInit, PathStep, PTL DEF Spec
=============================================================================
