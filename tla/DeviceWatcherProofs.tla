------------------------ MODULE DeviceWatcherProofs ------------------------
(***************************************************************************)
(* Theorems about the watch, the work queue and the workers, for any       *)
(* number of resources and workers and any number of events.               *)
(***************************************************************************)
EXTENDS DeviceWatcher, SequenceTheorems, TLAPS

-----------------------------------------------------------------------------
(***************************************************************************)
(* Sequences, as the queue and the watch use them.                         *)
(***************************************************************************)
In(s, x) == \E i \in 1..Len(s) : s[i] = x

Distinct(s) == \A i, j \in 1..Len(s) : s[i] = s[j] => i = j

(***************************************************************************)
(* The empty sequence is the one of length zero.                           *)
(***************************************************************************)
LEMMA EmptyLen ==
  ASSUME NEW S, NEW s \in Seq(S)
  PROVE  s = <<>> <=> Len(s) = 0
  BY EmptySeq

(***************************************************************************)
(* Append adds one element at the end.                                     *)
(***************************************************************************)
LEMMA AppendFacts ==
  ASSUME NEW S, NEW s \in Seq(S), NEW x \in S
  PROVE  /\ Append(s, x) \in Seq(S)
         /\ \A y : In(Append(s, x), y) <=> In(s, y) \/ y = x
         /\ Distinct(s) /\ ~In(s, x) => Distinct(Append(s, x))
  <1>1. /\ Append(s, x) \in Seq(S) /\ Len(Append(s, x)) = Len(s) + 1 /\ Len(s) \in Nat
        /\ \A i \in 1..Len(s) : Append(s, x)[i] = s[i]
        /\ Append(s, x)[Len(s) + 1] = x
    OBVIOUS
  <1>2. \A y : In(Append(s, x), y) <=> In(s, y) \/ y = x
    BY <1>1 DEF In
  <1>3. Distinct(s) /\ ~In(s, x) => Distinct(Append(s, x))
    BY <1>1 DEF In, Distinct
  <1>. QED
    BY <1>1, <1>2, <1>3

(***************************************************************************)
(* Head and Tail split a sequence.                                         *)
(***************************************************************************)
LEMMA TailFacts ==
  ASSUME NEW S, NEW s \in Seq(S), s # <<>>
  PROVE  /\ Head(s) \in S /\ Tail(s) \in Seq(S)
         /\ \A y : In(s, y) <=> In(Tail(s), y) \/ y = Head(s)
         /\ Distinct(s) => Distinct(Tail(s)) /\ ~In(Tail(s), Head(s))
  <1>1. /\ Head(s) \in S /\ Tail(s) \in Seq(S) /\ Len(s) \in Nat /\ Len(s) # 0
        /\ Head(s) = s[1] /\ Len(Tail(s)) = Len(s) - 1
        /\ \A i \in 1..(Len(s) - 1) : Tail(s)[i] = s[i + 1]
    OBVIOUS
  <1>2. \A y : In(s, y) <=> In(Tail(s), y) \/ y = Head(s)
    <2>. SUFFICES ASSUME NEW y PROVE In(s, y) <=> In(Tail(s), y) \/ y = Head(s)
      OBVIOUS
    <2>1. ASSUME In(s, y) PROVE In(Tail(s), y) \/ y = Head(s)
      <3>1. PICK i \in 1..Len(s) : s[i] = y
        BY <2>1 DEF In
      <3>2. i # 1 => i - 1 \in 1..Len(Tail(s)) /\ Tail(s)[i - 1] = y
        BY <1>1, <3>1
      <3>. QED
        BY <1>1, <3>1, <3>2 DEF In
    <2>2. ASSUME In(Tail(s), y) \/ y = Head(s) PROVE In(s, y)
      BY <1>1, <2>2 DEF In
    <2>. QED
      BY <2>1, <2>2
  <1>3. Distinct(s) => Distinct(Tail(s)) /\ ~In(Tail(s), Head(s))
    BY <1>1 DEF In, Distinct
  <1>. QED
    BY <1>1, <1>2, <1>3

(***************************************************************************)
(* The informer never goes from one object straight to another one of the  *)
(* same name as long as it follows the watch: what is on its way leads in  *)
(* linked steps from the version it has to the one in the API server.      *)
(***************************************************************************)
Linked(a, b) == a.exists /\ b.exists => a.uid = b.uid

Same(a, b) == a.exists = b.exists /\ (a.exists => a.uid = b.uid)

Chain(a, s, z) ==
  IF s = <<>>
  THEN Same(a, z)
  ELSE /\ Linked(a, s[1])
       /\ \A i \in 1..(Len(s) - 1) : Linked(s[i], s[i + 1])
       /\ Same(s[Len(s)], z)

(***************************************************************************)
(* A new version that is linked to the latest one extends the chain.       *)
(***************************************************************************)
LEMMA ChainAppend ==
  ASSUME NEW a, NEW s \in Seq(Version), NEW z, NEW v \in Version, Chain(a, s, z), Linked(z, v)
  PROVE  Chain(a, Append(s, v), v)
  <1>1. /\ Len(Append(s, v)) = Len(s) + 1 /\ Len(s) \in Nat /\ Append(s, v) # <<>>
        /\ \A i \in 1..Len(s) : Append(s, v)[i] = s[i]
        /\ Append(s, v)[Len(s) + 1] = v
        /\ s # <<>> => Len(s) # 0
    OBVIOUS
  <1>2. CASE s = <<>>
    BY <1>1, <1>2 DEF Chain, Linked, Same
  <1>3. CASE s # <<>>
    <2>1. Linked(s[Len(s)], v)
      BY <1>3 DEF Chain, Linked, Same
    <2>2. Linked(a, Append(s, v)[1]) /\ Same(Append(s, v)[Len(s) + 1], v)
      BY <1>1, <1>3 DEF Chain, Same
    <2>3. \A i \in 1..Len(s) : Linked(Append(s, v)[i], Append(s, v)[i + 1])
      <3>. SUFFICES ASSUME NEW i \in 1..Len(s) PROVE Linked(Append(s, v)[i], Append(s, v)[i + 1])
        OBVIOUS
      <3>1. CASE i = Len(s)
        BY <1>1, <2>1, <3>1
      <3>2. CASE i # Len(s)
        BY <1>1, <1>3, <3>2 DEF Chain
      <3>. QED
        BY <3>1, <3>2
    <2>. QED
      BY <1>1, <2>2, <2>3 DEF Chain
  <1>. QED
    BY <1>2, <1>3

(***************************************************************************)
(* Delivering the first event leaves the rest of the chain.                *)
(***************************************************************************)
LEMMA ChainTail ==
  ASSUME NEW a, NEW s \in Seq(Version), NEW z, Chain(a, s, z), s # <<>>
  PROVE  Linked(a, Head(s)) /\ Chain(Head(s), Tail(s), z)
  <1>1. /\ Len(s) \in Nat /\ Len(s) # 0 /\ Tail(s) \in Seq(Version)
        /\ Head(s) = s[1] /\ Len(Tail(s)) = Len(s) - 1
        /\ \A i \in 1..(Len(s) - 1) : Tail(s)[i] = s[i + 1]
    OBVIOUS
  <1>2. Tail(s) = <<>> <=> Len(Tail(s)) = 0
    <2>. DEFINE t == Tail(s)
    <2>1. t \in Seq(Version)
      BY <1>1
    <2>. HIDE DEF t
    <2>2. t = <<>> <=> Len(t) = 0
      BY <2>1, EmptyLen
    <2>. QED
      BY <2>2 DEF t
  <1>3. CASE Len(s) = 1
    <2>1. Tail(s) = <<>>
      BY <1>1, <1>3, <1>2
    <2>. QED
      BY <1>1, <1>3, <2>1 DEF Chain
  <1>4. CASE Len(s) > 1
    <2>1. Tail(s) # <<>>
      BY <1>1, <1>4, <1>2
    <2>2. Tail(s)[1] = s[2] /\ Tail(s)[Len(Tail(s))] = s[Len(s)]
      BY <1>1, <1>4
    <2>3. \A i \in 1..(Len(Tail(s)) - 1) : Tail(s)[i] = s[i + 1] /\ Tail(s)[i + 1] = s[i + 2]
      BY <1>1, <1>4
    <2>4. \A i \in 1..(Len(s) - 1) : Linked(s[i], s[i + 1])
      BY DEF Chain
    <2>5. Linked(s[1], s[2])
      BY <1>1, <1>4, <2>4
    <2>6. \A i \in 1..(Len(Tail(s)) - 1) : Linked(Tail(s)[i], Tail(s)[i + 1])
      <3>. SUFFICES ASSUME NEW i \in 1..(Len(Tail(s)) - 1) PROVE Linked(Tail(s)[i], Tail(s)[i + 1])
        OBVIOUS
      <3>1. i + 1 \in 1..(Len(s) - 1) /\ (i + 1) + 1 = i + 2
        BY <1>1
      <3>. QED
        BY <2>3, <2>4, <3>1
    <2>. QED
      BY <1>1, <2>1, <2>2, <2>5, <2>6 DEF Chain
  <1>. QED
    BY <1>1, <1>3, <1>4

-----------------------------------------------------------------------------
(***************************************************************************)
(* The types of the variables.                                             *)
(***************************************************************************)
TypeOK ==
  /\ object \in [Key -> Version]
  /\ stream \in [Key -> Seq(Version)]
  /\ cached \in [Key -> Version]
  /\ inbox \in [Key -> Nat]
  /\ dirty \subseteq Key /\ processing \subseteq Key /\ delayed \subseteq Key
  /\ queue \in Seq(Key)
  /\ job \in [Worker -> Key \cup {NoKey}]
  /\ stage \in [Worker -> Stage]
  /\ known \in [Key -> Version]
  /\ conflated \subseteq Key
  /\ changes \in 0..MaxChanges

(***************************************************************************)
(* What the queue keeps.  A key waits at most once and never while it has  *)
(* a pass; it is dirty exactly if it waits or will return after its pass;  *)
(* processing is the set of keys the workers hold, each held by one.       *)
(***************************************************************************)
QueueInv ==
  /\ Distinct(queue)
  /\ \A k \in Key : In(queue, k) <=> k \in dirty /\ k \notin processing
  /\ \A k \in Key : k \in processing <=> \E w \in Worker : job[w] = k
  /\ \A w \in Worker : stage[w] = "idle" <=> job[w] = NoKey
  /\ OnePassPerKey

ChainInv == \A k \in Key : Chain(cached[k], stream[k], object[k])

(***************************************************************************)
(* A key without a wake-up has been fetched as the informer knows it, or a *)
(* relist has hidden the change.                                           *)
(***************************************************************************)
Wake(k) == inbox[k] > 0 \/ k \in dirty \/ AboutToFetch(k)

WakeInv == \A k \in Key : k \notin conflated /\ Stale(k) => Wake(k)

IInv == TypeOK /\ QueueInv /\ ChainInv /\ WakeInv

(***************************************************************************)
(* The first version is a version.                                         *)
(***************************************************************************)
LEMMA NeverType == Never \in Version /\ ~Never.exists
  BY DEF Never, Version

(***************************************************************************)
(* A worker with something to do holds a key.                              *)
(***************************************************************************)
LEMMA BusyHasKey ==
  ASSUME TypeOK, QueueInv, NEW w \in Worker, stage[w] # "idle"
  PROVE  job[w] \in Key
  BY DEF TypeOK, QueueInv

(***************************************************************************)
(* The invariant holds at the start.                                       *)
(***************************************************************************)
LEMMA WatcherInit == Init => IInv
  <1>. SUFFICES ASSUME Init PROVE IInv
    OBVIOUS
  <1>1. TypeOK
    BY NeverType, WatcherAssumption DEF Init, TypeOK, Stage
  <1>2. QueueInv
    BY WatcherAssumption DEF Init, QueueInv, OnePassPerKey, In, Distinct
  <1>3. ChainInv
    BY NeverType DEF Init, ChainInv, Chain, Same
  <1>4. WakeInv
    BY DEF Init, WakeInv, Stale
  <1>. QED
    BY <1>1, <1>2, <1>3, <1>4 DEF IInv

(***************************************************************************)
(* A restart forgets the queue with everything that was in it.             *)
(***************************************************************************)
LEMMA WatcherRestart ==
  ASSUME IInv, Restart
  PROVE  IInv'
  <1>. USE DEF IInv
  <1>1. TypeOK'
    <2>1. stream' \in [Key -> Seq(Version)]
      BY DEF Restart, TypeOK
    <2>2. changes' \in 0..MaxChanges
      BY WatcherAssumption DEF Restart, TypeOK
    <2>. QED
      BY <2>1, <2>2, NeverType DEF Restart, TypeOK, Stage
  <1>2. QueueInv'
    BY WatcherAssumption DEF Restart, QueueInv, OnePassPerKey, In, Distinct
  <1>3. ChainInv'
    <2>. SUFFICES ASSUME NEW k \in Key PROVE Chain(cached'[k], stream'[k], object'[k])
      BY DEF ChainInv
    <2>1. cached'[k] = Never /\ object'[k] = object[k] /\ object[k] \in Version
      BY DEF Restart, TypeOK
    <2>2. CASE object[k].exists
      <3>1. stream'[k] = <<object[k]>>
        BY <2>2 DEF Restart
      <3>2. Len(stream'[k]) = 1 /\ stream'[k] # <<>> /\ stream'[k][1] = object[k]
        BY <3>1
      <3>. QED
        BY <2>1, <3>2, NeverType DEF Chain, Linked, Same
    <2>3. CASE ~object[k].exists
      <3>1. stream'[k] = <<>>
        BY <2>3 DEF Restart
      <3>. QED
        BY <2>1, <2>3, <3>1, NeverType DEF Chain, Same, Version
    <2>. QED
      BY <2>2, <2>3
  <1>4. WakeInv'
    BY DEF Restart, WakeInv, Stale
  <1>. QED
    BY <1>1, <1>2, <1>3, <1>4

-----------------------------------------------------------------------------
(***************************************************************************)
(* A write to the API server that does not replace one object by another   *)
(* keeps the types and the chain.                                          *)
(***************************************************************************)
LEMMA StoreKeeps ==
  ASSUME TypeOK, ChainInv, NEW k \in Key, NEW v \in Version, Linked(object[k], v),
         Store(k, v), UNCHANGED cached
  PROVE  object' \in [Key -> Version] /\ stream' \in [Key -> Seq(Version)] /\ ChainInv'
  <1>1. object \in [Key -> Version] /\ stream \in [Key -> Seq(Version)]
    BY DEF TypeOK
  <1>2. stream[k] \in Seq(Version) /\ Chain(cached[k], stream[k], object[k])
    BY <1>1 DEF ChainInv
  <1>3. Append(stream[k], v) \in Seq(Version)
    BY <1>2, AppendFacts
  <1>4. Chain(cached[k], Append(stream[k], v), v)
    BY <1>2, ChainAppend
  <1>5. /\ object' = [object EXCEPT ![k] = v]
        /\ stream' = [stream EXCEPT ![k] = Append(stream[k], v)]
    BY DEF Store
  <1>6. \A j \in Key : Chain(cached'[j], stream'[j], object'[j])
    BY <1>1, <1>4, <1>5 DEF ChainInv
  <1>. QED
    BY <1>1, <1>3, <1>5, <1>6 DEF ChainInv

(***************************************************************************)
(* Users change the API server only.                                       *)
(***************************************************************************)
LEMMA WatcherUser ==
  ASSUME IInv, NEW k \in Key, UserCreate(k) \/ UserEdit(k) \/ UserDelete(k)
  PROVE  IInv'
  <1>. USE DEF IInv
  <1>1. object[k] \in Version
    BY DEF TypeOK
  <1>2. PICK v \in Version : Linked(object[k], v) /\ UserChange(k, v)
    <2>1. CASE UserCreate(k)
      <3>. DEFINE v == [uid |-> object[k].uid + 1, gen |-> 1, exists |-> TRUE,
                        deleting |-> FALSE, final |-> FALSE]
      <3>1. v \in Version /\ Linked(object[k], v)
        BY <1>1, <2>1 DEF UserCreate, Version, Linked
      <3>. QED
        BY <2>1, <3>1 DEF UserCreate
    <2>2. CASE UserEdit(k)
      <3>. DEFINE v == [object[k] EXCEPT !.gen = @ + 1]
      <3>1. v \in Version /\ Linked(object[k], v)
        BY <1>1 DEF Version, Linked
      <3>. QED
        BY <2>2, <3>1 DEF UserEdit
    <2>3. CASE UserDelete(k)
      <3>. DEFINE v == IF object[k].final
                       THEN [object[k] EXCEPT !.gen = @ + 1, !.deleting = TRUE]
                       ELSE [object[k] EXCEPT !.exists = FALSE]
      <3>1. v \in Version /\ Linked(object[k], v)
        <4>1. CASE object[k].final
          <5>1. v = [object[k] EXCEPT !.gen = object[k].gen + 1, !.deleting = TRUE]
            BY <4>1
          <5>. HIDE DEF v
          <5>2. object[k].gen + 1 \in Nat
            BY <1>1 DEF Version
          <5>3. v \in Version
            BY <1>1, <5>1, <5>2 DEF Version
          <5>4. v.uid = object[k].uid
            BY <1>1, <5>1 DEF Version
          <5>. QED
            BY <5>3, <5>4 DEF Linked
        <4>2. CASE ~object[k].final
          BY <1>1, <4>2 DEF Version, Linked
        <4>. QED
          BY <4>1, <4>2
      <3>2. UserChange(k, v)
        BY <2>3 DEF UserDelete
      <3>. HIDE DEF v
      <3>. QED
        BY <3>1, <3>2
    <2>. QED
      BY <2>1, <2>2, <2>3
  <1>3. object' \in [Key -> Version] /\ stream' \in [Key -> Seq(Version)] /\ ChainInv'
    BY <1>2, StoreKeeps DEF UserChange
  <1>4. /\ UNCHANGED <<cached, inbox, dirty, processing, queue, delayed, job, stage, known, conflated>>
        /\ changes' \in 0..MaxChanges
    BY <1>2, WatcherAssumption DEF UserChange, queueVars, workVars, TypeOK
  <1>5. TypeOK'
    BY <1>3, <1>4 DEF TypeOK
  <1>6. QueueInv' /\ WakeInv'
    BY <1>4 DEF QueueInv, OnePassPerKey, WakeInv, Wake, Stale, AboutToFetch
  <1>. QED
    BY <1>3, <1>5, <1>6

(***************************************************************************)
(* The filter drops an event only when the two versions look the same to a *)
(* pass, or are two objects of the same generation.                        *)
(***************************************************************************)
LEMMA FilterFacts ==
  ASSUME NEW a \in Version, NEW b \in Version
  PROVE  /\ Adds(a, b) \in Nat
         /\ Adds(a, b) = 0 /\ ~Conflates(a, b) => View(a) = View(b)
  BY DEF Adds, EventFilter, ObjectHandlerAdds, DeviceHandlerAdds, Conflates, View, Version

(***************************************************************************)
(* What the informer learns keeps its wake-up, unless it is conflated.     *)
(***************************************************************************)
LEMMA LearnKeeps ==
  ASSUME TypeOK, WakeInv, NEW k \in Key, NEW v \in Version, Learn(k, v),
         UNCHANGED <<dirty, job, stage, known>>, conflated \subseteq conflated',
         Conflates(cached[k], v) => k \in conflated'
  PROVE  cached' \in [Key -> Version] /\ inbox' \in [Key -> Nat] /\ WakeInv'
  <1>1. cached \in [Key -> Version] /\ inbox \in [Key -> Nat] /\ cached[k] \in Version
    BY DEF TypeOK
  <1>2. /\ Adds(cached[k], v) \in Nat
        /\ Adds(cached[k], v) = 0 /\ ~Conflates(cached[k], v) => View(cached[k]) = View(v)
    BY <1>1, FilterFacts
  <1>3. /\ cached' = [cached EXCEPT ![k] = v]
        /\ inbox' = [inbox EXCEPT ![k] = inbox[k] + Adds(cached[k], v)]
    BY DEF Learn
  <1>4. cached' \in [Key -> Version] /\ inbox' \in [Key -> Nat]
    BY <1>1, <1>2, <1>3
  <1>5. ASSUME NEW j \in Key, j \notin conflated', Stale(j)'
        PROVE  Wake(j)'
    <2>1. Wake(j) => Wake(j)'
      BY <1>1, <1>2, <1>3 DEF Wake, AboutToFetch
    <2>2. CASE j # k
      BY <1>1, <1>3, <1>5, <2>1, <2>2 DEF WakeInv, Stale
    <2>3. CASE j = k /\ Adds(cached[k], v) = 0
      <3>1. View(cached'[k]) = View(cached[k])
        BY <1>1, <1>2, <1>3, <1>5, <2>3
      <3>. QED
        BY <1>5, <2>1, <2>3, <3>1 DEF WakeInv, Stale
    <2>4. CASE j = k /\ Adds(cached[k], v) # 0
      BY <1>1, <1>2, <1>3, <2>4 DEF Wake
    <2>. QED
      BY <2>2, <2>3, <2>4
  <1>. QED
    BY <1>4, <1>5 DEF WakeInv

(***************************************************************************)
(* The watch delivers an event, or a relist jumps to the latest version.   *)
(***************************************************************************)
LEMMA WatcherLearn ==
  ASSUME IInv, NEW k \in Key, Deliver(k) \/ Relist(k)
  PROVE  IInv'
  <1>. USE DEF IInv
  <1>1. /\ object \in [Key -> Version] /\ stream \in [Key -> Seq(Version)]
        /\ cached \in [Key -> Version] /\ stream[k] \in Seq(Version) /\ object[k] \in Version
        /\ Chain(cached[k], stream[k], object[k]) /\ conflated \subseteq Key
    BY DEF TypeOK, ChainInv
  <1>2. UNCHANGED <<object, changes, dirty, processing, queue, delayed, job, stage, known>>
    BY DEF Deliver, Relist, queueVars, workVars
  <1>3. PICK v \in Version, rest \in Seq(Version) :
          /\ Learn(k, v) /\ stream' = [stream EXCEPT ![k] = rest]
          /\ Chain(v, rest, object[k])
          /\ conflated \subseteq conflated' /\ conflated' \subseteq Key
          /\ Conflates(cached[k], v) => k \in conflated'
    <2>1. CASE Deliver(k)
      <3>1. stream[k] # <<>>
        BY <2>1 DEF Deliver
      <3>2. Head(stream[k]) \in Version /\ Tail(stream[k]) \in Seq(Version)
        BY <1>1, <3>1, TailFacts
      <3>3. Linked(cached[k], Head(stream[k])) /\ Chain(Head(stream[k]), Tail(stream[k]), object[k])
        BY <1>1, <3>1, ChainTail
      <3>4. ~Conflates(cached[k], Head(stream[k]))
        BY <3>3 DEF Linked, Conflates
      <3>5. /\ Learn(k, Head(stream[k])) /\ UNCHANGED conflated
            /\ stream' = [stream EXCEPT ![k] = Tail(stream[k])]
        BY <2>1 DEF Deliver
      <3>. QED
        BY <1>1, <3>2, <3>3, <3>4, <3>5
    <2>2. CASE Relist(k)
      <3>1. /\ Learn(k, object[k]) /\ stream' = [stream EXCEPT ![k] = <<>>]
            /\ conflated' = IF Conflates(cached[k], object[k]) THEN conflated \cup {k} ELSE conflated
        BY <2>2 DEF Relist
      <3>2. Chain(object[k], <<>>, object[k])
        BY DEF Chain, Same
      <3>3. <<>> \in Seq(Version)
        OBVIOUS
      <3>. QED
        BY <1>1, <3>1, <3>2, <3>3
    <2>. QED
      BY <2>1, <2>2
  <1>4. cached' \in [Key -> Version] /\ inbox' \in [Key -> Nat] /\ WakeInv'
    BY <1>2, <1>3, LearnKeeps
  <1>5. TypeOK'
    BY <1>1, <1>2, <1>3, <1>4 DEF TypeOK
  <1>6. QueueInv'
    BY <1>2 DEF QueueInv, OnePassPerKey
  <1>7. ChainInv'
    <2>1. cached' = [cached EXCEPT ![k] = v]
      BY <1>3 DEF Learn
    <2>. QED
      BY <1>1, <1>2, <1>3, <2>1 DEF ChainInv
  <1>. QED
    BY <1>4, <1>5, <1>6, <1>7

(***************************************************************************)
(* Add keeps the queue in order.                                           *)
(***************************************************************************)
LEMMA AddKeeps ==
  ASSUME TypeOK, QueueInv, NEW k \in Key, Add(k), UNCHANGED <<job, stage>>
  PROVE  /\ dirty' = dirty \cup {k} /\ UNCHANGED processing
         /\ queue' \in Seq(Key) /\ QueueInv'
  <1>1. queue \in Seq(Key) /\ dirty' = dirty \cup {k} /\ UNCHANGED processing
    BY DEF TypeOK, Add
  <1>2. CASE k \in dirty \cup processing
    <2>1. queue' = queue
      BY <1>2 DEF Add
    <2>. QED
      BY <1>1, <1>2, <2>1 DEF QueueInv, OnePassPerKey
  <1>3. CASE k \notin dirty \cup processing
    <2>1. queue' = Append(queue, k)
      BY <1>3 DEF Add
    <2>2. ~In(queue, k)
      BY <1>3 DEF QueueInv
    <2>3. /\ queue' \in Seq(Key) /\ Distinct(queue')
          /\ \A y : In(queue', y) <=> In(queue, y) \/ y = k
      BY <1>1, <2>1, <2>2, AppendFacts DEF QueueInv
    <2>. QED
      BY <1>1, <1>3, <2>3 DEF QueueInv, OnePassPerKey
  <1>. QED
    BY <1>1, <1>2, <1>3

(***************************************************************************)
(* Handlers and timers add keys.                                           *)
(***************************************************************************)
LEMMA WatcherAdd ==
  ASSUME IInv, NEW k \in Key, HandlerAdd(k) \/ TimerAdd(k)
  PROVE  IInv'
  <1>. USE DEF IInv
  <1>1. /\ Add(k)
        /\ UNCHANGED <<object, stream, changes, cached, job, stage, known, conflated>>
    BY DEF HandlerAdd, TimerAdd, apiVars, workVars
  <1>2. /\ dirty' = dirty \cup {k} /\ UNCHANGED processing
        /\ queue' \in Seq(Key) /\ QueueInv'
    BY <1>1, AddKeeps
  <1>3. /\ inbox' \in [Key -> Nat] /\ delayed' \subseteq Key
        /\ \A j \in Key : j # k => inbox'[j] = inbox[j]
    <2>1. CASE HandlerAdd(k)
      <3>1. inbox \in [Key -> Nat] /\ inbox' = [inbox EXCEPT ![k] = inbox[k] - 1] /\ inbox[k] > 0
        BY <2>1 DEF HandlerAdd, TypeOK
      <3>. QED
        BY <2>1, <3>1 DEF HandlerAdd, TypeOK
    <2>2. CASE TimerAdd(k)
      BY <2>2 DEF TimerAdd, TypeOK
    <2>. QED
      BY <2>1, <2>2
  <1>4. TypeOK'
    BY <1>1, <1>2, <1>3 DEF TypeOK
  <1>5. ChainInv'
    BY <1>1 DEF ChainInv
  <1>6. WakeInv'
    BY <1>1, <1>2, <1>3 DEF WakeInv, Wake, Stale, AboutToFetch
  <1>. QED
    BY <1>2, <1>4, <1>5, <1>6

-----------------------------------------------------------------------------
(***************************************************************************)
(* A worker takes the first key.  No other worker has it, since a key that *)
(* has a pass does not wait.                                               *)
(***************************************************************************)
LEMMA WatcherGet ==
  ASSUME IInv, NEW w \in Worker, Get(w)
  PROVE  IInv'
  <1>. USE DEF IInv
  <1>. DEFINE k == Head(queue)
  <1>1. /\ job[w] = NoKey /\ queue # <<>> /\ queue \in Seq(Key)
        /\ job' = [job EXCEPT ![w] = k] /\ stage' = [stage EXCEPT ![w] = "got"]
        /\ dirty' = dirty \ {k} /\ processing' = processing \cup {k} /\ queue' = Tail(queue)
        /\ UNCHANGED <<object, stream, changes, cached, inbox, delayed, known, conflated>>
    BY DEF Get, apiVars, TypeOK
  <1>2. /\ k \in Key /\ queue' \in Seq(Key) /\ Distinct(queue') /\ ~In(queue', k)
        /\ \A y : In(queue, y) <=> In(queue', y) \/ y = k
    BY <1>1, TailFacts DEF QueueInv
  <1>. HIDE DEF k
  <1>3. job \in [Worker -> Key \cup {NoKey}] /\ stage \in [Worker -> Stage] /\ k # NoKey
    BY <1>2, WatcherAssumption DEF TypeOK
  <1>4. \A v \in Worker : job[v] # k
    BY <1>2 DEF QueueInv
  <1>5. TypeOK'
    BY <1>1, <1>2, <1>3 DEF TypeOK, Stage
  <1>6. QueueInv'
    <2>1. \A j \in Key : In(queue', j) <=> j \in dirty' /\ j \notin processing'
      BY <1>1, <1>2 DEF QueueInv
    <2>2. \A j \in Key : j \in processing' <=> \E v \in Worker : job'[v] = j
      <3>. SUFFICES ASSUME NEW j \in Key
                    PROVE  j \in processing' <=> \E v \in Worker : job'[v] = j
        OBVIOUS
      <3>1. \A v \in Worker : job'[v] = IF v = w THEN k ELSE job[v]
        BY <1>1, <1>3
      <3>2. j # NoKey
        BY WatcherAssumption
      <3>3. j \in processing <=> \E v \in Worker : job[v] = j
        BY DEF QueueInv
      <3>. QED
        BY <1>1, <3>1, <3>2, <3>3
    <2>3. \A v \in Worker : stage'[v] = "idle" <=> job'[v] = NoKey
      BY <1>1, <1>3 DEF QueueInv
    <2>4. OnePassPerKey'
      BY <1>1, <1>3, <1>4 DEF QueueInv, OnePassPerKey
    <2>. QED
      BY <1>2, <2>1, <2>2, <2>3, <2>4 DEF QueueInv
  <1>7. ChainInv'
    BY <1>1 DEF ChainInv
  <1>8. WakeInv'
    <2>. SUFFICES ASSUME NEW j \in Key, j \notin conflated, Stale(j) PROVE Wake(j)'
      BY <1>1 DEF WakeInv, Stale
    <2>1. CASE j = k
      BY <1>1, <1>3, <2>1 DEF Wake, AboutToFetch
    <2>2. CASE j # k
      <3>1. Wake(j)
        BY DEF WakeInv
      <3>2. AboutToFetch(j) => AboutToFetch(j)'
        BY <1>1, <1>3 DEF AboutToFetch, QueueInv
      <3>. QED
        BY <1>1, <2>2, <3>1, <3>2 DEF Wake
    <2>. QED
      BY <2>1, <2>2
  <1>. QED
    BY <1>5, <1>6, <1>7, <1>8

(***************************************************************************)
(* A pass that goes on keeps its key; nobody else is affected.             *)
(***************************************************************************)
LEMMA StageKeeps ==
  ASSUME TypeOK, QueueInv, NEW w \in Worker, stage[w] # "idle",
         NEW s \in {"busy", "done"}, stage' = [stage EXCEPT ![w] = s],
         UNCHANGED <<dirty, processing, queue, job>>
  PROVE  /\ stage' \in [Worker -> Stage] /\ QueueInv'
         /\ \A j \in Key : j # job[w] => (AboutToFetch(j) => AboutToFetch(j)')
  BY DEF TypeOK, Stage, QueueInv, OnePassPerKey, AboutToFetch

(***************************************************************************)
(* A pass fetches what the informer knows, and may add the finalizer.      *)
(***************************************************************************)
LEMMA WatcherFetch ==
  ASSUME IInv, NEW w \in Worker, Fetch(w)
  PROVE  IInv'
  <1>. USE DEF IInv
  <1>. DEFINE k == job[w]
  <1>1. stage[w] = "got" /\ k \in Key /\ object[k] \in Version /\ cached[k] \in Version
    BY BusyHasKey DEF Fetch, TypeOK
  <1>2. /\ known' = [known EXCEPT ![k] = cached[k]] /\ conflated' = conflated \ {k}
        /\ UNCHANGED <<changes, cached, inbox, dirty, processing, queue, delayed, job>>
    BY DEF Fetch, queueVars
  <1>3. PICK s \in {"busy", "done"} : stage' = [stage EXCEPT ![w] = s]
    BY DEF Fetch
  <1>4. /\ stage' \in [Worker -> Stage] /\ QueueInv'
        /\ \A j \in Key : j # k => (AboutToFetch(j) => AboutToFetch(j)')
    BY <1>1, <1>2, <1>3, StageKeeps
  <1>5. object' \in [Key -> Version] /\ stream' \in [Key -> Seq(Version)] /\ ChainInv'
    <2>1. CASE Store(k, [object[k] EXCEPT !.final = TRUE])
      <3>1. [object[k] EXCEPT !.final = TRUE] \in Version
        BY <1>1 DEF Version
      <3>2. Linked(object[k], [object[k] EXCEPT !.final = TRUE])
        BY <1>1 DEF Linked, Version
      <3>. QED
        BY <1>1, <1>2, <2>1, <3>1, <3>2, StoreKeeps
    <2>2. CASE UNCHANGED <<object, stream>>
      BY <1>2, <2>2 DEF TypeOK, ChainInv
    <2>. QED
      BY <2>1, <2>2 DEF Fetch
  <1>6. TypeOK'
    BY <1>1, <1>2, <1>4, <1>5 DEF TypeOK
  <1>7. WakeInv'
    <2>. SUFFICES ASSUME NEW j \in Key, j \notin conflated', Stale(j)' PROVE Wake(j)'
      BY DEF WakeInv
    <2>1. known \in [Key -> Version] /\ cached'[j] = cached[j]
      BY <1>2 DEF TypeOK
    <2>2. j # k
      BY <1>1, <1>2, <2>1 DEF Stale
    <2>3. Wake(j)
      BY <1>1, <1>2, <2>1, <2>2 DEF WakeInv, Stale
    <2>. QED
      BY <1>2, <1>4, <2>2, <2>3 DEF Wake
  <1>. QED
    BY <1>4, <1>5, <1>6, <1>7

(***************************************************************************)
(* A pass ends well, fails, or removes the finalizer.                      *)
(***************************************************************************)
LEMMA WatcherEnd ==
  ASSUME IInv, NEW w \in Worker, Finalize(w) \/ Requeue(w)
  PROVE  IInv'
  <1>. USE DEF IInv
  <1>. DEFINE k == job[w]
  <1>1. stage[w] = "busy" /\ k \in Key /\ object[k] \in Version
    BY BusyHasKey DEF Finalize, Requeue, TypeOK
  <1>2. /\ stage' = [stage EXCEPT ![w] = "done"]
        /\ UNCHANGED <<changes, cached, inbox, dirty, processing, queue, job, known, conflated>>
    BY DEF Finalize, Requeue, queueVars, apiVars
  <1>3. /\ stage' \in [Worker -> Stage] /\ QueueInv'
        /\ \A j \in Key : AboutToFetch(j) => AboutToFetch(j)'
    <2>1. /\ stage' \in [Worker -> Stage] /\ QueueInv'
      BY <1>1, <1>2, StageKeeps
    <2>2. \A j \in Key : AboutToFetch(j) => AboutToFetch(j)'
      BY <1>1, <1>2 DEF AboutToFetch, TypeOK
    <2>. QED
      BY <2>1, <2>2
  <1>4. /\ object' \in [Key -> Version] /\ stream' \in [Key -> Seq(Version)] /\ ChainInv'
        /\ delayed' \subseteq Key
    <2>1. CASE Finalize(w)
      <3>1. [object[k] EXCEPT !.exists = FALSE] \in Version
        BY <1>1 DEF Version
      <3>2. Linked(object[k], [object[k] EXCEPT !.exists = FALSE])
        BY <1>1 DEF Linked, Version
      <3>3. Store(k, [object[k] EXCEPT !.exists = FALSE]) /\ UNCHANGED delayed
        BY <2>1 DEF Finalize
      <3>4. delayed' \subseteq Key
        BY <3>3 DEF TypeOK
      <3>. QED
        BY <1>1, <1>2, <3>1, <3>2, <3>3, <3>4, StoreKeeps
    <2>2. CASE Requeue(w)
      BY <1>1, <1>2, <2>2 DEF Requeue, apiVars, TypeOK, ChainInv
    <2>. QED
      BY <2>1, <2>2
  <1>5. TypeOK'
    BY <1>2, <1>3, <1>4 DEF TypeOK
  <1>6. WakeInv'
    BY <1>2, <1>3 DEF WakeInv, Wake, Stale
  <1>. QED
    BY <1>3, <1>4, <1>5, <1>6

(***************************************************************************)
(* Done gives the key back, to the queue if it was added during the pass.  *)
(***************************************************************************)
LEMMA WatcherDone ==
  ASSUME IInv, NEW w \in Worker, Done(w)
  PROVE  IInv'
  <1>. USE DEF IInv
  <1>. DEFINE k == job[w]
  <1>1. /\ stage[w] = "done" /\ k \in Key /\ k # NoKey /\ queue \in Seq(Key)
        /\ job \in [Worker -> Key \cup {NoKey}] /\ stage \in [Worker -> Stage]
    BY BusyHasKey, WatcherAssumption DEF Done, TypeOK
  <1>2. /\ job' = [job EXCEPT ![w] = NoKey] /\ stage' = [stage EXCEPT ![w] = "idle"]
        /\ processing' = processing \ {k}
        /\ queue' = IF k \in dirty THEN Append(queue, k) ELSE queue
        /\ UNCHANGED <<dirty, object, stream, changes, cached, inbox, delayed, known, conflated>>
    BY DEF Done, apiVars
  <1>3. k \in processing /\ ~In(queue, k)
    BY <1>1 DEF QueueInv
  <1>4. /\ queue' \in Seq(Key) /\ Distinct(queue')
        /\ \A y : In(queue', y) <=> In(queue, y) \/ (k \in dirty /\ y = k)
    BY <1>1, <1>2, <1>3, AppendFacts DEF QueueInv
  <1>5. TypeOK'
    BY <1>1, <1>2, <1>4 DEF TypeOK, Stage
  <1>6. QueueInv'
    <2>1. \A v \in Worker : /\ job'[v] = IF v = w THEN NoKey ELSE job[v]
                            /\ stage'[v] = IF v = w THEN "idle" ELSE stage[v]
      BY <1>1, <1>2
    <2>2. \A j \in Key : In(queue', j) <=> j \in dirty' /\ j \notin processing'
      BY <1>2, <1>3, <1>4 DEF QueueInv
    <2>3. \A j \in Key : j \in processing' <=> \E v \in Worker : job'[v] = j
      <3>. SUFFICES ASSUME NEW j \in Key
                    PROVE  j \in processing' <=> \E v \in Worker : job'[v] = j
        OBVIOUS
      <3>1. j # NoKey
        BY WatcherAssumption
      <3>2. j \in processing <=> \E v \in Worker : job[v] = j
        BY DEF QueueInv
      <3>3. \A v \in Worker : job[v] = k => v = w
        BY <1>1 DEF QueueInv, OnePassPerKey
      <3>. QED
        BY <1>2, <2>1, <3>1, <3>2, <3>3
    <2>4. \A v \in Worker : stage'[v] = "idle" <=> job'[v] = NoKey
      BY <2>1 DEF QueueInv
    <2>5. OnePassPerKey'
      BY <2>1 DEF QueueInv, OnePassPerKey
    <2>. QED
      BY <1>4, <2>2, <2>3, <2>4, <2>5 DEF QueueInv
  <1>7. ChainInv'
    BY <1>2 DEF ChainInv
  <1>8. WakeInv'
    <2>1. \A j \in Key : AboutToFetch(j) => AboutToFetch(j)'
      BY <1>1, <1>2 DEF AboutToFetch
    <2>. QED
      BY <1>2, <2>1 DEF WakeInv, Wake, Stale
  <1>. QED
    BY <1>5, <1>6, <1>7, <1>8

(***************************************************************************)
(* Every step keeps the invariant.                                         *)
(***************************************************************************)
LEMMA WatcherStep == IInv /\ [Next]_vars => IInv'
  <1>. SUFFICES ASSUME IInv, [Next]_vars PROVE IInv'
    OBVIOUS
  <1>1. CASE UNCHANGED vars
    BY <1>1
    DEF vars, IInv, TypeOK, QueueInv, OnePassPerKey, ChainInv, WakeInv, Wake, Stale, AboutToFetch
  <1>2. ASSUME NEW k \in Key, KeyStep(k) PROVE IInv'
    BY <1>2, WatcherUser, WatcherLearn, WatcherAdd DEF KeyStep
  <1>3. ASSUME NEW w \in Worker, WorkStep(w) PROVE IInv'
    BY <1>3, WatcherGet, WatcherFetch, WatcherEnd, WatcherDone DEF WorkStep
  <1>. QED
    BY <1>1, <1>2, <1>3, WatcherRestart DEF Next

(***************************************************************************)
(* However many workers run and however often a key is added during its    *)
(* pass, no two workers hold the same resource.                            *)
(***************************************************************************)
THEOREM OnePass == Spec => []OnePassPerKey
  <1>1. IInv => OnePassPerKey
    BY DEF IInv, QueueInv
  <1>. QED
    BY <1>1, WatcherInit, WatcherStep, PTL DEF Spec

(***************************************************************************)
(* A spec that the informer knows and no pass has fetched has a wake-up: a *)
(* handler has still to add it, it waits, it returns after its pass, or a  *)
(* pass is about to fetch it.                                              *)
(***************************************************************************)
THEOREM WakeupKept == Spec => []NoLostWakeup
  <1>1. IInv => NoLostWakeup
    <2>. SUFFICES ASSUME IInv, NEW k \in Key, k \notin conflated, Stale(k)
                  PROVE  inbox[k] > 0 \/ Queued(k) \/ Returns(k) \/ AboutToFetch(k)
      BY DEF NoLostWakeup
    <2>1. inbox[k] > 0 \/ k \in dirty \/ AboutToFetch(k)
      BY DEF IInv, WakeInv, Wake
    <2>2. k \in dirty => Queued(k) \/ Returns(k)
      BY DEF IInv, QueueInv, In, Queued, Returns
    <2>. QED
      BY <2>1, <2>2
  <1>. QED
    BY <1>1, WatcherInit, WatcherStep, PTL DEF Spec

-----------------------------------------------------------------------------
(***************************************************************************)
(* The refinement mapping of Schedule, by name.                            *)
(***************************************************************************)
Running == {k \in Key : \E w \in Worker : job[w] = k /\ stage[w] # "got"}

Due == {k \in Key : Stale(k) /\ k \notin conflated}

(***************************************************************************)
(* The five steps of PassSchedule and its stuttering step, under the       *)
(* mapping.                                                                *)
(***************************************************************************)
LEMMA MappedStep ==
  /\ (Running' = {} /\ Due' = {}) => Schedule!Next
  /\ \A k \in Key : Running' = Running /\ Due' = Due \cup {k} => Schedule!Next
  /\ \A k \in Key : Running' = Running /\ Due' = Due \ {k} => Schedule!Next
  /\ \A k \in Key : k \notin Running /\ Running' = Running \cup {k} /\ Due' = Due \ {k}
                    => Schedule!Next
  /\ \A k \in Key : Running' = Running \ {k} /\ Due' = Due => Schedule!Next
  /\ (Running' = Running /\ Due' = Due) => UNCHANGED Schedule!vars
  BY Zenon DEF Running, Due, Schedule!Next, Schedule!Crash, Schedule!Change, Schedule!Retract,
               Schedule!Begin, Schedule!End, Schedule!vars

(***************************************************************************)
(* An event changes what is due, and that of its own key only.             *)
(***************************************************************************)
LEMMA LearnSchedules ==
  ASSUME TypeOK, NEW k \in Key, Deliver(k) \/ Relist(k)
  PROVE  [Schedule!Next]_Schedule!vars
  <1>1. UNCHANGED <<job, stage, known>>
    BY DEF Deliver, Relist, workVars
  <1>2. Running' = Running
    BY <1>1 DEF Running
  <1>3. \A j \in Key : j # k => cached'[j] = cached[j]
    BY DEF Deliver, Relist, Learn, TypeOK
  <1>4. \A j : j # k => (j \in conflated' <=> j \in conflated)
    BY DEF Deliver, Relist
  <1>5. \A j : j # k => (j \in Due' <=> j \in Due)
    BY <1>1, <1>3, <1>4 DEF Due, Stale
  <1>6. CASE k \in Due'
    <2>1. Due' = Due \cup {k}
      BY <1>5, <1>6
    <2>. QED
      BY <1>2, <2>1, MappedStep
  <1>7. CASE k \notin Due'
    <2>1. Due' = Due \ {k}
      BY <1>5, <1>7
    <2>. QED
      BY <1>2, <2>1, MappedStep
  <1>. QED
    BY <1>6, <1>7

(***************************************************************************)
(* Handing out a key is not yet a pass: the worker has to fetch first.     *)
(***************************************************************************)
LEMMA GetSchedules ==
  ASSUME TypeOK, QueueInv, NEW w \in Worker, Get(w)
  PROVE  UNCHANGED Schedule!vars
  <1>1. job[w] = NoKey /\ NoKey \notin Key
    BY WatcherAssumption DEF Get
  <1>2. \A v \in Worker : /\ v # w => job'[v] = job[v] /\ stage'[v] = stage[v]
                          /\ v = w => stage'[v] = "got"
    BY DEF Get, TypeOK
  <1>3. \A k \in Key, v \in Worker :
          job'[v] = k /\ stage'[v] # "got" <=> job[v] = k /\ stage[v] # "got"
    BY <1>1, <1>2
  <1>4. Running' = Running
    BY <1>3 DEF Running
  <1>5. Due' = Due
    BY DEF Get, Due, Stale
  <1>. QED
    BY <1>4, <1>5, MappedStep

(***************************************************************************)
(* A pass begins when it fetches.  The key has no other pass, and its      *)
(* change is no longer due: what the informer knows is what was fetched.   *)
(***************************************************************************)
LEMMA FetchSchedules ==
  ASSUME TypeOK, QueueInv, NEW w \in Worker, Fetch(w)
  PROVE  Schedule!Next
  <1>. DEFINE k == job[w]
  <1>1. stage[w] = "got" /\ k \in Key /\ k # NoKey
    BY BusyHasKey, WatcherAssumption DEF Fetch
  <1>2. /\ known' = [known EXCEPT ![k] = cached[k]] /\ conflated' = conflated \ {k}
        /\ UNCHANGED <<cached, job>>
    BY DEF Fetch
  <1>3. \A v \in Worker : /\ v # w => stage'[v] = stage[v]
                          /\ v = w => stage'[v] # "got"
    BY DEF Fetch, TypeOK
  <1>4. \A v \in Worker : job[v] = k => v = w
    BY <1>1 DEF QueueInv, OnePassPerKey
  <1>5. k \notin Running
    BY <1>1, <1>4 DEF Running
  <1>6. \A j \in Key : j \in Running' <=> j \in Running \/ j = k
    <2>. SUFFICES ASSUME NEW j \in Key PROVE j \in Running' <=> j \in Running \/ j = k
      OBVIOUS
    <2>1. j \in Running' <=> \E v \in Worker : job[v] = j /\ stage'[v] # "got"
      BY <1>2 DEF Running
    <2>2. j \in Running <=> \E v \in Worker : job[v] = j /\ stage[v] # "got"
      BY DEF Running
    <2>. QED
      BY <1>1, <1>3, <2>1, <2>2
  <1>7. Running' = Running \cup {k}
    BY <1>1, <1>6 DEF Running
  <1>8. \A j \in Key : known'[j] = IF j = k THEN cached[j] ELSE known[j]
    BY <1>1, <1>2 DEF TypeOK
  <1>9. Due' = Due \ {k}
    BY <1>2, <1>8 DEF Due, Stale
  <1>. QED
    BY <1>1, <1>5, <1>7, <1>9, MappedStep

(***************************************************************************)
(* Done ends the one pass of its key.                                      *)
(***************************************************************************)
LEMMA DoneSchedules ==
  ASSUME TypeOK, QueueInv, NEW w \in Worker, Done(w)
  PROVE  Schedule!Next
  <1>. DEFINE k == job[w]
  <1>1. stage[w] = "done" /\ k \in Key /\ NoKey \notin Key
    BY BusyHasKey, WatcherAssumption DEF Done
  <1>2. \A v \in Worker : /\ v # w => job'[v] = job[v] /\ stage'[v] = stage[v]
                          /\ v = w => job'[v] = NoKey
    BY DEF Done, TypeOK
  <1>3. \A v \in Worker : job[v] = k => v = w
    BY <1>1 DEF QueueInv, OnePassPerKey
  <1>4. \A j \in Key : j \in Running' <=> j \in Running /\ j # k
    <2>. SUFFICES ASSUME NEW j \in Key PROVE j \in Running' <=> j \in Running /\ j # k
      OBVIOUS
    <2>1. j \in Running' <=> \E v \in Worker : job'[v] = j /\ stage'[v] # "got"
      BY DEF Running
    <2>2. j \in Running <=> \E v \in Worker : job[v] = j /\ stage[v] # "got"
      BY DEF Running
    <2>. QED
      BY <1>1, <1>2, <1>3, <2>1, <2>2
  <1>5. Running' = Running \ {k}
    BY <1>4 DEF Running
  <1>6. Due' = Due
    BY DEF Done, Due, Stale
  <1>. QED
    BY <1>1, <1>5, <1>6, MappedStep

(***************************************************************************)
(* The safety part of ImplementsSchedule: whatever users, broken           *)
(* connections, restarts and coalescing Adds do, what the workers fetch    *)
(* and finish is a behaviour of PassSchedule.  A change stays due until a  *)
(* pass that starts later fetches it, and no pass starts while another one *)
(* of the same resource runs.                                              *)
(***************************************************************************)
THEOREM ScheduleKept == Spec => Schedule!Spec
  <1>1. Init => Schedule!Init
    <2>. SUFFICES ASSUME Init PROVE Schedule!Init
      OBVIOUS
    <2>1. Running = {}
      BY WatcherAssumption DEF Init, Running
    <2>2. Due = {}
      BY DEF Init, Due, Stale
    <2>. QED
      BY <2>1, <2>2, Zenon DEF Schedule!Init, Running, Due
  <1>2. IInv /\ [Next]_vars => [Schedule!Next]_Schedule!vars
    <2>. SUFFICES ASSUME IInv, [Next]_vars PROVE [Schedule!Next]_Schedule!vars
      OBVIOUS
    <2>. USE DEF IInv
    <2>1. CASE UNCHANGED vars
      <3>1. Running' = Running /\ Due' = Due
        BY <2>1 DEF vars, Running, Due, Stale
      <3>. QED
        BY <3>1, MappedStep
    <2>2. CASE Restart
      <3>1. Running' = {}
        BY <2>2, WatcherAssumption DEF Restart, Running
      <3>2. Due' = {}
        BY <2>2 DEF Restart, Due, Stale
      <3>. QED
        BY <3>1, <3>2, MappedStep
    <2>3. ASSUME NEW k \in Key, KeyStep(k) PROVE [Schedule!Next]_Schedule!vars
      <3>1. CASE UserCreate(k) \/ UserEdit(k) \/ UserDelete(k) \/ HandlerAdd(k) \/ TimerAdd(k)
        <4>1. UNCHANGED <<cached, known, conflated, job, stage>>
          BY <3>1 DEF UserCreate, UserEdit, UserDelete, UserChange, HandlerAdd, TimerAdd, workVars
        <4>2. Running' = Running /\ Due' = Due
          BY <4>1 DEF Running, Due, Stale
        <4>. QED
          BY <4>2, MappedStep
      <3>. QED
        BY <2>3, <3>1, LearnSchedules DEF KeyStep
    <2>4. ASSUME NEW w \in Worker, WorkStep(w) PROVE [Schedule!Next]_Schedule!vars
      <3>1. CASE Finalize(w) \/ Requeue(w)
        <4>1. /\ stage[w] = "busy" /\ stage' = [stage EXCEPT ![w] = "done"]
              /\ UNCHANGED <<cached, known, conflated, job>>
          BY <3>1 DEF Finalize, Requeue
        <4>2. \A v \in Worker : stage'[v] # "got" <=> stage[v] # "got"
          BY <4>1 DEF TypeOK
        <4>3. Running' = Running
          BY <4>1, <4>2 DEF Running
        <4>4. Due' = Due
          BY <4>1 DEF Due, Stale
        <4>. QED
          BY <4>3, <4>4, MappedStep
      <3>. QED
        BY <2>4, <3>1, GetSchedules, FetchSchedules, DoneSchedules DEF WorkStep
    <2>. QED
      BY <2>1, <2>2, <2>3, <2>4 DEF Next
  <1>. QED
    BY <1>1, <1>2, WatcherInit, WatcherStep, PTL DEF Spec, Schedule!Spec

-----------------------------------------------------------------------------
(***************************************************************************)
(* NotNewer orders the versions of a resource.                             *)
(***************************************************************************)
LEMMA VersionOrder ==
  /\ \A a \in Version : NotNewer(a, a)
  /\ \A a, b, c \in Version : NotNewer(a, b) /\ NotNewer(b, c) => NotNewer(a, c)
  <1>1. \A a \in Version : NotNewer(a, a)
    BY DEF NotNewer, Version
  <1>2. ASSUME NEW a \in Version, NEW b \in Version, NEW c \in Version,
               NotNewer(a, b), NotNewer(b, c)
        PROVE  NotNewer(a, c)
    <2>1. /\ a.uid \in Nat /\ b.uid \in Nat /\ c.uid \in Nat
          /\ a.gen \in Nat /\ b.gen \in Nat /\ c.gen \in Nat
      BY DEF Version
    <2>. QED
      BY <1>2, <2>1 DEF NotNewer
  <1>. QED
    BY <1>1, <1>2

(***************************************************************************)
(* What the informer has, what is under way to it and what the API server  *)
(* has, in this order.                                                     *)
(***************************************************************************)
Sorted(a, s, z) ==
  /\ NotNewer(a, z)
  /\ \A i \in 1..Len(s) : NotNewer(a, s[i]) /\ NotNewer(s[i], z)
  /\ \A i, j \in 1..Len(s) : i <= j => NotNewer(s[i], s[j])

(***************************************************************************)
(* A newer version goes to the end of the stream.                          *)
(***************************************************************************)
LEMMA SortedAppend ==
  ASSUME NEW a \in Version, NEW s \in Seq(Version), NEW z \in Version, NEW v \in Version,
         Sorted(a, s, z), NotNewer(z, v)
  PROVE  Sorted(a, Append(s, v), v)
  <1>1. /\ Len(Append(s, v)) = Len(s) + 1 /\ Len(s) \in Nat
        /\ \A i \in 1..Len(s) : Append(s, v)[i] = s[i] /\ s[i] \in Version
        /\ Append(s, v)[Len(s) + 1] = v
    OBVIOUS
  <1>2. NotNewer(a, v) /\ NotNewer(v, v)
    BY VersionOrder DEF Sorted
  <1>3. \A i \in 1..Len(s) : NotNewer(a, s[i]) /\ NotNewer(s[i], v)
    BY <1>1, VersionOrder DEF Sorted
  <1>4. \A i \in 1..Len(s) + 1 : NotNewer(a, Append(s, v)[i]) /\ NotNewer(Append(s, v)[i], v)
    BY <1>1, <1>2, <1>3
  <1>5. ASSUME NEW i \in 1..Len(s) + 1, NEW j \in 1..Len(s) + 1, i <= j
        PROVE  NotNewer(Append(s, v)[i], Append(s, v)[j])
    <2>1. CASE j = Len(s) + 1
      BY <1>1, <1>4, <2>1
    <2>2. CASE j # Len(s) + 1
      <3>1. i \in 1..Len(s) /\ j \in 1..Len(s)
        BY <1>1, <1>5, <2>2
      <3>. QED
        BY <1>1, <1>5, <3>1 DEF Sorted
    <2>. QED
      BY <2>1, <2>2
  <1>. QED
    BY <1>1, <1>2, <1>4, <1>5 DEF Sorted

(***************************************************************************)
(* The first event is not older than what the informer has.                *)
(***************************************************************************)
LEMMA SortedTail ==
  ASSUME NEW a \in Version, NEW s \in Seq(Version), NEW z \in Version, Sorted(a, s, z), s # <<>>
  PROVE  NotNewer(a, Head(s)) /\ Sorted(Head(s), Tail(s), z)
  <1>1. /\ Len(s) \in Nat /\ Len(s) # 0
        /\ Head(s) = s[1] /\ Len(Tail(s)) = Len(s) - 1
        /\ \A i \in 1..(Len(s) - 1) : Tail(s)[i] = s[i + 1]
    OBVIOUS
  <1>2. \A i \in 1..(Len(s) - 1) : i + 1 \in 1..Len(s)
    BY <1>1
  <1>3. 1 \in 1..Len(s) /\ \A i \in 1..Len(s) : 1 <= i
    BY <1>1
  <1>4. \A i \in 1..Len(Tail(s)) : NotNewer(s[1], Tail(s)[i]) /\ NotNewer(Tail(s)[i], z)
    BY <1>1, <1>2, <1>3 DEF Sorted
  <1>5. ASSUME NEW i \in 1..Len(Tail(s)), NEW j \in 1..Len(Tail(s)), i <= j
        PROVE  NotNewer(Tail(s)[i], Tail(s)[j])
    <2>1. i + 1 \in 1..Len(s) /\ j + 1 \in 1..Len(s) /\ i + 1 <= j + 1
      BY <1>1, <1>5
    <2>2. Tail(s)[i] = s[i + 1] /\ Tail(s)[j] = s[j + 1]
      BY <1>1
    <2>. QED
      BY <2>1, <2>2 DEF Sorted
  <1>. QED
    BY <1>1, <1>3, <1>4, <1>5 DEF Sorted

(***************************************************************************)
(* What passes fetched, what the informer has, what is under way and what  *)
(* the API server has are in order, for every resource.                    *)
(***************************************************************************)
StreamOrder ==
  \A k \in Key : NotNewer(Never, object[k]) /\ Sorted(cached[k], stream[k], object[k])

KnownOrder == \A k \in Key : NotNewer(known[k], cached[k])

OrderInv == StreamOrder /\ KnownOrder

(***************************************************************************)
(* A write that makes the object newer keeps the events in order.          *)
(***************************************************************************)
LEMMA StoreOrder ==
  ASSUME TypeOK, StreamOrder, NEW k \in Key, NEW v \in Version, NotNewer(object[k], v),
         Store(k, v), UNCHANGED cached
  PROVE  StreamOrder'
  <1>1. /\ object \in [Key -> Version] /\ stream \in [Key -> Seq(Version)]
        /\ cached[k] \in Version /\ stream[k] \in Seq(Version) /\ object[k] \in Version
    BY DEF TypeOK
  <1>2. NotNewer(Never, v) /\ Sorted(cached[k], Append(stream[k], v), v)
    BY <1>1, SortedAppend, VersionOrder, NeverType DEF StreamOrder
  <1>3. /\ object' = [object EXCEPT ![k] = v]
        /\ stream' = [stream EXCEPT ![k] = Append(stream[k], v)]
    BY DEF Store
  <1>. QED
    BY <1>1, <1>2, <1>3 DEF StreamOrder

(***************************************************************************)
(* An edit, a deletion timestamp, a finalizer and the end of an object     *)
(* each make a newer version of it.                                        *)
(***************************************************************************)
LEMMA NewerVersions ==
  ASSUME NEW o \in Version
  PROVE  /\ NotNewer(o, [o EXCEPT !.gen = o.gen + 1])
         /\ NotNewer(o, [o EXCEPT !.gen = o.gen + 1, !.deleting = TRUE])
         /\ NotNewer(o, [o EXCEPT !.final = TRUE])
         /\ NotNewer(o, [o EXCEPT !.exists = FALSE])
         /\ [o EXCEPT !.gen = o.gen + 1] \in Version
         /\ [o EXCEPT !.gen = o.gen + 1, !.deleting = TRUE] \in Version
         /\ [o EXCEPT !.final = TRUE] \in Version
         /\ [o EXCEPT !.exists = FALSE] \in Version
  <1>1. ASSUME NEW v \in Version, v.uid = o.uid, o.gen <= v.gen, v.exists => o.exists,
               o.deleting => v.deleting, o.final => v.final
        PROVE  NotNewer(o, v)
    BY <1>1 DEF NotNewer
  <1>2. o.gen \in Nat /\ o.gen + 1 \in Nat /\ o.gen <= o.gen /\ o.gen <= o.gen + 1
    BY DEF Version
  <1>3. ASSUME NEW v, v = [o EXCEPT !.gen = o.gen + 1] PROVE v \in Version /\ NotNewer(o, v)
    <2>1. v \in Version
      BY <1>2, <1>3 DEF Version
    <2>2. v.uid = o.uid /\ v.gen = o.gen + 1
      BY <1>3 DEF Version
    <2>3. v.exists = o.exists /\ v.deleting = o.deleting /\ v.final = o.final
      BY <1>3 DEF Version
    <2>. QED
      BY <1>1, <1>2, <2>1, <2>2, <2>3
  <1>4. ASSUME NEW v, v = [o EXCEPT !.gen = o.gen + 1, !.deleting = TRUE]
        PROVE  v \in Version /\ NotNewer(o, v)
    <2>1. v \in Version
      BY <1>2, <1>4 DEF Version
    <2>2. v.uid = o.uid /\ v.gen = o.gen + 1
      BY <1>4 DEF Version
    <2>3. v.exists = o.exists /\ v.deleting = TRUE /\ v.final = o.final
      BY <1>4 DEF Version
    <2>. QED
      BY <1>1, <1>2, <2>1, <2>2, <2>3
  <1>5. ASSUME NEW v, v = [o EXCEPT !.final = TRUE] PROVE v \in Version /\ NotNewer(o, v)
    <2>1. v \in Version
      BY <1>5 DEF Version
    <2>2. v.uid = o.uid /\ v.gen = o.gen
      BY <1>5 DEF Version
    <2>3. v.exists = o.exists /\ v.deleting = o.deleting /\ v.final = TRUE
      BY <1>5 DEF Version
    <2>. QED
      BY <1>1, <1>2, <2>1, <2>2, <2>3
  <1>6. ASSUME NEW v, v = [o EXCEPT !.exists = FALSE] PROVE v \in Version /\ NotNewer(o, v)
    <2>1. v \in Version
      BY <1>6 DEF Version
    <2>2. v.uid = o.uid /\ v.gen = o.gen
      BY <1>6 DEF Version
    <2>3. v.exists = FALSE /\ v.deleting = o.deleting /\ v.final = o.final
      BY <1>6 DEF Version
    <2>. QED
      BY <1>1, <1>2, <2>1, <2>2, <2>3
  <1>. QED
    BY <1>3, <1>4, <1>5, <1>6

(***************************************************************************)
(* Users only make newer versions, and so do the two writes of a pass.     *)
(***************************************************************************)
LEMMA UserStoresNewer ==
  ASSUME TypeOK, NEW k \in Key, UserCreate(k) \/ UserEdit(k) \/ UserDelete(k)
  PROVE  \E v \in Version : NotNewer(object[k], v) /\ Store(k, v)
  <1>. DEFINE o == object[k]
  <1>1. o \in Version /\ o.uid \in Nat /\ o.gen \in Nat
    BY DEF TypeOK, Version
  <1>2. CASE UserCreate(k)
    <2>. DEFINE v == [uid |-> o.uid + 1, gen |-> 1, exists |-> TRUE,
                      deleting |-> FALSE, final |-> FALSE]
    <2>1. v \in Version /\ NotNewer(o, v)
      BY <1>1 DEF Version, NotNewer
    <2>2. Store(k, v)
      BY <1>2 DEF UserCreate, UserChange
    <2>. QED
      BY <2>1, <2>2
  <1>3. CASE UserEdit(k)
    BY <1>1, <1>3, NewerVersions DEF UserEdit, UserChange
  <1>4. CASE UserDelete(k) /\ o.final
    BY <1>1, <1>4, NewerVersions DEF UserDelete, UserChange
  <1>5. CASE UserDelete(k) /\ ~o.final
    BY <1>1, <1>5, NewerVersions DEF UserDelete, UserChange
  <1>. QED
    BY <1>2, <1>3, <1>4, <1>5

(***************************************************************************)
(* Every step keeps the order, and no step but a restart lets a pass fetch *)
(* an older version.                                                       *)
(***************************************************************************)
LEMMA OrderStep ==
  ASSUME IInv, OrderInv, [Next]_vars
  PROVE  /\ OrderInv'
         /\ Restart \/ UNCHANGED vars \/ \A k \in Key : NotNewer(known[k], known'[k])
  <1>. DEFINE Forward == \A k \in Key : NotNewer(known[k], known'[k])
  <1>. USE DEF IInv, OrderInv
  <1>1. /\ object \in [Key -> Version] /\ stream \in [Key -> Seq(Version)]
        /\ cached \in [Key -> Version] /\ known \in [Key -> Version]
    BY DEF TypeOK
  <1>2. ASSUME UNCHANGED known PROVE Forward
    BY <1>1, <1>2, VersionOrder
  <1>3. ASSUME UNCHANGED <<known, cached>> PROVE KnownOrder'
    BY <1>3 DEF KnownOrder
  <1>4. ASSUME UNCHANGED <<object, stream, cached>> PROVE StreamOrder'
    BY <1>4 DEF StreamOrder
  <1>5. CASE UNCHANGED vars
    BY <1>3, <1>4, <1>5 DEF vars
  <1>6. CASE Restart
    <2>1. \A k \in Key : /\ object'[k] = object[k] /\ cached'[k] = Never /\ known'[k] = Never
                         /\ stream'[k] = IF object[k].exists THEN <<object[k]>> ELSE <<>>
      BY <1>6 DEF Restart
    <2>2. NotNewer(Never, Never)
      BY NeverType, VersionOrder
    <2>3. ASSUME NEW k \in Key PROVE Sorted(Never, stream'[k], object[k])
      <3>1. NotNewer(Never, object[k]) /\ NotNewer(object[k], object[k])
        BY <1>1, VersionOrder DEF StreamOrder
      <3>2. CASE object[k].exists
        <4>1. stream'[k] = <<object[k]>>
          BY <2>1, <3>2
        <4>2. Len(stream'[k]) = 1 /\ stream'[k][1] = object[k]
          BY <4>1
        <4>. QED
          BY <3>1, <4>2 DEF Sorted
      <3>3. CASE ~object[k].exists
        <4>1. stream'[k] = <<>>
          BY <2>1, <3>3
        <4>2. Len(stream'[k]) = 0
          BY <4>1
        <4>. QED
          BY <3>1, <4>2 DEF Sorted
      <3>. QED
        BY <3>2, <3>3
    <2>4. StreamOrder'
      BY <2>1, <2>3 DEF StreamOrder
    <2>5. KnownOrder'
      BY <2>1, <2>2 DEF KnownOrder
    <2>. QED
      BY <1>6, <2>4, <2>5
  <1>7. ASSUME NEW k \in Key, UserCreate(k) \/ UserEdit(k) \/ UserDelete(k)
        PROVE  OrderInv' /\ Forward
    <2>1. UNCHANGED <<cached, known>>
      BY <1>7 DEF UserCreate, UserEdit, UserDelete, UserChange, workVars
    <2>2. PICK v \in Version : NotNewer(object[k], v) /\ Store(k, v)
      BY <1>7, UserStoresNewer
    <2>3. StreamOrder'
      BY <2>1, <2>2, StoreOrder
    <2>. QED
      BY <1>2, <1>3, <2>1, <2>3
  <1>8. ASSUME NEW k \in Key, Deliver(k) \/ Relist(k) PROVE OrderInv' /\ Forward
    <2>1. UNCHANGED <<object, known>>
      BY <1>8 DEF Deliver, Relist, workVars
    <2>2. /\ cached[k] \in Version /\ stream[k] \in Seq(Version) /\ object[k] \in Version
          /\ known[k] \in Version /\ Sorted(cached[k], stream[k], object[k])
      BY <1>1 DEF StreamOrder
    <2>3. PICK v \in Version, rest \in Seq(Version) :
            /\ Learn(k, v) /\ stream' = [stream EXCEPT ![k] = rest]
            /\ NotNewer(cached[k], v) /\ Sorted(v, rest, object[k])
      <3>1. CASE Deliver(k)
        <4>1. /\ Head(stream[k]) \in Version /\ Tail(stream[k]) \in Seq(Version)
              /\ Learn(k, Head(stream[k]))
              /\ stream' = [stream EXCEPT ![k] = Tail(stream[k])] /\ stream[k] # <<>>
          BY <2>2, <3>1, TailFacts DEF Deliver
        <4>2. /\ NotNewer(cached[k], Head(stream[k]))
              /\ Sorted(Head(stream[k]), Tail(stream[k]), object[k])
          BY <2>2, <4>1, SortedTail
        <4>. QED
          BY <4>1, <4>2
      <3>2. CASE Relist(k)
        <4>1. Learn(k, object[k]) /\ stream' = [stream EXCEPT ![k] = <<>>]
          BY <3>2 DEF Relist
        <4>2. Sorted(object[k], <<>>, object[k])
          BY <2>2, VersionOrder DEF Sorted
        <4>3. NotNewer(cached[k], object[k]) /\ <<>> \in Seq(Version)
          BY <2>2 DEF Sorted
        <4>. QED
          BY <2>2, <4>1, <4>2, <4>3
      <3>. QED
        BY <1>8, <3>1, <3>2
    <2>4. cached' = [cached EXCEPT ![k] = v]
      BY <2>3 DEF Learn
    <2>5. StreamOrder'
      BY <1>1, <2>1, <2>3, <2>4 DEF StreamOrder
    <2>6. NotNewer(known[k], v)
      BY <2>2, <2>3, VersionOrder DEF KnownOrder
    <2>7. KnownOrder'
      BY <1>1, <2>1, <2>4, <2>6 DEF KnownOrder
    <2>. QED
      BY <1>2, <2>1, <2>5, <2>7
  <1>9. ASSUME NEW w \in Worker, Fetch(w) PROVE OrderInv' /\ Forward
    <2>. DEFINE k == job[w]
    <2>1. k \in Key /\ known' = [known EXCEPT ![k] = cached[k]] /\ UNCHANGED cached
      BY <1>9, BusyHasKey DEF Fetch
    <2>2. StreamOrder'
      <3>1. CASE UNCHANGED <<object, stream>>
        BY <1>4, <2>1, <3>1
      <3>2. CASE Store(k, [object[k] EXCEPT !.final = TRUE])
        <4>. DEFINE v == [object[k] EXCEPT !.final = TRUE]
        <4>1. v \in Version /\ NotNewer(object[k], v)
          BY <1>1, <2>1, NewerVersions
        <4>. QED
          BY <2>1, <3>2, <4>1, StoreOrder
      <3>. QED
        BY <1>9, <3>1, <3>2 DEF Fetch
    <2>3. \A j \in Key : known'[j] = IF j = k THEN cached[j] ELSE known[j]
      BY <1>1, <2>1
    <2>4. KnownOrder'
      BY <1>1, <2>1, <2>3, VersionOrder DEF KnownOrder
    <2>5. Forward
      BY <1>1, <2>3, VersionOrder DEF KnownOrder
    <2>. QED
      BY <2>2, <2>4, <2>5
  <1>10. ASSUME NEW w \in Worker, Finalize(w) PROVE OrderInv' /\ Forward
    <2>. DEFINE k == job[w]
                v == [object[k] EXCEPT !.exists = FALSE]
    <2>1. k \in Key /\ Store(k, v) /\ UNCHANGED <<cached, known>>
      BY <1>10, BusyHasKey DEF Finalize
    <2>2. v \in Version /\ NotNewer(object[k], v)
      BY <1>1, <2>1, NewerVersions
    <2>3. StreamOrder'
      BY <2>1, <2>2, StoreOrder
    <2>. QED
      BY <1>2, <1>3, <2>1, <2>3
  <1>11. ASSUME UNCHANGED <<object, stream, cached, known>> PROVE OrderInv' /\ Forward
    BY <1>2, <1>3, <1>4, <1>11
  <1>12. ASSUME NEW k \in Key, KeyStep(k) PROVE OrderInv' /\ Forward
    <2>1. CASE HandlerAdd(k) \/ TimerAdd(k)
      BY <1>11, <2>1 DEF HandlerAdd, TimerAdd, apiVars, workVars
    <2>. QED
      BY <1>7, <1>8, <1>12, <2>1 DEF KeyStep
  <1>13. ASSUME NEW w \in Worker, WorkStep(w) PROVE OrderInv' /\ Forward
    <2>1. CASE Get(w) \/ Requeue(w) \/ Done(w)
      BY <1>11, <2>1 DEF Get, Requeue, Done, apiVars
    <2>. QED
      BY <1>9, <1>10, <1>13, <2>1 DEF WorkStep
  <1>. QED
    BY <1>5, <1>6, <1>12, <1>13 DEF Next

(***************************************************************************)
(* The order holds at the start.                                           *)
(***************************************************************************)
LEMMA OrderInit == Init => OrderInv
  <1>1. NotNewer(Never, Never)
    BY NeverType, VersionOrder
  <1>. QED
    BY <1>1 DEF Init, OrderInv, StreamOrder, KnownOrder, Sorted

(***************************************************************************)
(* Until the process restarts, passes fetch the versions of a resource in  *)
(* the order in which they came about, however far the informer's cache is *)
(* behind and however often the watch breaks.                              *)
(***************************************************************************)
THEOREM FetchOrder == Spec => FetchesInOrder
  <1>1. IInv /\ OrderInv /\ [Next]_vars => OrderInv'
    BY OrderStep
  <1>2. IInv /\ OrderInv /\ [Next]_vars
          => [Restart \/ \A k \in Key : NotNewer(known[k], known'[k])]_vars
    BY OrderStep
  <1>. QED
    BY <1>1, <1>2, OrderInit, WatcherInit, WatcherStep, PTL DEF Spec, FetchesInOrder

-----------------------------------------------------------------------------
(***************************************************************************)
(* The loop of passes.  The object the informer knows is still the one in  *)
(* the API server: then something leads to its next fetch or to a timer.   *)
(* A pass that is over does not count.                                     *)
(***************************************************************************)
Live(k) == object[k].exists /\ cached[k].exists /\ object[k].uid = cached[k].uid

Scheduled(k) == inbox[k] > 0 \/ k \in dirty \/ k \in delayed \/ UnderWay(k)

LoopInv == \A k \in Key : k \notin conflated /\ Live(k) => Scheduled(k)

(***************************************************************************)
(* A write leaves no live key unscheduled: a new object under an old name  *)
(* is not the one the informer knows, since its uid is larger.             *)
(***************************************************************************)
LEMMA StoreLive ==
  ASSUME TypeOK, StreamOrder, NEW k \in Key, NEW v \in Version, Store(k, v), UNCHANGED cached,
         v.exists => \/ object[k].exists /\ object[k].uid = v.uid
                     \/ object[k].uid < v.uid
  PROVE  \A j \in Key : Live(j)' => Live(j)
  <1>1. /\ object \in [Key -> Version] /\ object' = [object EXCEPT ![k] = v]
        /\ object[k] \in Version /\ cached[k] \in Version
    BY DEF TypeOK, Store
  <1>2. /\ cached[k].uid \in Nat /\ object[k].uid \in Nat /\ v.uid \in Nat
        /\ NotNewer(cached[k], object[k])
    BY <1>1 DEF Version, StreamOrder, Sorted
  <1>3. cached[k].uid <= object[k].uid
    BY <1>2 DEF NotNewer
  <1>4. ASSUME NEW j \in Key, Live(j)' PROVE Live(j)
    <2>1. CASE j # k
      BY <1>1, <1>4, <2>1 DEF Live
    <2>2. CASE j = k
      <3>1. object'[k] = v /\ v.exists /\ cached[k].exists /\ v.uid = cached[k].uid
        BY <1>1, <1>4, <2>2 DEF Live
      <3>2. object[k].exists /\ object[k].uid = v.uid
        BY <1>2, <1>3, <3>1
      <3>. QED
        BY <2>2, <3>1, <3>2 DEF Live
    <2>. QED
      BY <2>1, <2>2
  <1>. QED
    BY <1>4

(***************************************************************************)
(* Nothing a user does makes a key live that was not.                      *)
(***************************************************************************)
LEMMA UserLive ==
  ASSUME TypeOK, StreamOrder, NEW k \in Key, UserCreate(k) \/ UserEdit(k) \/ UserDelete(k)
  PROVE  \A j \in Key : Live(j)' => Live(j)
  <1>. DEFINE o == object[k]
  <1>1. o \in Version /\ o.uid \in Nat /\ o.gen \in Nat /\ UNCHANGED cached
    BY DEF TypeOK, Version, UserCreate, UserEdit, UserDelete, UserChange
  <1>2. PICK v \in Version :
          Store(k, v) /\ (v.exists => (o.exists /\ o.uid = v.uid) \/ o.uid < v.uid)
    <2>1. CASE UserCreate(k)
      <3>. DEFINE v == [uid |-> o.uid + 1, gen |-> 1, exists |-> TRUE,
                        deleting |-> FALSE, final |-> FALSE]
      <3>1. v \in Version /\ o.uid < v.uid
        BY <1>1 DEF Version
      <3>2. Store(k, v)
        BY <2>1 DEF UserCreate, UserChange
      <3>. QED
        BY <3>1, <3>2
    <2>2. CASE UserEdit(k)
      <3>. DEFINE v == [o EXCEPT !.gen = o.gen + 1]
      <3>1. v \in Version
        BY <1>1, NewerVersions
      <3>2. v.uid = o.uid
        BY <1>1 DEF Version
      <3>3. Store(k, v) /\ o.exists
        BY <2>2 DEF UserEdit, UserChange
      <3>. HIDE DEF v
      <3>. QED
        BY <3>1, <3>2, <3>3
    <2>3. CASE UserDelete(k) /\ o.final
      <3>. DEFINE v == [o EXCEPT !.gen = o.gen + 1, !.deleting = TRUE]
      <3>1. v \in Version
        BY <1>1, NewerVersions
      <3>2. v.uid = o.uid
        BY <1>1 DEF Version
      <3>3. Store(k, v) /\ o.exists
        BY <2>3 DEF UserDelete, UserChange
      <3>. HIDE DEF v
      <3>. QED
        BY <3>1, <3>2, <3>3
    <2>4. CASE UserDelete(k) /\ ~o.final
      <3>. DEFINE v == [o EXCEPT !.exists = FALSE]
      <3>1. v \in Version
        BY <1>1, NewerVersions
      <3>2. ~v.exists
        BY <1>1 DEF Version
      <3>3. Store(k, v)
        BY <2>4 DEF UserDelete, UserChange
      <3>. HIDE DEF v
      <3>. QED
        BY <3>1, <3>2, <3>3
    <2>. QED
      BY <2>1, <2>2, <2>3, <2>4
  <1>. HIDE DEF o
  <1>. QED
    BY <1>1, <1>2, StoreLive DEF o

(***************************************************************************)
(* An object that the informer had not seen leads to calls of Add, unless  *)
(* a relist takes it for the one before.                                   *)
(***************************************************************************)
LEMMA LearnLive ==
  ASSUME IInv, LoopInv, NEW k \in Key, Deliver(k) \/ Relist(k)
  PROVE  LoopInv'
  <1>. USE DEF IInv
  <1>1. /\ object[k] \in Version /\ cached \in [Key -> Version] /\ inbox \in [Key -> Nat]
        /\ cached[k] \in Version /\ inbox[k] \in Nat /\ stream[k] \in Seq(Version)
    BY DEF TypeOK
  <1>2. UNCHANGED <<object, dirty, delayed, job, stage>>
    BY DEF Deliver, Relist, queueVars, workVars
  <1>3. PICK v \in Version :
          /\ Learn(k, v) /\ conflated \subseteq conflated'
          /\ \/ Linked(cached[k], v)
             \/ v = object[k] /\ (Conflates(cached[k], v) => k \in conflated')
    <2>1. CASE Deliver(k)
      <3>1. stream[k] # <<>> /\ Learn(k, Head(stream[k])) /\ UNCHANGED conflated
        BY <2>1 DEF Deliver
      <3>2. Head(stream[k]) \in Version /\ Linked(cached[k], Head(stream[k]))
        BY <1>1, <3>1, TailFacts, ChainTail DEF ChainInv
      <3>. QED
        BY <3>1, <3>2
    <2>2. CASE Relist(k)
      BY <1>1, <2>2 DEF Relist
    <2>. QED
      BY <2>1, <2>2
  <1>4. /\ cached' = [cached EXCEPT ![k] = v]
        /\ inbox' = [inbox EXCEPT ![k] = inbox[k] + Adds(cached[k], v)]
        /\ Adds(cached[k], v) \in Nat
    BY <1>1, <1>3, FilterFacts DEF Learn
  <1>5. \A j \in Key : Scheduled(j) => Scheduled(j)'
    BY <1>1, <1>2, <1>4 DEF Scheduled, UnderWay
  <1>6. ASSUME NEW j \in Key, j \notin conflated', Live(j)'
        PROVE  Scheduled(j)'
    <2>1. CASE j # k
      BY <1>1, <1>2, <1>3, <1>4, <1>5, <1>6, <2>1 DEF LoopInv, Live
    <2>2. CASE j = k
      <3>1. v.exists /\ object[k].exists /\ object[k].uid = v.uid
        BY <1>1, <1>2, <1>4, <1>6, <2>2 DEF Live
      <3>2. CASE cached[k].exists /\ cached[k].uid = v.uid
        BY <1>3, <1>5, <1>6, <2>2, <3>1, <3>2 DEF LoopInv, Live
      <3>3. CASE ~(cached[k].exists /\ cached[k].uid = v.uid)
        <4>1. Adds(cached[k], v) > 0
          <5>1. CASE ~cached[k].exists
            BY <3>1, <5>1 DEF Adds, EventFilter, ObjectHandlerAdds, DeviceHandlerAdds
          <5>2. CASE cached[k].exists /\ cached[k].uid # v.uid
            <6>1. ~Conflates(cached[k], v)
              BY <1>3, <1>6, <2>2, <3>1, <5>2 DEF Linked
            <6>. QED
              BY <3>1, <5>2, <6>1
              DEF Conflates, Adds, EventFilter, ObjectHandlerAdds, DeviceHandlerAdds
          <5>. QED
            BY <3>3, <5>1, <5>2
        <4>2. inbox'[k] > 0
          BY <1>1, <1>4, <4>1
        <4>. QED
          BY <2>2, <4>2 DEF Scheduled
      <3>. QED
        BY <3>2, <3>3
    <2>. QED
      BY <2>1, <2>2
  <1>. QED
    BY <1>6 DEF LoopInv

(***************************************************************************)
(* The steps of a worker: only the pass that found no resource and the one *)
(* that removed its finalizer are over without a timer.                    *)
(***************************************************************************)
LEMMA WorkLive ==
  ASSUME IInv, OrderInv, LoopInv, NEW w \in Worker, WorkStep(w)
  PROVE  LoopInv'
  <1>. DEFINE k == job[w]
  <1>. USE DEF IInv, OrderInv
  <1>1. /\ stage \in [Worker -> Stage] /\ job \in [Worker -> Key \cup {NoKey}]
        /\ object \in [Key -> Version] /\ cached \in [Key -> Version] /\ queue \in Seq(Key)
    BY DEF TypeOK
  <1>2. CASE Get(w)
    <2>. DEFINE g == Head(queue)
    <2>1. g \in Key /\ stage[w] = "idle"
      BY <1>1, <1>2, TailFacts DEF Get, QueueInv
    <2>2. /\ UNCHANGED <<object, cached, inbox, delayed, conflated>> /\ dirty' = dirty \ {g}
          /\ job'[w] = g /\ stage'[w] = "got"
          /\ \A v \in Worker : v # w => job'[v] = job[v] /\ stage'[v] = stage[v]
      BY <1>1, <1>2 DEF Get, apiVars
    <2>. HIDE DEF g
    <2>3. ASSUME NEW j \in Key, Scheduled(j) PROVE Scheduled(j)'
      <3>1. UnderWay(j) => UnderWay(j)'
        BY <2>1, <2>2 DEF UnderWay
      <3>2. j = g => UnderWay(j)'
        BY <2>2 DEF UnderWay
      <3>. QED
        BY <2>2, <2>3, <3>1, <3>2 DEF Scheduled
    <2>. QED
      BY <2>2, <2>3 DEF LoopInv, Live
  <1>3. CASE Fetch(w)
    <2>1. /\ k \in Key /\ UNCHANGED <<cached, inbox, dirty, delayed, job>>
          /\ conflated' = conflated \ {k}
          /\ stage' = [stage EXCEPT ![w] = IF cached[k].exists THEN "busy" ELSE "done"]
      BY <1>3, BusyHasKey DEF Fetch, queueVars
    <2>2. \A j \in Key : Live(j)' => Live(j)
      <3>1. CASE UNCHANGED <<object, stream>>
        BY <2>1, <3>1 DEF Live
      <3>2. CASE cached[k].exists /\ object[k] = cached[k] /\ Store(k, [object[k] EXCEPT !.final = TRUE])
        <4>. DEFINE v == [object[k] EXCEPT !.final = TRUE]
        <4>1. v \in Version
          BY <1>1, <2>1, NewerVersions
        <4>2. v.uid = object[k].uid
          BY <1>1, <2>1 DEF Version
        <4>3. Store(k, v) /\ object[k].exists
          BY <3>2
        <4>. HIDE DEF v
        <4>. QED
          BY <2>1, <4>1, <4>2, <4>3, StoreLive
      <3>. QED
        BY <1>3, <3>1, <3>2 DEF Fetch
    <2>3. \A v \in Worker : v # w => stage'[v] = stage[v]
      BY <1>1, <2>1
    <2>4. ASSUME NEW j \in Key, j \notin conflated', Live(j)' PROVE Scheduled(j)'
      <3>1. CASE j = k
        <4>1. cached[k].exists
          BY <2>2, <2>4, <3>1 DEF Live
        <4>2. job'[w] = k /\ stage'[w] = "busy"
          BY <1>1, <2>1, <4>1
        <4>. QED
          BY <3>1, <4>2 DEF Scheduled, UnderWay
      <3>2. CASE j # k
        <4>1. j \notin conflated /\ Live(j)
          BY <2>1, <2>2, <2>4, <3>2
        <4>2. Scheduled(j)
          BY <4>1 DEF LoopInv
        <4>3. UnderWay(j) => UnderWay(j)'
          BY <2>1, <2>3, <3>2 DEF UnderWay
        <4>. QED
          BY <2>1, <4>2, <4>3 DEF Scheduled
      <3>. QED
        BY <3>1, <3>2
    <2>. QED
      BY <2>4 DEF LoopInv
  <1>4. CASE Finalize(w) \/ Requeue(w)
    <2>1. /\ k \in Key /\ UNCHANGED <<cached, inbox, dirty, job, conflated>>
          /\ stage' = [stage EXCEPT ![w] = "done"] /\ delayed \subseteq delayed'
      BY <1>4, BusyHasKey DEF Finalize, Requeue, queueVars
    <2>2. \A v \in Worker : v # w => stage'[v] = stage[v]
      BY <1>1, <2>1
    <2>3. /\ \A j \in Key : Live(j)' => Live(j)
          /\ ~Live(k)' \/ k \in delayed'
      <3>1. CASE Finalize(w)
        <4>. DEFINE v == [object[k] EXCEPT !.exists = FALSE]
        <4>1. v \in Version
          BY <1>1, <2>1, NewerVersions
        <4>2. ~v.exists
          BY <1>1, <2>1 DEF Version
        <4>3. Store(k, v)
          BY <3>1 DEF Finalize
        <4>. HIDE DEF v
        <4>4. \A j \in Key : Live(j)' => Live(j)
          BY <2>1, <4>1, <4>2, <4>3, StoreLive
        <4>5. object'[k] = v
          BY <1>1, <2>1, <4>3 DEF Store
        <4>. QED
          BY <2>1, <4>2, <4>4, <4>5 DEF Live
      <3>2. CASE Requeue(w)
        BY <2>1, <3>2 DEF Requeue, apiVars, Live
      <3>. QED
        BY <1>4, <3>1, <3>2
    <2>4. ASSUME NEW j \in Key, j \notin conflated', Live(j)' PROVE Scheduled(j)'
      <3>1. Scheduled(j)
        BY <2>1, <2>3, <2>4 DEF LoopInv
      <3>2. j # k => (UnderWay(j) => UnderWay(j)')
        BY <2>1, <2>2 DEF UnderWay
      <3>. QED
        BY <2>1, <2>3, <2>4, <3>1, <3>2 DEF Scheduled
    <2>. QED
      BY <2>4 DEF LoopInv
  <1>5. CASE Done(w)
    <2>1. /\ stage[w] = "done" /\ UNCHANGED <<object, cached, inbox, dirty, delayed, conflated>>
          /\ \A v \in Worker : v # w => job'[v] = job[v] /\ stage'[v] = stage[v]
      BY <1>1, <1>5 DEF Done, apiVars
    <2>2. \A j \in Key : UnderWay(j) => UnderWay(j)'
      BY <2>1 DEF UnderWay
    <2>. QED
      BY <2>1, <2>2 DEF LoopInv, Live, Scheduled
  <1>. QED
    BY <1>2, <1>3, <1>4, <1>5 DEF WorkStep

(***************************************************************************)
(* A resource never drops out of the loop of passes: as long as the object *)
(* the informer knows exists, an event, the queue, a pass or a timer leads *)
(* to its next pass, for any number of resources, workers, deletions and   *)
(* new objects under old names.                                            *)
(***************************************************************************)
THEOREM LoopKept == Spec => []StaysScheduled
  <1>1. Init => LoopInv
    BY NeverType DEF Init, LoopInv, Live
  <1>2. IInv /\ OrderInv /\ LoopInv /\ [Next]_vars => LoopInv'
    <2>. SUFFICES ASSUME IInv, OrderInv, LoopInv, [Next]_vars PROVE LoopInv'
      OBVIOUS
    <2>1. CASE UNCHANGED vars
      BY <2>1 DEF vars, LoopInv, Live, Scheduled, UnderWay
    <2>2. CASE Restart
      BY <2>2, NeverType DEF Restart, LoopInv, Live
    <2>3. ASSUME NEW k \in Key, UserCreate(k) \/ UserEdit(k) \/ UserDelete(k) PROVE LoopInv'
      <3>1. \A j \in Key : Live(j)' => Live(j)
        BY <2>3, UserLive DEF IInv, OrderInv
      <3>2. UNCHANGED <<inbox, dirty, delayed, job, stage, conflated>>
        BY <2>3 DEF UserCreate, UserEdit, UserDelete, UserChange, queueVars, workVars
      <3>. QED
        BY <3>1, <3>2 DEF LoopInv, Scheduled, UnderWay
    <2>4. ASSUME NEW k \in Key, HandlerAdd(k) \/ TimerAdd(k) PROVE LoopInv'
      <3>1. /\ UNCHANGED <<object, cached, job, stage, conflated>> /\ dirty' = dirty \cup {k}
            /\ \A j \in Key : j # k => inbox'[j] = inbox[j] /\ (j \in delayed' <=> j \in delayed)
        BY <2>4 DEF HandlerAdd, TimerAdd, Add, apiVars, workVars, IInv, TypeOK
      <3>. QED
        BY <3>1 DEF LoopInv, Live, Scheduled, UnderWay
    <2>5. ASSUME NEW k \in Key, KeyStep(k) PROVE LoopInv'
      BY <2>3, <2>4, <2>5, LearnLive DEF KeyStep
    <2>. QED
      BY <2>1, <2>2, <2>5, WorkLive DEF Next
  <1>3. IInv /\ LoopInv => StaysScheduled
    <2>. SUFFICES ASSUME IInv, LoopInv, NEW k \in Key, k \notin conflated, Live(k)
                  PROVE  inbox[k] > 0 \/ Queued(k) \/ Returns(k) \/ UnderWay(k) \/ k \in delayed
      BY DEF StaysScheduled, Live
    <2>1. Scheduled(k)
      BY DEF LoopInv
    <2>2. k \in dirty => Queued(k) \/ Returns(k)
      BY DEF IInv, QueueInv, In, Queued, Returns
    <2>. QED
      BY <2>1, <2>2 DEF Scheduled
  <1>4. IInv /\ OrderInv /\ [Next]_vars => OrderInv'
    BY OrderStep
  <1>. QED
    BY <1>1, <1>2, <1>3, <1>4, WatcherInit, WatcherStep, OrderInit, PTL DEF Spec
=============================================================================
