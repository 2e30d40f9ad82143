------------------------- MODULE FluxObserveProofs -------------------------
(***************************************************************************)
(* The Flux observation lists what really was, in order, and keeps the     *)
(* promise of BoundedList, for any objects, scopes, inputs and page size.  *)
(***************************************************************************)
EXTENDS FluxObserve, FiniteSetTheorems, SequenceTheorems, WellFoundedInduction,
        TLAPS

ListOf(o) == [scope |-> ScopeOf[o], kind |-> KindOf[o]]
ListRequests == [scope : ConfiguredScopes, kind : Kinds]
Pending(l) == \E i \in DOMAIN todo : todo[i] = l
Since(o) == {ConditionOf(v) : v \in seen[o]}

(* What EntriesWereTrue says of one entry and one version. *)
Describes(e, v) ==
    LET ready == {i \in DOMAIN v : v[i].type = "Ready"} IN
    \/ ready = {} /\ e.state = "unknown" /\ e.reason = "unknown"
    \/ \E i \in ready :
          /\ v[i].status # "True"
          /\ e.state = "false" <=> v[i].status = "False"
          /\ e.reason = NormalizeReconciliationReason(v[i].reason)

(* Entries with different objects, which have numbers. *)
Keyed(S) ==
    /\ \A e \in S : e.object \in Objects
    /\ \A e, f \in S : e.object = f.object => e = f

(* The types that the proofs need. *)
ClusterTypes ==
    /\ cluster \in [Objects -> Versions]
    /\ seen \in [Objects -> SUBSET Versions]
ResultTypes ==
    /\ input # NoInput => input.kind = "input" /\ input.limit \in 0 .. MaxListLimit
    /\ todo \in Seq(ListRequests)
    /\ output.kind \in {"none", "error", "list"}
    /\ output.kind = "none" => output = NoOutput

(* Between observations nothing is left of the last one. *)
IdleInv == input = NoInput => output = NoOutput /\ found = {} /\ ~partial

(* The history is up to date while an observation runs. *)
SeenInv == Busy => \A o \in Objects : cluster[o] \in seen[o]

(* Every list of a selected scope is read once. *)
PlanInv ==
    /\ \A i, j \in DOMAIN todo : todo[i] = todo[j] => i = j
    /\ \A i \in DOMAIN todo : input.scope \in {"", todo[i].scope}

(* An entry describes a version that its object had, which was unready; its *)
(* list will not be read again, so that there is no second entry.           *)
FoundInv ==
    /\ Keyed(found)
    /\ \A e \in found :
          /\ Selected(e.object) /\ ~Pending(ListOf(e.object))
          /\ \E v \in seen[e.object] \ {Absent} :
                Describes(e, v) /\ ConditionOf(v) = "unready"

(* Nothing that was unready all along gets lost: its list is still to be    *)
(* read, or it was found, or the observation knows that it is partial.      *)
NotLost ==
    Busy => \A o \in Objects : Selected(o) /\ Since(o) = {"unready"} =>
                Pending(ListOf(o)) \/ (\E e \in found : e.object = o) \/ partial

IInv ==
    /\ ClusterTypes /\ ResultTypes
    /\ IdleInv /\ SeenInv /\ PlanInv /\ FoundInv /\ NotLost
    /\ EntriesWereTrue /\ KeptAreFirst

-----------------------------------------------------------------------------
(* Sorting and cutting. *)

(* There are as many entries as objects in them. *)
LEMMA KeyedCardinality ==
    ASSUME NEW S, Keyed(S)
    PROVE  /\ IsFiniteSet(S) /\ Cardinality(S) \in Nat
           /\ Cardinality({e.object : e \in S}) = Cardinality(S)
<1> DEFINE keys == {e.object : e \in S}
           key == [e \in S |-> e.object]
<1>1. /\ key \in [S -> Objects] /\ key \in [S -> keys]
      /\ \A e, f \in S : key[e] = key[f] => e = f
      /\ \A k \in keys : \E e \in S : key[e] = k
  BY DEF Keyed
<1> HIDE DEF key, keys
<1>2. key \in Injection(S, Objects) /\ key \in Bijection(S, keys)
  BY <1>1 DEF Injection, Bijection, Surjection, IsInjective
<1>3. IsFiniteSet(S)
  BY <1>2, FluxAssumption, FS_Injection
<1>4. Cardinality(keys) = Cardinality(S)
  BY <1>2, <1>3, FS_Bijection DEF ExistsBijection
<1> QED
  BY <1>3, <1>4, FS_CardinalityType DEF keys

(* A part of a set with one entry per object has one entry per object. *)
LEMMA KeyedSubset ==
    ASSUME NEW S, Keyed(S), NEW T \in SUBSET S
    PROVE  Keyed(T)
BY DEF Keyed

(* The entries of S that come before e. *)
Below(S, e) == {f \in S : f.object < e.object}

(* The entries before e are fewer than all entries, and grow along the      *)
(* order.                                                                   *)
LEMMA BelowFacts ==
    ASSUME NEW S, Keyed(S), NEW e \in S
    PROVE  /\ Below(S, e) \in SUBSET S /\ e \notin Below(S, e)
           /\ IsFiniteSet(Below(S, e)) /\ Cardinality(Below(S, e)) \in Nat
           /\ Cardinality(Below(S, e)) < Cardinality(S)
           /\ \A f \in S : /\ f.object < e.object => f \in Below(S, e)
                           /\ f.object <= e.object => Below(S, f) \in SUBSET Below(S, e)
           /\ e.object \in Nat
<1>1. \A f \in S : f.object \in Nat
  BY FluxAssumption DEF Keyed
<1>2. Below(S, e) \in SUBSET S /\ e \notin Below(S, e)
  BY <1>1 DEF Below
<1>3. IsFiniteSet(S) /\ Cardinality(S) \in Nat
  BY KeyedCardinality
<1>4. /\ IsFiniteSet(Below(S, e)) /\ Cardinality(Below(S, e)) \in Nat
      /\ Cardinality(Below(S, e)) < Cardinality(S)
  BY <1>2, <1>3, FS_Subset, FS_CardinalityType
<1>5. \A f \in S : f.object < e.object => f \in Below(S, e)
  BY DEF Below
<1>6. ASSUME NEW f \in S, f.object <= e.object
      PROVE  Below(S, f) \in SUBSET Below(S, e)
  <2> SUFFICES ASSUME NEW g \in S, g.object < f.object PROVE g.object < e.object
    BY DEF Below
  <2>1. g.object \in Nat /\ f.object \in Nat /\ e.object \in Nat
    BY <1>1
  <2> QED
    BY <1>6, <2>1
<1> QED
  BY <1>1, <1>2, <1>4, <1>5, <1>6

(* At most limit entries are kept: the numbers of smaller entries are       *)
(* different for different entries, and below limit for those kept.         *)
LEMMA AtMostLimit ==
    ASSUME NEW S, Keyed(S), NEW limit \in Nat
    PROVE  /\ FirstInOrder(S, limit) \in SUBSET S
           /\ Cardinality(FirstInOrder(S, limit)) <= limit
<1> DEFINE T == FirstInOrder(S, limit)
           f == [e \in T |-> Cardinality(Below(S, e))]
<1>1. T \in SUBSET S /\ \A e \in T : Cardinality(Below(S, e)) < limit
  BY DEF FirstInOrder, Below
<1> HIDE DEF T
<1>2. IsFiniteSet(T) /\ Cardinality(T) \in Nat
  BY <1>1, KeyedSubset, KeyedCardinality
<1>3. ASSUME NEW e \in T PROVE Cardinality(Below(S, e)) \in 0 .. limit - 1
  BY <1>1, BelowFacts
<1>4. f \in [T -> 0 .. limit - 1]
  BY <1>3
<1>5. ASSUME NEW d \in T, NEW e \in T, d.object < e.object PROVE f[d] # f[e]
  <2>1. d \in S /\ e \in S /\ d.object \in Nat /\ e.object \in Nat
    BY <1>1, BelowFacts
  <2>2. d.object <= e.object
    BY <1>5, <2>1
  <2>3. /\ Below(S, d) \in SUBSET Below(S, e)
        /\ d \in Below(S, e) /\ d \notin Below(S, d)
        /\ IsFiniteSet(Below(S, e))
    BY <1>5, <2>1, <2>2, BelowFacts
  <2> QED
    BY <2>3, FS_Subset
<1>6. ASSUME NEW d \in T, NEW e \in T, d # e PROVE f[d] # f[e]
  <2>1. d.object \in Nat /\ e.object \in Nat
    BY <1>1, BelowFacts
  <2>2. d.object # e.object
    BY <1>1, <1>6 DEF Keyed
  <2>3. d.object < e.object \/ e.object < d.object
    BY <2>1, <2>2
  <2> QED
    BY <1>5, <2>3
<1>7. IsFiniteSet(0 .. limit - 1) /\ Cardinality(0 .. limit - 1) = limit
  BY FS_Interval
<1> HIDE DEF f
<1>8. ~(limit < Cardinality(T))
  BY <1>2, <1>4, <1>6, <1>7, FS_PigeonHole
<1> QED
  BY <1>1, <1>2, <1>8 DEF T

(* What the cut leaves out comes after all that is kept, and there is more  *)
(* than limit.                                                              *)
LEMMA CutIsSuffix ==
    ASSUME NEW S, Keyed(S), NEW limit \in Nat,
           NEW e \in S, e \notin FirstInOrder(S, limit)
    PROVE  /\ Cardinality(S) > limit
           /\ \A f \in FirstInOrder(S, limit) : f.object < e.object
<1>1. ~(Cardinality(Below(S, e)) < limit)
  BY DEF FirstInOrder, Below
<1>2. Cardinality(S) \in Nat
  BY KeyedCardinality
<1>3. ASSUME NEW f \in FirstInOrder(S, limit), ~(f.object < e.object) PROVE FALSE
  <2>1. f \in S /\ Cardinality(Below(S, f)) < limit
    BY <1>3 DEF FirstInOrder, Below
  <2>2. f.object \in Nat /\ e.object \in Nat
    BY <2>1, BelowFacts
  <2>3. Below(S, e) \in SUBSET Below(S, f)
    BY <1>3, <2>1, <2>2, BelowFacts
  <2>4. /\ IsFiniteSet(Below(S, f)) /\ Cardinality(Below(S, f)) \in Nat
        /\ Cardinality(Below(S, e)) \in Nat
    BY <2>1, BelowFacts
  <2>5. Cardinality(Below(S, e)) <= Cardinality(Below(S, f))
    BY <2>3, <2>4, FS_Subset
  <2> QED
    BY <1>1, <2>1, <2>4, <2>5
<1>4. Cardinality(S) > limit
  BY <1>1, <1>2, BelowFacts
<1> QED
  BY <1>3, <1>4

-----------------------------------------------------------------------------
(* Readiness. *)

(* A set of positions has a first. *)
LEMMA FirstExists ==
    ASSUME NEW T \in SUBSET Nat, T # {}
    PROVE  \E i \in T : \A j \in T : i <= j
<1>1. PICK i \in T : \A j \in T : ~(<<j, i>> \in OpToRel(<, Nat))
  BY NatLessThanWellFounded, WFMin
<1>2. ASSUME NEW j \in T PROVE i <= j
  <2>1. ~(j < i)
    BY <1>1 DEF OpToRel
  <2>2. i \in Nat /\ j \in Nat
    OBVIOUS
  <2> QED
    BY <2>1, <2>2
<1> QED
  BY <1>2

(* reconciliationHealth judges a version as its condition says, and what it *)
(* says of one that is not ready comes from that version.                   *)
LEMMA HealthFacts ==
    ASSUME NEW v \in Items
    PROVE  /\ v # Absent
           /\ ~reconciliationHealth(v).ready <=> ConditionOf(v) = "unready"
           /\ ~reconciliationHealth(v).ready =>
                 \A e : /\ e.state = reconciliationHealth(v).state
                       /\ e.reason = reconciliationHealth(v).reason
                       => Describes(e, v)
<1> DEFINE readyAt == {i \in DOMAIN v : v[i].type = "Ready"}
           first == CHOOSE i \in readyAt : \A j \in readyAt : i <= j
           c == v[first]
<1>1. v # Absent /\ DOMAIN v \subseteq Nat
  BY FluxAssumption
<1>2. CASE readyAt = {}
  <2>1. reconciliationHealth(v) = [ready |-> FALSE, state |-> "unknown",
                                   reason |-> "unknown", encodable |-> TRUE]
    BY <1>2 DEF reconciliationHealth
  <2>2. ConditionOf(v) = "unready"
    BY <1>1, <1>2 DEF ConditionOf
  <2> QED
    BY <1>1, <1>2, <2>1, <2>2 DEF Describes
<1>3. CASE readyAt # {}
  <2>1. reconciliationHealth(v) =
            [ready |-> c.status = "True",
             state |-> IF c.status = "False" THEN "false" ELSE "unknown",
             reason |-> NormalizeReconciliationReason(c.reason),
             encodable |-> c.encodable]
    BY <1>3 DEF reconciliationHealth
  <2>2. first \in readyAt /\ \A j \in readyAt : first <= j
    <3>1. readyAt \in SUBSET Nat
      BY <1>1
    <3>2. \E i \in readyAt : \A j \in readyAt : i <= j
      BY <1>3, <3>1, FirstExists
    <3> QED
      BY <3>2
  <2> HIDE DEF first
  <2>3. first \in DOMAIN v /\ v[first].type = "Ready"
        /\ \A j \in DOMAIN v : v[j].type = "Ready" => first <= j
    BY <2>2
  <2>4. ConditionOf(v) = "ready" <=> c.status = "True"
    <3>1. ASSUME NEW i \in DOMAIN v, v[i].type = "Ready",
                 \A j \in DOMAIN v : j < i => v[j].type # "Ready"
          PROVE  i = first
      <4>1. i \in Nat /\ first \in Nat /\ first <= i /\ ~(first < i)
        BY <1>1, <2>3, <3>1
      <4> QED
        BY <4>1
    <3>2. \A j \in DOMAIN v : j < first => v[j].type # "Ready"
      <4> SUFFICES ASSUME NEW j \in DOMAIN v, j < first, v[j].type = "Ready"
                   PROVE  FALSE
        OBVIOUS
      <4>1. j \in Nat /\ first \in Nat /\ first <= j
        BY <1>1, <2>3
      <4> QED
        BY <4>1
    <3> QED
      BY <1>1, <2>3, <3>1, <3>2 DEF ConditionOf
  <2>5. ConditionOf(v) \in {"ready", "unready"}
    BY <1>1 DEF ConditionOf
  <2>6. ASSUME c.status # "True"
        PROVE  \A e : /\ e.state = IF c.status = "False" THEN "false" ELSE "unknown"
                      /\ e.reason = NormalizeReconciliationReason(c.reason)
                      => Describes(e, v)
    BY <2>2, <2>6 DEF Describes
  <2>7. /\ reconciliationHealth(v).ready = (c.status = "True")
        /\ reconciliationHealth(v).state =
              IF c.status = "False" THEN "false" ELSE "unknown"
        /\ reconciliationHealth(v).reason = NormalizeReconciliationReason(c.reason)
    BY <2>1
  <2>8. ~reconciliationHealth(v).ready <=> ConditionOf(v) = "unready"
    BY <2>4, <2>5, <2>7
  <2>9. ~reconciliationHealth(v).ready =>
            \A e : /\ e.state = reconciliationHealth(v).state
                  /\ e.reason = reconciliationHealth(v).reason
                  => Describes(e, v)
    BY <2>6, <2>7, Zenon
  <2> QED
    BY <1>1, <2>8, <2>9
<1> QED
  BY <1>2, <1>3

-----------------------------------------------------------------------------
(* The plan of an observation. *)

(* A sequence of one element. *)
LEMMA SingletonSeq ==
    ASSUME NEW S, NEW x \in S
    PROVE  <<x>> \in Seq(S) /\ DOMAIN <<x>> = {1} /\ <<x>>[1] = x
<1>1. DOMAIN <<x>> = {1} /\ <<x>>[1] = x
  OBVIOUS
<1> QED
  BY <1>1

(* Every kind in every scope is listed, once, and nothing else. *)
LEMMA ListsComplete ==
    ASSUME NEW scopes \in Seq(ConfiguredScopes),
           \A i, j \in DOMAIN scopes : scopes[i] = scopes[j] => i = j
    PROVE  /\ Lists(scopes) \in Seq(ListRequests)
           /\ \A n \in DOMAIN Lists(scopes) :
                 \E i \in DOMAIN scopes : Lists(scopes)[n].scope = scopes[i]
           /\ \A i \in DOMAIN scopes, k \in Kinds :
                 \E n \in DOMAIN Lists(scopes) :
                    Lists(scopes)[n] = [scope |-> scopes[i], kind |-> k]
           /\ \A n, m \in DOMAIN Lists(scopes) :
                 Lists(scopes)[n] = Lists(scopes)[m] => n = m
<1> DEFINE scopeAt(n) == 1 + ((n - 1) \div 3)
           kindAt(n) == 1 + ((n - 1) % 3)
           last == 3 * Len(scopes)
<1>1. Len(scopes) \in Nat /\ DOMAIN scopes = 1 .. Len(scopes)
  OBVIOUS
<1>2. /\ DOMAIN reconciliationResources = 1 .. 3
      /\ \A i \in 1 .. 3 : reconciliationResources[i] \in Kinds
      /\ \A i, j \in 1 .. 3 :
            reconciliationResources[i] = reconciliationResources[j] => i = j
      /\ \A k \in Kinds : \E i \in 1 .. 3 : reconciliationResources[i] = k
  BY DEF reconciliationResources, Kinds
<1>3. ASSUME NEW n \in 1 .. last
      PROVE  /\ scopeAt(n) \in DOMAIN scopes /\ kindAt(n) \in 1 .. 3
             /\ n = 3 * (scopeAt(n) - 1) + kindAt(n)
  BY <1>1
<1>4. ASSUME NEW i \in DOMAIN scopes, NEW m \in 1 .. 3
      PROVE  /\ 3 * (i - 1) + m \in 1 .. last
             /\ scopeAt(3 * (i - 1) + m) = i /\ kindAt(3 * (i - 1) + m) = m
  <2> DEFINE n == 3 * (i - 1) + m
  <2>1. i \in Nat /\ 1 <= i /\ i <= Len(scopes) /\ m \in Nat /\ 1 <= m /\ m <= 3
    BY <1>1
  <2>2. n \in 1 .. last
    BY <1>1, <2>1
  <2>3. \A a \in Nat, b \in 0 .. 2 :
            (3 * a + b) \div 3 = a /\ (3 * a + b) % 3 = b
    OBVIOUS
  <2>4. i - 1 \in Nat /\ m - 1 \in 0 .. 2 /\ n - 1 = 3 * (i - 1) + (m - 1)
    BY <2>1
  <2>5. (n - 1) \div 3 = i - 1 /\ (n - 1) % 3 = m - 1
    BY <2>3, <2>4
  <2> HIDE DEF n
  <2>6. scopeAt(n) = i /\ kindAt(n) = m
    BY <2>1, <2>5
  <2> QED
    BY <2>2, <2>6 DEF n
<1>5. /\ DOMAIN Lists(scopes) = 1 .. last /\ last \in Nat
      /\ \A n \in 1 .. last :
            Lists(scopes)[n] = [scope |-> scopes[scopeAt(n)],
                                kind |-> reconciliationResources[kindAt(n)]]
      /\ Lists(scopes) = [n \in 1 .. last |-> Lists(scopes)[n]]
  BY <1>1 DEF Lists
<1> HIDE DEF scopeAt, kindAt, last
<1>6. ASSUME NEW n \in 1 .. last
      PROVE  /\ Lists(scopes)[n] \in ListRequests
             /\ Lists(scopes)[n].scope = scopes[scopeAt(n)]
             /\ Lists(scopes)[n].kind = reconciliationResources[kindAt(n)]
  <2>1. scopes[scopeAt(n)] \in ConfiguredScopes
        /\ reconciliationResources[kindAt(n)] \in Kinds
    BY <1>2, <1>3
  <2> QED
    BY <1>5, <2>1 DEF ListRequests
<1>7. Lists(scopes) \in Seq(ListRequests)
  BY <1>5, <1>6
<1>8. \A n \in DOMAIN Lists(scopes) :
         \E i \in DOMAIN scopes : Lists(scopes)[n].scope = scopes[i]
  BY <1>3, <1>5, <1>6
<1>9. ASSUME NEW i \in DOMAIN scopes, NEW k \in Kinds
      PROVE  \E n \in DOMAIN Lists(scopes) :
                Lists(scopes)[n] = [scope |-> scopes[i], kind |-> k]
  <2>1. PICK m \in 1 .. 3 : reconciliationResources[m] = k
    BY <1>2
  <2>2. PICK n \in 1 .. last : scopeAt(n) = i /\ kindAt(n) = m
    BY <1>4
  <2> QED
    BY <1>5, <2>1, <2>2
<1>10. ASSUME NEW n \in 1 .. last, NEW m \in 1 .. last,
              Lists(scopes)[n] = Lists(scopes)[m]
       PROVE  n = m
  <2>1. scopeAt(n) = scopeAt(m)
    <3>1. scopes[scopeAt(n)] = scopes[scopeAt(m)]
      BY <1>6, <1>10
    <3> QED
      BY <1>3, <3>1
  <2>2. kindAt(n) = kindAt(m)
    <3>1. reconciliationResources[kindAt(n)] = reconciliationResources[kindAt(m)]
      BY <1>6, <1>10
    <3> QED
      BY <1>2, <1>3, <3>1
  <2> QED
    BY <1>3, <2>1, <2>2
<1> QED
  BY <1>5, <1>7, <1>8, <1>9, <1>10

(* selectedScopes: a plan of the selected scopes only, and of everything in *)
(* them.                                                                    *)
LEMMA ListsCover ==
    ASSUME NEW scope \in ConfiguredScopes \cup {""}
    PROVE  LET plan == Lists(selectedScopes(scope)) IN
           /\ plan \in Seq(ListRequests)
           /\ \A n \in DOMAIN plan : scope \in {"", plan[n].scope}
           /\ \A n, m \in DOMAIN plan : plan[n] = plan[m] => n = m
           /\ \A o \in Objects : scope \in {"", ScopeOf[o]} =>
                 \E n \in DOMAIN plan : plan[n] = ListOf(o)
<1> DEFINE scopes == selectedScopes(scope)
           plan == Lists(scopes)
<1>1. /\ scopes \in Seq(ConfiguredScopes)
      /\ \A i, j \in DOMAIN scopes : scopes[i] = scopes[j] => i = j
      /\ \A i \in DOMAIN scopes : scope \in {"", scopes[i]}
      /\ \A o \in Objects : scope \in {"", ScopeOf[o]} =>
            \E i \in DOMAIN scopes : scopes[i] = ScopeOf[o]
  <2>1. CASE scope = ""
    <3>1. scopes = Scopes
      BY <2>1 DEF selectedScopes
    <3>2. \A o \in Objects : \E i \in DOMAIN Scopes : Scopes[i] = ScopeOf[o]
      BY FluxAssumption DEF ConfiguredScopes
    <3> QED
      BY <2>1, <3>1, <3>2, FluxAssumption
  <2>2. CASE scope # ""
    <3>1. scopes = <<scope>> /\ scope \in ConfiguredScopes
      BY <2>2 DEF selectedScopes
    <3>2. DOMAIN scopes = {1} /\ scopes[1] = scope
      BY <3>1, SingletonSeq
    <3>3. scopes \in Seq(ConfiguredScopes)
      BY <3>1, SingletonSeq
    <3> HIDE DEF scopes
    <3> QED
      BY <2>2, <3>2, <3>3
  <2> QED
    BY <2>1, <2>2
<1> HIDE DEF scopes
<1>2. /\ plan \in Seq(ListRequests)
      /\ \A n \in DOMAIN plan : \E i \in DOMAIN scopes : plan[n].scope = scopes[i]
      /\ \A i \in DOMAIN scopes, k \in Kinds :
            \E n \in DOMAIN plan : plan[n] = [scope |-> scopes[i], kind |-> k]
      /\ \A n, m \in DOMAIN plan : plan[n] = plan[m] => n = m
  BY <1>1, ListsComplete
<1>3. ASSUME NEW o \in Objects, scope \in {"", ScopeOf[o]}
      PROVE  \E n \in DOMAIN plan : plan[n] = ListOf(o)
  <2>1. PICK i \in DOMAIN scopes : scopes[i] = ScopeOf[o]
    BY <1>1, <1>3
  <2>2. KindOf[o] \in Kinds
    BY FluxAssumption
  <2>3. PICK n \in DOMAIN plan : plan[n] = [scope |-> scopes[i], kind |-> KindOf[o]]
    BY <1>2, <2>2
  <2> QED
    BY <2>1, <2>3 DEF ListOf
<1> HIDE DEF plan
<1>4. ASSUME NEW n \in DOMAIN plan PROVE scope \in {"", plan[n].scope}
  BY <1>1, <1>2
<1> QED
  BY <1>2, <1>3, <1>4 DEF plan, scopes

(* Reading a list takes it from the plan, for good. *)
LEMMA TailPending ==
    ASSUME ResultTypes, PlanInv, todo # <<>>, todo' = Tail(todo)
    PROVE  /\ todo' \in Seq(ListRequests)
           /\ Head(todo) \in ListRequests
           /\ Pending(Head(todo))
           /\ \A l : Pending(l)' <=> Pending(l) /\ l # Head(todo)
           /\ \A i, j \in DOMAIN todo' : todo'[i] = todo'[j] => i = j
<1>1. /\ Len(todo) \in Nat /\ Len(todo) > 0 /\ DOMAIN todo = 1 .. Len(todo)
      /\ Head(todo) = todo[1] /\ Head(todo) \in ListRequests
  BY DEF ResultTypes
<1>2. /\ todo' \in Seq(ListRequests) /\ DOMAIN todo' = 1 .. Len(todo) - 1
      /\ \A i \in 1 .. Len(todo) - 1 : todo'[i] = todo[i + 1]
  BY DEF ResultTypes
<1>3. \A i, j \in 1 .. Len(todo) : todo[i] = todo[j] => i = j
  BY <1>1 DEF PlanInv
<1>4. ASSUME NEW l, Pending(l), l # Head(todo) PROVE Pending(l)'
  <2>1. PICK i \in DOMAIN todo : todo[i] = l
    BY <1>4 DEF Pending
  <2>2. i # 1 /\ i - 1 \in 1 .. Len(todo) - 1
    BY <1>1, <1>4, <2>1
  <2>3. todo'[i - 1] = l
    BY <1>1, <1>2, <2>1, <2>2
  <2> QED
    BY <1>2, <2>2, <2>3 DEF Pending
<1>5. ASSUME NEW l, Pending(l)' PROVE Pending(l) /\ l # Head(todo)
  <2>1. PICK i \in 1 .. Len(todo) - 1 : todo'[i] = l
    BY <1>2, <1>5 DEF Pending
  <2>2. i + 1 \in 1 .. Len(todo) /\ todo[i + 1] = l /\ i + 1 # 1 /\ 1 \in 1 .. Len(todo)
    BY <1>1, <1>2, <2>1
  <2>3. l # todo[1]
    BY <1>3, <2>2
  <2> QED
    BY <1>1, <2>2, <2>3 DEF Pending
<1>6. Pending(Head(todo))
  BY <1>1 DEF Pending
<1>7. ASSUME NEW i \in DOMAIN todo', NEW j \in DOMAIN todo', todo'[i] = todo'[j]
      PROVE  i = j
  <2>1. /\ i \in 1 .. Len(todo) - 1 /\ j \in 1 .. Len(todo) - 1
        /\ i + 1 \in 1 .. Len(todo) /\ j + 1 \in 1 .. Len(todo)
    BY <1>1, <1>2
  <2>2. todo[i + 1] = todo[j + 1]
    BY <1>2, <1>7, <2>1
  <2>3. i + 1 = j + 1
    BY <1>3, <2>1, <2>2
  <2> QED
    BY <2>1, <2>3
<1> QED
  BY <1>1, <1>2, <1>4, <1>5, <1>6, <1>7

-----------------------------------------------------------------------------
(* Before and at the start of an observation. *)

(* A state without an observation. *)
Idle ==
    /\ input = NoInput /\ todo = <<>> /\ found = {} /\ partial = FALSE
    /\ output = NoOutput

(* Between observations nothing is pending, found or answered. *)
LEMMA IdleIInv == ClusterTypes /\ Idle => IInv
<1> SUFFICES ASSUME ClusterTypes, Idle PROVE IInv
  OBVIOUS
<1>1. input = NoInput /\ output = NoOutput
  BY DEF Idle
<1>2. found = {} /\ partial = FALSE
  BY DEF Idle
<1>3. todo = <<>> /\ DOMAIN todo = {}
  BY DEF Idle
<1>4. ResultTypes
  <2>1. output.kind = "none"
    BY <1>1 DEF NoOutput
  <2>2. todo \in Seq(ListRequests)
    BY <1>3, EmptySeq
  <2> QED
    BY <1>1, <2>1, <2>2 DEF ResultTypes
<1>5. IdleInv /\ SeenInv /\ NotLost
  BY <1>1, <1>2 DEF IdleInv, SeenInv, NotLost, Busy
<1>6. PlanInv
  BY <1>3 DEF PlanInv
<1>7. FoundInv
  BY <1>2 DEF FoundInv, Keyed
<1>8. EntriesWereTrue /\ KeptAreFirst
  BY <1>1 DEF EntriesWereTrue, KeptAreFirst, NoOutput
<1> QED
  BY <1>4, <1>5, <1>6, <1>7, <1>8 DEF IInv

(* No observation has begun in an initial state. *)
LEMMA InitIInv == Init => IInv
<1> SUFFICES ASSUME Init PROVE IInv
  OBVIOUS
<1>1. ClusterTypes
  BY DEF Init, ClusterTypes
<1>2. Idle
  BY DEF Init, Idle
<1> QED
  BY <1>1, <1>2, IdleIInv

(* An input is refused, or it selects configured scopes. *)
LEMMA RefusalFacts ==
    ASSUME NEW in
    PROVE  /\ Refusal(in).kind \in {"none", "error"}
           /\ Refusal(in).kind = "none" => Refusal(in) = NoOutput
           /\ Refusal(in) = NoOutput => in.scope \in ConfiguredScopes \cup {""}
<1>1. \A e : Error(e).kind = "error" /\ Error(e) # NoOutput
  <2>1. \A e : Error(e).kind = "error" /\ NoOutput.kind = "none"
    BY DEF Error, NoOutput
  <2> QED
    BY <2>1
<1>2. NoOutput.kind = "none"
  BY DEF NoOutput
<1>3. \/ \E e : Refusal(in) = Error(e)
      \/ Refusal(in) = NoOutput /\ in.scope \in ConfiguredScopes \cup {""}
  BY Zenon DEF Refusal
<1> QED
  BY <1>1, <1>2, <1>3

(* A limit is normalised to one that the result can hold. *)
LEMMA LimitFacts == \A n : normalizeListLimit(n) \in 0 .. MaxListLimit
BY LimitAssumption DEF normalizeListLimit

(* An observation begins with a plan that covers what was selected, or is   *)
(* refused.                                                                 *)
LEMMA ListUnhealthyReconciliationsIInv ==
    ASSUME IInv, NEW in \in Inputs, ListUnhealthyReconciliations(in)
    PROVE  IInv'
<1> DEFINE plan == Lists(selectedScopes(in.scope))
<1>1. /\ input = NoInput /\ output' = Refusal(in) /\ cluster' = cluster
      /\ seen' = [o \in Objects |-> {cluster[o]}]
  BY DEF ListUnhealthyReconciliations
<1>2. /\ input'.kind = "input" /\ input'.scope = in.scope
      /\ input'.limit \in 0 .. MaxListLimit
  <2>1. input' = [kind |-> "input", scope |-> in.scope,
                  limit |-> normalizeListLimit(in.limit)]
    BY DEF ListUnhealthyReconciliations
  <2>2. input'.limit = normalizeListLimit(in.limit)
    BY <2>1
  <2> QED
    BY <2>1, <2>2, LimitFacts
<1>3. input' # NoInput
  BY ONLY <1>2 DEF NoInput
<1>4. found' = {} /\ ~partial'
  <2>1. found' = found /\ partial' = partial
    BY DEF ListUnhealthyReconciliations
  <2> QED
    BY <1>1, <2>1, Zenon DEF IInv, IdleInv
<1>5. todo' = IF Refusal(in) = NoOutput THEN plan ELSE <<>>
  BY DEF ListUnhealthyReconciliations
<1>6. ASSUME Refusal(in) = NoOutput
      PROVE  /\ todo' \in Seq(ListRequests)
             /\ \A n \in DOMAIN todo' : in.scope \in {"", todo'[n].scope}
             /\ \A n, m \in DOMAIN todo' : todo'[n] = todo'[m] => n = m
             /\ \A o \in Objects : in.scope \in {"", ScopeOf[o]} =>
                   \E n \in DOMAIN todo' : todo'[n] = ListOf(o)
  <2>1. in.scope \in ConfiguredScopes \cup {""} /\ todo' = plan
    BY <1>5, <1>6, RefusalFacts
  <2>2. /\ plan \in Seq(ListRequests)
        /\ \A n \in DOMAIN plan : in.scope \in {"", plan[n].scope}
        /\ \A n, m \in DOMAIN plan : plan[n] = plan[m] => n = m
        /\ \A o \in Objects : in.scope \in {"", ScopeOf[o]} =>
              \E n \in DOMAIN plan : plan[n] = ListOf(o)
    BY ONLY <2>1, ListsCover, Zenon
  <2> HIDE DEF plan
  <2> QED
    BY <2>1, <2>2
<1> HIDE DEF plan
<1>7. ASSUME Refusal(in) # NoOutput
      PROVE  todo' = <<>> /\ todo' \in Seq(ListRequests) /\ DOMAIN todo' = {}
  <2>1. todo' = <<>>
    BY <1>5, <1>7
  <2> QED
    BY ONLY <2>1, EmptySeq
<1>8. ClusterTypes'
  BY <1>1 DEF IInv, ClusterTypes
<1>9. ResultTypes'
  <2>1. todo' \in Seq(ListRequests)
    BY <1>6, <1>7
  <2>2. /\ output'.kind \in {"none", "error", "list"}
        /\ output'.kind = "none" => output' = NoOutput
    BY <1>1, RefusalFacts
  <2> QED
    BY <1>2, <2>1, <2>2 DEF ResultTypes
<1>10. IdleInv' /\ SeenInv'
  BY <1>1, <1>3 DEF IdleInv, SeenInv
<1>11. PlanInv'
  <2>1. CASE Refusal(in) = NoOutput
    BY <1>2, <1>6, <2>1 DEF PlanInv
  <2>2. CASE Refusal(in) # NoOutput
    BY <1>7, <2>2 DEF PlanInv
  <2> QED
    BY <2>1, <2>2
<1>12. FoundInv'
  BY <1>4 DEF FoundInv, Keyed
<1>13. NotLost'
  <2>1. \A o \in Objects : Selected(o)' => in.scope \in {"", ScopeOf[o]}
    BY <1>2 DEF Selected
  <2> QED
    BY <1>1, <1>6, <2>1 DEF NotLost, Busy, Pending
<1>14. EntriesWereTrue' /\ KeptAreFirst'
  <2>1. output'.kind # "list"
    BY <1>1, RefusalFacts
  <2> QED
    BY <2>1 DEF EntriesWereTrue, KeptAreFirst
<1> QED
  BY <1>8, <1>9, <1>10, <1>11, <1>12, <1>13, <1>14 DEF IInv

-----------------------------------------------------------------------------
(* List requests. *)

(* While an observation runs, the history of an object contains its present *)
(* version.                                                                 *)
LEMMA History ==
    ASSUME IInv, Busy, NEW o \in Objects
    PROVE  /\ cluster[o] \in seen[o]
           /\ cluster[o] # Absent /\ ~reconciliationHealth(cluster[o]).ready =>
                 ConditionOf(cluster[o]) = "unready"
           /\ Since(o) = {"unready"} =>
                 cluster[o] # Absent /\ ~reconciliationHealth(cluster[o]).ready
<1>1. cluster[o] \in seen[o]
  BY DEF IInv, SeenInv
<1>2. cluster[o] \in Items \/ cluster[o] = Absent
  BY DEF IInv, ClusterTypes, Versions
<1>3. ASSUME Since(o) = {"unready"} PROVE ConditionOf(cluster[o]) = "unready"
  <2>1. ConditionOf(cluster[o]) \in Since(o)
    BY <1>1 DEF Since
  <2> QED
    BY <1>3, <2>1
<1>4. ConditionOf(Absent) = "absent"
  BY DEF ConditionOf
<1> QED
  BY <1>1, <1>2, <1>3, <1>4, HealthFacts

(* A page lists every object that is not ready, or does not show all of     *)
(* them.                                                                    *)
LEMMA listResourcesIInv ==
    ASSUME IInv, listResources
    PROVE  IInv'
<1> DEFINE present == Present(Head(todo))
           page == Page(present)
           bad == {o \in page : ~reconciliationHealth(cluster[o]).ready}
           new == {Entry(o) : o \in bad \ BadNames}
<1>1. /\ Busy /\ todo # <<>> /\ todo' = Tail(todo)
      /\ UNCHANGED <<cluster, input, output, seen>>
  BY DEF listResources
<1>2. found' = found \cup new
  BY DEF listResources
<1>3. (partial => partial') /\ (page # present => partial')
      /\ (bad \cap BadNames # {} => partial')
  BY Zenon DEF listResources, Omits
<1>4. /\ todo' \in Seq(ListRequests) /\ Head(todo) \in ListRequests
      /\ Pending(Head(todo))
      /\ \A l : Pending(l)' <=> Pending(l) /\ l # Head(todo)
      /\ \A i, j \in DOMAIN todo' : todo'[i] = todo'[j] => i = j
  BY <1>1, TailPending DEF IInv
<1>5. /\ \A o \in present : o \in Objects /\ cluster[o] # Absent /\ ListOf(o) = Head(todo)
      /\ \A o \in Objects : cluster[o] # Absent /\ ListOf(o) = Head(todo) => o \in present
      /\ page \subseteq present
      /\ \A o \in page : o \in bad <=> ~reconciliationHealth(cluster[o]).ready
      /\ bad \subseteq page
  <2>1. Head(todo) = [scope |-> Head(todo).scope, kind |-> Head(todo).kind]
    BY <1>4 DEF ListRequests
  <2>2. \A o \in Objects : ListOf(o) = Head(todo) <=>
            ScopeOf[o] = Head(todo).scope /\ KindOf[o] = Head(todo).kind
    BY <2>1 DEF ListOf
  <2> QED
    BY <2>2 DEF Present, Page
<1> HIDE DEF present, page, bad
<1>6. \A o : /\ Entry(o).object = o
             /\ Entry(o).state = reconciliationHealth(cluster[o]).state
             /\ Entry(o).reason = reconciliationHealth(cluster[o]).reason
  BY DEF Entry
<1>7. \A e \in new : /\ e.object \in bad /\ e.object \in Objects
                     /\ e = Entry(e.object) /\ ListOf(e.object) = Head(todo)
  BY <1>5, <1>6
<1>8. \A o \in bad \ BadNames : \E e \in new : e.object = o
  BY <1>6
<1> HIDE DEF new
<1>9. ClusterTypes' /\ SeenInv' /\ IdleInv'
  BY <1>1 DEF IInv, ClusterTypes, SeenInv, IdleInv, Busy
<1>10. ResultTypes'
  BY <1>1, <1>4 DEF IInv, ResultTypes
<1>11. PlanInv'
  <2>1. ASSUME NEW i \in DOMAIN todo' PROVE input'.scope \in {"", todo'[i].scope}
    <3>1. Pending(todo'[i])
      BY <1>4 DEF Pending
    <3> QED
      BY <1>1, <3>1 DEF Pending, IInv, PlanInv
  <2> QED
    BY <1>4, <2>1 DEF PlanInv
<1>12. FoundInv'
  <2>1. Keyed(found')
    <3>1. Keyed(found) /\ \A e \in found : ~Pending(ListOf(e.object))
      BY DEF IInv, FoundInv
    <3>2. \A e \in found, f \in new : e.object # f.object
      BY <1>4, <1>7, <3>1
    <3> QED
      BY <1>2, <1>7, <3>1, <3>2 DEF Keyed
  <2>2. ASSUME NEW e \in found'
        PROVE  Selected(e.object)' /\ ~Pending(ListOf(e.object))'
    <3>1. CASE e \in found
      <4>1. Selected(e.object) /\ ~Pending(ListOf(e.object))
        BY <3>1 DEF IInv, FoundInv
      <4>2. \A l : Pending(l)' => Pending(l)
        BY <1>4
      <4> QED
        BY <1>1, <4>1, <4>2 DEF Selected, ListOf, Pending
    <3>2. CASE e \in new
      <4>1. ListOf(e.object) = Head(todo)
        BY <1>7, <3>2
      <4>2. ~Pending(ListOf(e.object))'
        BY <1>4, <4>1 DEF ListOf, Pending
      <4>3. PICK i \in DOMAIN todo : todo[i] = Head(todo)
        BY <1>4 DEF Pending
      <4>4. input.scope \in {"", Head(todo).scope}
        BY <4>3 DEF IInv, PlanInv
      <4>5. Head(todo).scope = ScopeOf[e.object]
        BY <4>1 DEF ListOf
      <4> QED
        BY <1>1, <4>2, <4>4, <4>5 DEF Selected
    <3> QED
      BY <1>2, <3>1, <3>2
  <2>3. ASSUME NEW e \in found'
        PROVE  \E v \in seen'[e.object] \ {Absent} :
                  Describes(e, v) /\ ConditionOf(v) = "unready"
    <3>1. CASE e \in found
      BY <1>1, <3>1 DEF IInv, FoundInv
    <3>2. CASE e \in new
      <4> DEFINE o == e.object
      <4>1. /\ o \in Objects /\ e = Entry(o) /\ cluster[o] # Absent
            /\ ~reconciliationHealth(cluster[o]).ready
        BY <1>5, <1>7, <3>2
      <4> HIDE DEF o
      <4>2. cluster[o] \in Items
        BY <4>1 DEF IInv, ClusterTypes, Versions
      <4>3. Describes(e, cluster[o])
        BY <1>6, <4>1, <4>2, HealthFacts
      <4>4. cluster[o] \in seen[o] /\ ConditionOf(cluster[o]) = "unready"
        BY <1>1, <4>1, History
      <4> QED
        BY <1>1, <4>1, <4>3, <4>4 DEF o
    <3> QED
      BY <1>2, <3>1, <3>2
  <2> QED
    BY <2>1, <2>2, <2>3 DEF FoundInv
<1>13. NotLost'
  <2> SUFFICES ASSUME NEW o \in Objects, Selected(o)', Since(o)' = {"unready"}
               PROVE  \/ Pending(ListOf(o))' \/ (\E e \in found' : e.object = o)
                      \/ partial'
    BY DEF NotLost
  <2>1. Selected(o) /\ Since(o) = {"unready"}
    BY <1>1 DEF Selected, Since
  <2>2. Pending(ListOf(o)) \/ (\E e \in found : e.object = o) \/ partial
    BY <1>1, <2>1 DEF IInv, NotLost
  <2>3. CASE ListOf(o) = Head(todo)
    <3>1. o \in present /\ ~reconciliationHealth(cluster[o]).ready
      BY <1>1, <1>5, <2>1, <2>3, History
    <3>2. CASE o \in page
      BY <1>2, <1>3, <1>5, <1>8, <3>1, <3>2
    <3>3. CASE o \notin page
      BY <1>3, <3>1, <3>3
    <3> QED
      BY <3>2, <3>3
  <2>4. CASE ListOf(o) # Head(todo)
    <3>1. CASE Pending(ListOf(o))
      BY <1>4, <2>4, <3>1 DEF ListOf, Pending
    <3>2. CASE \E e \in found : e.object = o
      BY <1>2, <3>2
    <3>3. CASE partial
      BY <1>3, <3>3
    <3> QED
      BY <2>2, <3>1, <3>2, <3>3
  <2> QED
    BY <2>3, <2>4
<1>14. EntriesWereTrue' /\ KeptAreFirst'
  <2>1. output'.kind = "none"
    BY <1>1 DEF Busy, NoOutput
  <2> QED
    BY <2>1 DEF EntriesWereTrue, KeptAreFirst
<1> QED
  BY <1>9, <1>10, <1>11, <1>12, <1>13, <1>14 DEF IInv

-----------------------------------------------------------------------------
(* The result. *)

(* An observation that ends keeps what it knew. *)
LEMMA EndFrame ==
    ASSUME IInv, Busy, UNCHANGED <<cluster, input, todo, found, partial, seen>>,
           output'.kind \in {"error", "list"},
           EntriesWereTrue', KeptAreFirst'
    PROVE  IInv'
<1>1. output' # NoOutput /\ input # NoInput /\ output'.kind # "none"
  <2>1. output'.kind # "none"
    OBVIOUS
  <2> QED
    BY <2>1 DEF NoOutput, Busy
<1>2. ClusterTypes'
  BY DEF IInv, ClusterTypes
<1>3. ResultTypes'
  BY <1>1 DEF IInv, ResultTypes
<1>4. IdleInv' /\ SeenInv' /\ NotLost'
  BY <1>1 DEF IdleInv, SeenInv, NotLost, Busy
<1>5. PlanInv'
  BY DEF IInv, PlanInv
<1>6. FoundInv'
  BY DEF IInv, FoundInv, Keyed, Selected, Pending, ListOf
<1> QED
  BY <1>2, <1>3, <1>4, <1>5, <1>6 DEF IInv

(* A failing list request ends the observation with an error, which claims  *)
(* nothing.                                                                 *)
LEMMA ListFailsIInv ==
    ASSUME IInv, ListFails
    PROVE  IInv'
<1>1. /\ Busy /\ output' = Error("source")
      /\ UNCHANGED <<cluster, input, todo, found, partial, seen>>
  BY DEF ListFails
<1>2. output'.kind = "error"
  BY <1>1 DEF Error
<1>3. EntriesWereTrue' /\ KeptAreFirst'
  BY <1>2 DEF EntriesWereTrue, KeptAreFirst
<1> QED
  BY <1>1, <1>2, <1>3, EndFrame

(* The outcomes of Finish. *)
LEMMA FinishOutcome ==
    ASSUME Finish
    PROVE  \/ output'.kind = "error"
           \/ /\ output'.kind = "list"
              /\ output'.reconciliations = FirstInOrder(found, input.limit)
              /\ output'.truncated = (partial \/ Cardinality(found) > input.limit)
<1> DEFINE kept == FirstInOrder(found, input.limit)
           truncated == partial \/ Cardinality(found) > input.limit
<1>1. \/ output' = Error("encode_observation")
      \/ output' = [kind |-> "list", reconciliations |-> kept, truncated |-> truncated]
  BY Zenon DEF Finish
<1> HIDE DEF kept, truncated
<1>2. CASE output' = Error("encode_observation")
  BY ONLY <1>2 DEF Error
<1>3. CASE output' = [kind |-> "list", reconciliations |-> kept, truncated |-> truncated]
  BY ONLY <1>3 DEF kept, truncated
<1> QED
  BY <1>1, <1>2, <1>3

(* With no request left, what was unready all along was found, and only the *)
(* limit can have cut it.                                                   *)
LEMMA FinishIInv ==
    ASSUME IInv, Finish
    PROVE  IInv'
<1> DEFINE kept == FirstInOrder(found, input.limit)
<1>1. /\ Busy /\ todo = <<>>
      /\ UNCHANGED <<cluster, input, todo, found, partial, seen>>
  BY DEF Finish
<1>2. \A l : ~Pending(l)
  <2>1. DOMAIN todo = {}
    BY <1>1
  <2> QED
    BY <2>1 DEF Pending
<1>3. CASE output'.kind = "error"
  <2>1. EntriesWereTrue' /\ KeptAreFirst'
    BY <1>3 DEF EntriesWereTrue, KeptAreFirst
  <2> QED
    BY <1>1, <1>3, <2>1, EndFrame
<1>4. CASE /\ output'.kind = "list" /\ output'.reconciliations = kept
           /\ output'.truncated = (partial \/ Cardinality(found) > input.limit)
  <2>1. /\ input.limit \in Nat /\ MaxListLimit \in Nat
        /\ input.limit <= MaxListLimit /\ Keyed(found)
    BY <1>1, LimitAssumption DEF IInv, ResultTypes, FoundInv, Busy
  <2>2. kept \in SUBSET found /\ Cardinality(kept) <= input.limit /\ Keyed(kept)
    BY <2>1, AtMostLimit, KeyedSubset
  <2>3. Listed' = {e.object : e \in kept}
    BY <1>4 DEF Listed
  <2>4. ASSUME NEW e \in found, e \notin kept
        PROVE  Cardinality(found) > input.limit /\ \A f \in kept : f.object < e.object
    BY <2>1, <2>4, CutIsSuffix
  <2> HIDE DEF kept
  <2>5. EntriesWereTrue'
    <3>1. /\ Cardinality(Listed') = Cardinality(output'.reconciliations)
          /\ Cardinality(Listed') <= MaxListLimit
      <4>1. Cardinality(Listed') = Cardinality(kept) /\ Cardinality(kept) \in Nat
        BY <2>2, <2>3, KeyedCardinality
      <4>2. Cardinality(kept) <= MaxListLimit
        BY <2>1, <2>2, <4>1
      <4> QED
        BY <1>4, <4>1, <4>2
    <3>2. \A e \in output'.reconciliations :
             \E v \in seen'[e.object] \ {Absent} : Describes(e, v)
      BY <1>1, <1>4, <2>2 DEF IInv, FoundInv
    <3> QED
      BY <3>1, <3>2, Zenon DEF EntriesWereTrue, Describes
  <2>6. KeptAreFirst'
    <3> SUFFICES ASSUME ~partial', NEW o \in Objects \ Listed', Selected(o)',
                        {ConditionOf(v) : v \in seen'[o]} = {"unready"}
                 PROVE  output'.truncated /\ \A p \in Listed' : p < o
      BY Zenon DEF KeptAreFirst
    <3>1. Selected(o) /\ Since(o) = {"unready"} /\ ~partial
      BY <1>1 DEF Selected, Since
    <3>2. PICK e \in found : e.object = o
      BY <1>1, <1>2, <3>1, Zenon DEF IInv, NotLost
    <3>3. e \notin kept
      BY <2>3, <3>2
    <3>4. Cardinality(found) > input.limit /\ \A f \in kept : f.object < o
      BY <2>4, <3>2, <3>3
    <3> QED
      BY <1>4, <2>3, <3>4
  <2> QED
    BY <1>1, <1>4, <2>5, <2>6, EndFrame
<1> QED
  BY <1>3, <1>4, FinishOutcome

(* What an observation knew ends with it. *)
LEMMA ReturnIInv ==
    ASSUME IInv, Return
    PROVE  IInv'
<1>1. ClusterTypes'
  BY DEF Return, IInv, ClusterTypes
<1>2. Idle'
  BY DEF Return, Idle
<1>3. (ClusterTypes /\ Idle => IInv)'
  BY IdleIInv, PTL
<1> QED
  BY <1>1, <1>2, <1>3

-----------------------------------------------------------------------------
(* The objects change. *)

(* A change only adds to the history: what was unready all along now was    *)
(* unready all along before, and every entry still describes a version that *)
(* its object had.                                                          *)
LEMMA ObjectChangesIInv ==
    ASSUME IInv, NEW o \in Objects, NEW v \in Versions, ObjectChanges(o, v)
    PROVE  IInv'
<1>1. /\ Busy /\ cluster' = [cluster EXCEPT ![o] = v]
      /\ seen' = [seen EXCEPT ![o] = @ \cup {v}]
      /\ UNCHANGED <<input, todo, found, partial, output>>
  BY DEF ObjectChanges
<1>2. cluster \in [Objects -> Versions] /\ seen \in [Objects -> SUBSET Versions]
  BY DEF IInv, ClusterTypes
<1>3. ClusterTypes'
  BY <1>1, <1>2 DEF ClusterTypes
<1>4. \A x \in Objects : seen[x] \subseteq seen'[x] /\ cluster[x] \in seen[x]
  BY <1>1, <1>2 DEF IInv, SeenInv
<1>5. \A x \in Objects : cluster'[x] \in seen'[x]
  BY <1>1, <1>2, <1>4
<1>6. ASSUME NEW x \in Objects, Since(x)' = {"unready"}
      PROVE  Since(x) = {"unready"}
  <2>1. Since(x) \subseteq Since(x)' /\ ConditionOf(cluster[x]) \in Since(x)
    BY <1>4 DEF Since
  <2> QED
    BY <1>6, <2>1
<1>7. ResultTypes' /\ Busy'
  BY <1>1 DEF IInv, ResultTypes, Busy
<1>8. IdleInv' /\ SeenInv'
  BY <1>1, <1>5 DEF IInv, IdleInv, SeenInv, Busy
<1>9. PlanInv'
  BY <1>1 DEF IInv, PlanInv
<1>10. FoundInv'
  <2>1. /\ Keyed(found')
        /\ \A e \in found' : Selected(e.object)' /\ ~Pending(ListOf(e.object))'
    BY <1>1 DEF IInv, FoundInv, Selected, Pending, ListOf
  <2>2. ASSUME NEW e \in found'
        PROVE  \E w \in seen'[e.object] \ {Absent} :
                  Describes(e, w) /\ ConditionOf(w) = "unready"
    <3>1. e \in found /\ e.object \in Objects
      BY <1>1 DEF IInv, FoundInv, Keyed
    <3>2. PICK w \in seen[e.object] \ {Absent} :
              Describes(e, w) /\ ConditionOf(w) = "unready"
      BY <3>1 DEF IInv, FoundInv
    <3> QED
      BY <1>4, <3>1, <3>2
  <2> QED
    BY <2>1, <2>2 DEF FoundInv
<1>11. NotLost'
  <2> SUFFICES ASSUME NEW x \in Objects, Selected(x)', Since(x)' = {"unready"}
               PROVE  \/ Pending(ListOf(x))' \/ (\E e \in found' : e.object = x)
                      \/ partial'
    BY DEF NotLost
  <2>1. Pending(ListOf(x)) \/ (\E e \in found : e.object = x) \/ partial
    BY <1>1, <1>6 DEF IInv, NotLost, Selected
  <2> QED
    BY <1>1, <2>1 DEF Pending, ListOf
<1>12. EntriesWereTrue' /\ KeptAreFirst'
  <2>1. output'.kind = "none"
    BY <1>1 DEF Busy, NoOutput
  <2> QED
    BY <2>1 DEF EntriesWereTrue, KeptAreFirst
<1> QED
  BY <1>3, <1>7, <1>8, <1>9, <1>10, <1>11, <1>12 DEF IInv

-----------------------------------------------------------------------------
(* The theorems. *)

(* Every step of Next keeps IInv. *)
LEMMA NextIInv == IInv /\ [Next]_vars => IInv'
<1> SUFFICES ASSUME IInv, [Next]_vars PROVE IInv'
  OBVIOUS
<1>1. CASE \E in \in Inputs : ListUnhealthyReconciliations(in)
  BY <1>1, ListUnhealthyReconciliationsIInv
<1>2. CASE listResources
  BY <1>2, listResourcesIInv
<1>3. CASE ListFails
  BY <1>3, ListFailsIInv
<1>4. CASE Finish
  BY <1>4, FinishIInv
<1>5. CASE Return
  BY <1>5, ReturnIInv
<1>6. CASE \E o \in Objects, v \in Versions : ObjectChanges(o, v)
  BY <1>6, ObjectChangesIInv
<1>7. CASE UNCHANGED vars
  <2>1. ClusterTypes' /\ ResultTypes' /\ IdleInv' /\ PlanInv'
    BY <1>7 DEF vars, IInv, ClusterTypes, ResultTypes, IdleInv, PlanInv
  <2>2. SeenInv' /\ FoundInv' /\ NotLost'
    BY <1>7 DEF vars, IInv, SeenInv, FoundInv, NotLost, Busy, Selected,
       Pending, ListOf, Keyed, Since
  <2>3. EntriesWereTrue' /\ KeptAreFirst'
    BY <1>7 DEF vars, IInv, EntriesWereTrue, KeptAreFirst, Selected, Listed
  <2> QED
    BY <2>1, <2>2, <2>3 DEF IInv
<1> QED
  BY <1>1, <1>2, <1>3, <1>4, <1>5, <1>6, <1>7 DEF Next, Step

(* Every list is read once, its entries are true, and nothing that was      *)
(* unready all along gets lost, whatever changes meanwhile.                 *)
THEOREM Invariance == Spec => []IInv
<1>1. Init => IInv
  BY InitIInv
<1>2. IInv /\ [Next]_vars => IInv'
  BY NextIInv
<1> QED
  BY <1>1, <1>2, PTL DEF Spec

(* Every entry describes one version that its object had during the         *)
(* observation, no object has two entries, and whatever limit was asked for *)
(* there are at most MaxListLimit.                                          *)
THEOREM EntriesTrue == Spec => []EntriesWereTrue
<1>1. IInv => EntriesWereTrue
  BY DEF IInv
<1> QED
  BY <1>1, Invariance, PTL

(* When only the limit cut the list, what is kept comes first in the order  *)
(* of scope, kind and name.                                                 *)
THEOREM FirstAreKept == Spec => []KeptAreFirst
<1>1. IInv => KeptAreFirst
  BY DEF IInv
<1> QED
  BY <1>1, Invariance, PTL

-----------------------------------------------------------------------------
(* The observation implements the safety part of BoundedList. *)

(* The variables of BoundedList, under the mapping of Abstract. *)
theCondition == [o \in Objects |-> ConditionOf(cluster[o])]
theRequest == IF input = NoInput THEN NoInput
              ELSE [kind |-> "request", selected |-> {o \in Objects : Selected(o)},
                    limit |-> input.limit]
theSince == [o \in Objects |-> {ConditionOf(v) : v \in seen[o]}]
theAnswer == IF output.kind = "list"
             THEN [kind |-> "list", named |-> Listed, truncated |-> output.truncated]
             ELSE [kind |-> output.kind]

(* The steps of BoundedList, in terms of them. *)
LEMMA AskStep ==
    ASSUME theRequest = [kind |-> "none"],
           theRequest'.kind = "request", theRequest'.limit \in Nat,
           theRequest'.selected \subseteq Objects,
           theSince' = [o \in Objects |-> {theCondition[o]}],
           theAnswer' \in {[kind |-> "none"], [kind |-> "error"]},
           theCondition' = theCondition
    PROVE  Abstract!Next
BY DEF Abstract!Next, Abstract!Ask, Abstract!NoRequest, Abstract!NoAnswer,
   Abstract!Failed, Abstract!IsRequest,
   theCondition, theRequest, theSince, theAnswer

(* A step that changes nothing of the mapping is a stutter of BoundedList. *)
LEMMA StutterStep ==
    ASSUME theCondition' = theCondition, theRequest' = theRequest,
           theSince' = theSince, theAnswer' = theAnswer
    PROVE  UNCHANGED Abstract!vars
BY DEF Abstract!vars, theCondition, theRequest, theSince, theAnswer

(* An error as the answer to a request is a step of BoundedList. *)
LEMMA FailStep ==
    ASSUME theRequest # [kind |-> "none"], theAnswer = [kind |-> "none"],
           theAnswer' = [kind |-> "error"],
           theCondition' = theCondition, theRequest' = theRequest,
           theSince' = theSince
    PROVE  Abstract!Next
BY DEF Abstract!Next, Abstract!Fail, Abstract!NoRequest, Abstract!NoAnswer,
   Abstract!Failed, theCondition, theRequest, theSince, theAnswer

(* To take the answer and forget the request is a step of BoundedList. *)
LEMMA DoneStep ==
    ASSUME theAnswer # [kind |-> "none"],
           theRequest' = [kind |-> "none"], theAnswer' = [kind |-> "none"],
           theSince' = [o \in Objects |-> {}], theCondition' = theCondition
    PROVE  Abstract!Next
BY DEF Abstract!Next, Abstract!Done, Abstract!NoRequest, Abstract!NoAnswer,
   theCondition, theRequest, theSince, theAnswer

(* A change of one object, noted in its history, is a step of BoundedList. *)
LEMMA ChangeStep ==
    ASSUME NEW o \in Objects, NEW c \in {"absent", "ready", "unready"},
           theCondition' = [theCondition EXCEPT ![o] = c],
           theRequest # [kind |-> "none"],
           theSince' = [theSince EXCEPT ![o] = @ \cup {c}],
           theRequest' = theRequest, theAnswer' = theAnswer
    PROVE  Abstract!Next
<1>1. Abstract!Change(o, c)
  BY DEF Abstract!Change, Abstract!NoRequest,
     theCondition, theRequest, theSince, theAnswer
<1> QED
  BY <1>1 DEF Abstract!Next, Abstract!Conditions

(* Cardinality of the instance is Cardinality. *)
LEMMA SameCardinality == \A S : Abstract!Cardinality(S) = Cardinality(S)
BY DEF Cardinality, Abstract!Cardinality

(* An answer that keeps the promise is a step of BoundedList. *)
LEMMA AnswerStep ==
    ASSUME NEW named \in SUBSET Objects, NEW truncated \in BOOLEAN,
           theRequest # [kind |-> "none"], theAnswer = [kind |-> "none"],
           Cardinality(named) <= theRequest.limit,
           \A o \in named : o \in theRequest.selected /\ "unready" \in theSince[o],
           ~truncated => \A o \in theRequest.selected :
                            theSince[o] = {"unready"} => o \in named,
           theAnswer' = [kind |-> "list", named |-> named, truncated |-> truncated],
           theCondition' = theCondition, theRequest' = theRequest,
           theSince' = theSince
    PROVE  Abstract!Next
<1>1. Abstract!Answer(named, truncated)
  BY SameCardinality DEF Abstract!Answer, Abstract!NoRequest, Abstract!NoAnswer,
     theCondition, theRequest, theSince, theAnswer
<1> QED
  BY <1>1 DEF Abstract!Next

(* While there is an input, BoundedList has a request. *)
LEMMA InRequest ==
    ASSUME input # NoInput
    PROVE  /\ theRequest # [kind |-> "none"] /\ theRequest.kind = "request"
           /\ theRequest.limit = input.limit
           /\ theRequest.selected = {o \in Objects : Selected(o)}
<1>1. theRequest = [kind |-> "request", selected |-> {o \in Objects : Selected(o)},
                    limit |-> input.limit]
  BY DEF theRequest
<1>2. theRequest.kind = "request"
  BY <1>1
<1>3. theRequest # [kind |-> "none"]
  BY ONLY <1>2
<1> QED
  BY <1>1, <1>2, <1>3

(* The call is a request, answered at once when it is refused. *)
LEMMA ListUnhealthyReconciliationsAsks ==
    ASSUME IInv, IInv', NEW in \in Inputs, ListUnhealthyReconciliations(in)
    PROVE  Abstract!Next
<1>1. /\ input = NoInput /\ output' = Refusal(in) /\ cluster' = cluster
      /\ seen' = [o \in Objects |-> {cluster[o]}]
  BY DEF ListUnhealthyReconciliations
<1>2. input' # NoInput
  <2>1. input'.kind = "input"
    BY DEF ListUnhealthyReconciliations
  <2> QED
    BY ONLY <2>1 DEF NoInput
<1>3. theRequest = [kind |-> "none"] /\ theCondition' = theCondition
  BY <1>1 DEF theRequest, NoInput, theCondition
<1>4. /\ theRequest'.kind = "request" /\ theRequest'.limit \in Nat
      /\ theRequest'.selected \subseteq Objects
  <2>1. theRequest' = [kind |-> "request", selected |-> {o \in Objects : Selected(o)'},
                       limit |-> input'.limit]
    BY <1>2 DEF theRequest
  <2>2. input'.limit \in Nat
    BY <1>2, LimitAssumption DEF IInv, ResultTypes
  <2> QED
    BY <2>1, <2>2
<1>5. theSince' = [o \in Objects |-> {theCondition[o]}]
  <2>1. \A o \in Objects : {ConditionOf(v) : v \in seen'[o]} = {theCondition[o]}
    BY <1>1 DEF theCondition
  <2> QED
    BY <2>1 DEF theSince
<1>6. theAnswer' \in {[kind |-> "none"], [kind |-> "error"]}
  <2>1. output'.kind \in {"none", "error"}
    BY <1>1, RefusalFacts
  <2>2. theAnswer' = [kind |-> output'.kind]
    BY <2>1 DEF theAnswer
  <2> QED
    BY <2>1, <2>2
<1> QED
  BY <1>3, <1>4, <1>5, <1>6, AskStep

(* A failed request, or a result that cannot be encoded, fails the list. *)
LEMMA ErrorFails ==
    ASSUME IInv, Busy, UNCHANGED <<cluster, input, seen>>, output'.kind = "error"
    PROVE  Abstract!Next
<1>1. theAnswer = [kind |-> "none"] /\ theAnswer' = [kind |-> "error"]
  <2>1. output.kind = "none"
    BY DEF Busy, NoOutput
  <2> QED
    BY <2>1 DEF theAnswer
<1>2. theCondition' = theCondition /\ theSince' = theSince
  BY DEF theCondition, theSince
<1>3. theRequest' = theRequest /\ theRequest # [kind |-> "none"]
  BY InRequest DEF theRequest, Selected, Busy
<1> QED
  BY <1>1, <1>2, <1>3, FailStep

(* The sorted and cut list is an answer. *)
LEMMA FinishAnswers ==
    ASSUME IInv, Finish
    PROVE  Abstract!Next
<1> DEFINE kept == FirstInOrder(found, input.limit)
           named == {e.object : e \in kept}
           truncated == partial \/ Cardinality(found) > input.limit
<1>1. /\ Busy /\ todo = <<>>
      /\ UNCHANGED <<cluster, input, todo, found, partial, seen>>
  BY DEF Finish
<1>2. CASE output'.kind = "error"
  BY <1>1, <1>2, ErrorFails
<1>3. CASE /\ output'.kind = "list" /\ output'.reconciliations = kept
           /\ output'.truncated = truncated
  <2>1. input.limit \in Nat /\ Keyed(found)
    BY <1>1, LimitAssumption DEF IInv, ResultTypes, FoundInv, Busy
  <2>2. kept \in SUBSET found /\ Cardinality(kept) <= input.limit /\ Keyed(kept)
    BY <2>1, AtMostLimit, KeyedSubset
  <2>3. truncated \in BOOLEAN
    OBVIOUS
  <2>4. ASSUME NEW e \in found, e \notin kept PROVE truncated
    BY <2>1, <2>4, CutIsSuffix
  <2>5. partial => truncated
    OBVIOUS
  <2> HIDE DEF kept, truncated
  <2>6. Cardinality(named) <= input.limit
    BY <2>2, KeyedCardinality
  <2>7. /\ named \in SUBSET Objects
        /\ \A o \in named : Selected(o) /\ "unready" \in theSince[o]
    <3> SUFFICES ASSUME NEW e \in kept
                 PROVE  /\ e.object \in Objects /\ Selected(e.object)
                        /\ "unready" \in theSince[e.object]
      OBVIOUS
    <3>1. e \in found /\ e.object \in Objects
      BY <2>2 DEF Keyed
    <3> QED
      BY <3>1 DEF IInv, FoundInv, theSince
  <2>8. ASSUME ~truncated, NEW o \in Objects, Selected(o), theSince[o] = {"unready"}
        PROVE  o \in named
    <3>1. \A l : ~Pending(l)
      <4>1. DOMAIN todo = {}
        BY <1>1
      <4> QED
        BY <4>1 DEF Pending
    <3>2. Since(o) = {"unready"}
      BY <2>8 DEF theSince, Since
    <3>3. PICK e \in found : e.object = o
      BY <1>1, <2>5, <2>8, <3>1, <3>2, Zenon DEF IInv, NotLost
    <3> QED
      BY <2>4, <2>8, <3>3
  <2>9. theAnswer = [kind |-> "none"]
        /\ theAnswer' = [kind |-> "list", named |-> named, truncated |-> truncated]
    <3>1. output.kind = "none"
      BY <1>1 DEF Busy, NoOutput
    <3>2. Listed' = named
      BY <1>3 DEF Listed
    <3> HIDE DEF named
    <3>3. theAnswer = [kind |-> "none"]
      BY <3>1 DEF theAnswer
    <3> QED
      BY <1>3, <3>2, <3>3 DEF theAnswer
  <2> HIDE DEF named
  <2>10. /\ theCondition' = theCondition /\ theSince' = theSince
         /\ theRequest' = theRequest
    BY <1>1 DEF theCondition, theSince, theRequest, Selected
  <2>11. /\ theRequest # [kind |-> "none"] /\ theRequest.limit = input.limit
         /\ theRequest.selected = {o \in Objects : Selected(o)}
    BY <1>1, InRequest DEF Busy
  <2>12. /\ Cardinality(named) <= theRequest.limit
         /\ \A o \in named : o \in theRequest.selected /\ "unready" \in theSince[o]
         /\ ~truncated => \A o \in theRequest.selected :
                             theSince[o] = {"unready"} => o \in named
    BY <2>6, <2>7, <2>8, <2>11
  <2> QED
    BY <2>3, <2>7, <2>9, <2>10, <2>11, <2>12, AnswerStep
<1> QED
  BY <1>2, <1>3, FinishOutcome

(* After the result has been returned, there is no request. *)
LEMMA ReturnDone ==
    ASSUME IInv, Return
    PROVE  Abstract!Next
<1>1. /\ output # NoOutput /\ cluster' = cluster /\ input' = NoInput
      /\ output' = NoOutput /\ seen' = [o \in Objects |-> {}]
  BY DEF Return
<1>2. theAnswer # [kind |-> "none"]
  <2>1. output.kind # "none"
    BY <1>1 DEF IInv, ResultTypes
  <2>2. theAnswer.kind = output.kind
    <3>1. CASE output.kind = "list"
      BY <3>1 DEF theAnswer
    <3>2. CASE output.kind # "list"
      BY <3>2 DEF theAnswer
    <3> QED
      BY <3>1, <3>2
  <2> QED
    BY <2>1, <2>2
<1>3. theRequest' = [kind |-> "none"] /\ theAnswer' = [kind |-> "none"]
  <2>1. output'.kind = "none"
    BY <1>1 DEF NoOutput
  <2> QED
    BY <1>1, <2>1 DEF theRequest, theAnswer, NoInput
<1>4. theSince' = [o \in Objects |-> {}] /\ theCondition' = theCondition
  BY <1>1 DEF theSince, theCondition
<1> QED
  BY <1>2, <1>3, <1>4, DoneStep

(* A new version of an object is a change of its condition, or of nothing   *)
(* the promise sees.                                                        *)
LEMMA ObjectChangesChanges ==
    ASSUME IInv, NEW o \in Objects, NEW v \in Versions, ObjectChanges(o, v)
    PROVE  Abstract!Next
<1> DEFINE c == ConditionOf(v)
<1>1. /\ Busy /\ cluster' = [cluster EXCEPT ![o] = v]
      /\ seen' = [seen EXCEPT ![o] = @ \cup {v}]
      /\ UNCHANGED <<input, output>>
  BY DEF ObjectChanges
<1>2. cluster \in [Objects -> Versions] /\ seen \in [Objects -> SUBSET Versions]
  BY DEF IInv, ClusterTypes
<1>3. c \in {"absent", "ready", "unready"}
  BY DEF ConditionOf
<1>4. theCondition' = [theCondition EXCEPT ![o] = c]
  <2>1. \A x \in Objects : cluster'[x] = IF x = o THEN v ELSE cluster[x]
    BY <1>1, <1>2
  <2> QED
    BY <2>1 DEF theCondition
<1>5. theSince' = [theSince EXCEPT ![o] = @ \cup {c}]
  <2>1. \A x \in Objects : {ConditionOf(w) : w \in seen'[x]} =
            IF x = o THEN {ConditionOf(w) : w \in seen[x]} \cup {c}
            ELSE {ConditionOf(w) : w \in seen[x]}
    BY <1>1, <1>2
  <2> HIDE DEF c
  <2> QED
    BY <2>1 DEF theSince
<1>6. theRequest' = theRequest /\ theAnswer' = theAnswer
      /\ theRequest # [kind |-> "none"]
  BY <1>1, InRequest DEF theRequest, theAnswer, Selected, Busy, Listed
<1> QED
  BY <1>3, <1>4, <1>5, <1>6, ChangeStep

(* Every step implements a step of BoundedList or none. *)
LEMMA StepImplements ==
    ASSUME IInv, IInv', [Next]_vars
    PROVE  Abstract!Next \/ UNCHANGED Abstract!vars
<1>1. CASE \E in \in Inputs : ListUnhealthyReconciliations(in)
  BY <1>1, ListUnhealthyReconciliationsAsks
<1>2. CASE listResources \/ UNCHANGED vars
  <2>1. UNCHANGED <<cluster, input, output, seen>>
    BY <1>2 DEF listResources, vars
  <2> QED
    BY <2>1, StutterStep DEF theCondition, theRequest, theSince, theAnswer,
       Selected, Listed
<1>3. CASE ListFails
  <2>1. Busy /\ output' = Error("source") /\ UNCHANGED <<cluster, input, seen>>
    BY <1>3 DEF ListFails
  <2>2. output'.kind = "error"
    BY <2>1 DEF Error
  <2> QED
    BY <2>1, <2>2, ErrorFails
<1>4. CASE Finish
  BY <1>4, FinishAnswers
<1>5. CASE Return
  BY <1>5, ReturnDone
<1>6. CASE \E o \in Objects, v \in Versions : ObjectChanges(o, v)
  BY <1>6, ObjectChangesChanges
<1> QED
  BY <1>1, <1>2, <1>3, <1>4, <1>5, <1>6 DEF Next, Step

(* The initial states are initial states of BoundedList. *)
LEMMA InitImplements == Init => Abstract!Init
<1> SUFFICES ASSUME Init PROVE Abstract!Init
  OBVIOUS
<1>1. input = NoInput /\ output = NoOutput /\ seen = [o \in Objects |-> {}]
  BY DEF Init
<1>2. theRequest = [kind |-> "none"]
  BY <1>1 DEF theRequest, NoInput
<1>3. theAnswer = [kind |-> "none"]
  <2>1. output.kind = "none"
    BY <1>1 DEF NoOutput
  <2> QED
    BY <2>1 DEF theAnswer
<1>4. theSince = [o \in Objects |-> {}]
  BY <1>1 DEF theSince
<1>5. theCondition \in [Objects -> {"absent", "ready", "unready"}]
  BY DEF theCondition, ConditionOf
<1> QED
  BY ONLY <1>2, <1>3, <1>4, <1>5 DEF Abstract!Init, Abstract!NoRequest,
     Abstract!NoAnswer, Abstract!Conditions,
     theCondition, theRequest, theSince, theAnswer

(* ListUnhealthyReconciliations keeps the promise of a bounded list: at     *)
(* most limit entries, each of an object that was unready at some moment,   *)
(* and without the truncated flag nothing that was unready all along is     *)
(* missing.                                                                 *)
THEOREM ListImplementsPromise == Spec => Abstract!SafeSpec
<1>1. Init => Abstract!Init
  BY InitImplements
<1>2. IInv /\ IInv' /\ [Next]_vars => [Abstract!Next]_(Abstract!vars)
  BY StepImplements
<1> QED
  BY <1>1, <1>2, Invariance, PTL DEF Spec, Abstract!SafeSpec

=============================================================================
