---------------------- MODULE KubernetesObserveProofs ----------------------
(***************************************************************************)
(* The Kubernetes observations tell the truth about a cluster that changes *)
(* under them, and the list implements BoundedList, for any cluster, any   *)
(* scopes and any size of a page.                                          *)
(***************************************************************************)
EXTENDS KubernetesObserve, FiniteSetTheorems, SequenceTheorems, TLAPS

Conditions == {"absent", "ready", "unready"}
ListOf(o) == [scope |-> ScopeOf[o], kind |-> KindOf[o]]
ListRequests == [scope : ConfiguredScopes, kind : Kinds] \cup {NodeList}
Pending(l) == \E i \in DOMAIN todo : todo[i] = l

(* The types that the proofs need. *)
ClusterTypes ==
    /\ cluster \in [Objects -> Items \cup {Absent}]
    /\ nodes \in [Nodes -> Conditions]
    /\ seen \in [Observable -> SUBSET Conditions]
ResultTypes ==
    /\ op \in {"none", "ClusterHealth", "ListUnhealthyWorkloads"}
    /\ input.limit \in Nat
    /\ todo \in Seq(ListRequests)
    /\ found \subseteq Objects
    /\ total \in Nat /\ ready \in Nat /\ badNodes \in Nat
    /\ output.kind \in {"none", "error", "list", "health"}
    /\ output.kind = "none" => output = NoOutput
    /\ output.kind = "list" => op = "ListUnhealthyWorkloads"

(* Between observations nothing is left of the last one. *)
IdleInv ==
    op = "none" => /\ output = NoOutput /\ found = {}
                   /\ total = 0 /\ ready = 0 /\ badNodes = 0 /\ ~partial

(* The history is up to date while an observation runs. *)
SeenInv == Busy => \A x \in Observable : Condition(x) \in seen[x]

(* What was found is what was looked for: every request that is left reads  *)
(* a selected scope, and what was found or counted was unready when a page  *)
(* showed it.                                                               *)
FoundInv ==
    /\ \A i \in DOMAIN todo :
          todo[i] = NodeList \/ input.scope \in {"", todo[i].scope}
    /\ \A o \in found : Observed(o) /\ "unready" \in seen[o]
    /\ ready <= total
    /\ total > ready => \E o \in Objects : "unready" \in seen[o]
    /\ badNodes > 0 => \E n \in Nodes : "unready" \in seen[n]

(* Nothing that was unready all along gets lost: its list is still to be    *)
(* read, or it was found or counted, or the observation knows that it is    *)
(* partial.                                                                 *)
NotLost ==
    Busy =>
        /\ op = "ListUnhealthyWorkloads" =>
              \A o \in Objects : Observed(o) /\ seen[o] = {"unready"} =>
                  Pending(ListOf(o)) \/ o \in found \/ partial
        /\ op = "ClusterHealth" =>
              /\ \A n \in Nodes : seen[n] = {"unready"} =>
                     Pending(NodeList) \/ badNodes > 0 \/ partial
              /\ \A o \in Objects : seen[o] = {"unready"} =>
                     Pending(ListOf(o)) \/ total > ready \/ partial

IInv ==
    /\ ClusterTypes /\ ResultTypes
    /\ IdleInv /\ SeenInv /\ FoundInv /\ NotLost
    /\ PersistentUnhealthyListed /\ StatusIsTrue

-----------------------------------------------------------------------------
(* Sorting and cutting. *)

(* The entries of S that come before x. *)
Below(S, x) == {p \in S : p < x}

(* The numbers below x are fewer than all numbers of S, and grow along the  *)
(* order.                                                                   *)
LEMMA BelowFacts ==
    ASSUME NEW S \in SUBSET Nat, IsFiniteSet(S), NEW x \in S
    PROVE  /\ Below(S, x) \in SUBSET S /\ x \notin Below(S, x)
           /\ IsFiniteSet(Below(S, x)) /\ Cardinality(Below(S, x)) \in Nat
           /\ Cardinality(Below(S, x)) < Cardinality(S)
           /\ \A y \in S : /\ y < x => y \in Below(S, x)
                           /\ y <= x => Below(S, y) \in SUBSET Below(S, x)
           /\ x \in Nat
<1>1. Below(S, x) \in SUBSET S /\ x \notin Below(S, x) /\ x \in Nat
  BY DEF Below
<1>2. /\ IsFiniteSet(Below(S, x)) /\ Cardinality(Below(S, x)) \in Nat
      /\ Cardinality(Below(S, x)) < Cardinality(S)
  BY <1>1, FS_Subset, FS_CardinalityType
<1>3. \A y \in S : y < x => y \in Below(S, x)
  BY DEF Below
<1>4. ASSUME NEW y \in S, y <= x PROVE Below(S, y) \in SUBSET Below(S, x)
  <2> SUFFICES ASSUME NEW p \in S, p < y PROVE p < x
    BY DEF Below
  <2>1. p \in Nat /\ y \in Nat
    OBVIOUS
  <2> QED
    BY <1>1, <1>4, <2>1
<1> QED
  BY <1>1, <1>2, <1>3, <1>4

(* At most limit entries are kept: the numbers of smaller entries are       *)
(* different for different entries, and below limit for those kept.         *)
LEMMA AtMostLimit ==
    ASSUME NEW S \in SUBSET Nat, IsFiniteSet(S), NEW limit \in Nat
    PROVE  /\ IsFiniteSet(FirstInOrder(S, limit))
           /\ Cardinality(FirstInOrder(S, limit)) <= limit
<1> DEFINE T == FirstInOrder(S, limit)
           f == [o \in T |-> Cardinality(Below(S, o))]
<1>1. T \in SUBSET S /\ \A o \in T : Cardinality(Below(S, o)) < limit
  BY DEF FirstInOrder, Below
<1> HIDE DEF T
<1>2. IsFiniteSet(T) /\ Cardinality(T) \in Nat
  BY <1>1, FS_Subset, FS_CardinalityType
<1>3. ASSUME NEW o \in T PROVE Cardinality(Below(S, o)) \in 0 .. limit - 1
  BY <1>1, BelowFacts
<1>4. f \in [T -> 0 .. limit - 1]
  BY <1>3
<1>5. ASSUME NEW o \in T, NEW p \in T, o < p PROVE f[o] # f[p]
  <2>1. /\ Below(S, o) \in SUBSET Below(S, p)
        /\ o \in Below(S, p) /\ o \notin Below(S, o)
        /\ IsFiniteSet(Below(S, p))
    <3>1. o \in S /\ p \in S /\ o \in Nat /\ p \in Nat /\ o <= p
      BY <1>1, <1>5
    <3> QED
      BY <1>5, <3>1, BelowFacts
  <2> QED
    BY <2>1, FS_Subset
<1>6. ASSUME NEW o \in T, NEW p \in T, o # p PROVE f[o] # f[p]
  <2>1. o \in Nat /\ p \in Nat
    BY <1>1
  <2>2. o < p \/ p < o
    BY <1>6, <2>1
  <2> QED
    BY <1>5, <2>2
<1>7. IsFiniteSet(0 .. limit - 1) /\ Cardinality(0 .. limit - 1) = limit
  BY FS_Interval
<1> HIDE DEF f
<1>8. ~(limit < Cardinality(T))
  BY <1>2, <1>4, <1>6, <1>7, FS_PigeonHole
<1> QED
  BY <1>2, <1>8 DEF T

(* What the cut leaves out comes after all that is kept, and there is more  *)
(* than limit.                                                              *)
LEMMA CutIsSuffix ==
    ASSUME NEW S \in SUBSET Nat, IsFiniteSet(S), NEW limit \in Nat,
           NEW o \in S, o \notin FirstInOrder(S, limit)
    PROVE  /\ Cardinality(S) > limit
           /\ \A p \in FirstInOrder(S, limit) : p < o
<1>1. ~(Cardinality(Below(S, o)) < limit)
  BY DEF FirstInOrder, Below
<1>2. Cardinality(S) \in Nat
  BY FS_CardinalityType
<1>3. ASSUME NEW p \in FirstInOrder(S, limit), ~(p < o) PROVE FALSE
  <2>1. p \in S /\ Cardinality(Below(S, p)) < limit
    BY <1>3 DEF FirstInOrder, Below
  <2>2. p \in Nat /\ o \in Nat
    BY <2>1
  <2>3. Below(S, o) \in SUBSET Below(S, p)
    BY <1>3, <2>1, <2>2, BelowFacts
  <2>4. /\ IsFiniteSet(Below(S, p)) /\ Cardinality(Below(S, p)) \in Nat
        /\ Cardinality(Below(S, o)) \in Nat
    BY <2>1, BelowFacts
  <2>5. Cardinality(Below(S, o)) <= Cardinality(Below(S, p))
    BY <2>3, <2>4, FS_Subset
  <2> QED
    BY <1>1, <2>1, <2>4, <2>5
<1>4. Cardinality(S) > limit
  BY <1>1, <1>2, BelowFacts
<1> QED
  BY <1>3, <1>4

-----------------------------------------------------------------------------
(* The plan of an observation. *)

(* A sequence of one element, and one put before a sequence. *)
LEMMA SingletonSeq ==
    ASSUME NEW S, NEW x \in S
    PROVE  <<x>> \in Seq(S) /\ DOMAIN <<x>> = {1} /\ <<x>>[1] = x
<1>1. DOMAIN <<x>> = {1} /\ <<x>>[1] = x
  OBVIOUS
<1> QED
  BY <1>1

(* A sequence with one more element in front: the plan of ClusterHealth. *)
LEMMA PrependSeq ==
    ASSUME NEW S, NEW s \in Seq(S), NEW x
    PROVE  /\ <<x>> \o s \in Seq(S \cup {x})
           /\ 1 \in DOMAIN (<<x>> \o s) /\ (<<x>> \o s)[1] = x
           /\ \A n \in DOMAIN s : /\ n + 1 \in DOMAIN (<<x>> \o s)
                                 /\ (<<x>> \o s)[n + 1] = s[n]
<1> DEFINE one == <<x>>
           T == S \cup {x}
<1>1. one \in Seq(T) /\ Len(one) = 1 /\ one[1] = x
  BY SingletonSeq
<1>2. s \in Seq(T) /\ Len(s) \in Nat /\ DOMAIN s = 1 .. Len(s)
  BY SeqMonotonic, LenProperties
<1> HIDE DEF one, T
<1>3. /\ one \o s \in Seq(T) /\ Len(one \o s) = 1 + Len(s)
      /\ \A i \in 1 .. 1 + Len(s) :
            (one \o s)[i] = IF i <= 1 THEN one[i] ELSE s[i - 1]
  BY <1>1, <1>2, ConcatProperties
<1>4. DOMAIN (one \o s) = 1 .. 1 + Len(s)
  BY <1>3, LenProperties
<1>5. 1 \in DOMAIN (one \o s) /\ (one \o s)[1] = x
  BY <1>1, <1>2, <1>3, <1>4
<1>6. \A n \in DOMAIN s : n + 1 \in DOMAIN (one \o s) /\ (one \o s)[n + 1] = s[n]
  BY <1>2, <1>3, <1>4
<1> QED
  BY <1>3, <1>5, <1>6 DEF one, T

(* Every kind in every scope is listed, and nothing else. *)
LEMMA ListsComplete ==
    ASSUME NEW scopes \in Seq(ConfiguredScopes)
    PROVE  /\ Lists(scopes) \in Seq([scope : ConfiguredScopes, kind : Kinds])
           /\ \A n \in DOMAIN Lists(scopes) :
                 \E i \in DOMAIN scopes : Lists(scopes)[n].scope = scopes[i]
           /\ \A i \in DOMAIN scopes, k \in Kinds :
                 \E n \in DOMAIN Lists(scopes) :
                    Lists(scopes)[n] = [scope |-> scopes[i], kind |-> k]
<1>1. Len(scopes) \in Nat /\ DOMAIN scopes = 1 .. Len(scopes)
  OBVIOUS
<1>2. DOMAIN controllerResources = 1 .. 3
      /\ \A i \in 1 .. 3 : controllerResources[i] \in Kinds
  BY DEF controllerResources, Kinds
<1>3. ASSUME NEW n \in 1 .. 3 * Len(scopes)
      PROVE  /\ 1 + ((n - 1) \div 3) \in DOMAIN scopes
             /\ 1 + ((n - 1) % 3) \in 1 .. 3
  BY <1>1
<1>4. ASSUME NEW n \in 1 .. 3 * Len(scopes)
      PROVE  Lists(scopes)[n] =
                [scope |-> scopes[1 + ((n - 1) \div 3)],
                 kind |-> controllerResources[1 + ((n - 1) % 3)]]
  BY <1>2, <1>3 DEF Lists, ScopeLists
<1>5. DOMAIN Lists(scopes) = 1 .. 3 * Len(scopes) /\ 3 * Len(scopes) \in Nat
  BY <1>1 DEF Lists
<1>6. ASSUME NEW n \in 1 .. 3 * Len(scopes)
      PROVE  Lists(scopes)[n] \in [scope : ConfiguredScopes, kind : Kinds]
  <2> DEFINE scope == scopes[1 + ((n - 1) \div 3)]
             kind == controllerResources[1 + ((n - 1) % 3)]
  <2>1. scope \in ConfiguredScopes /\ kind \in Kinds
    BY <1>2, <1>3
  <2>2. Lists(scopes)[n] = [scope |-> scope, kind |-> kind]
    BY <1>4
  <2> HIDE DEF scope, kind
  <2> QED
    BY <2>1, <2>2
<1>7. Lists(scopes) \in Seq([scope : ConfiguredScopes, kind : Kinds])
  <2> DEFINE requests == [scope : ConfiguredScopes, kind : Kinds]
             length == 3 * Len(scopes)
  <2>1. Lists(scopes) = [n \in 1 .. length |-> Lists(scopes)[n]]
    BY DEF Lists
  <2>2. length \in Nat /\ \A n \in 1 .. length : Lists(scopes)[n] \in requests
    BY <1>5, <1>6
  <2> HIDE DEF requests, length
  <2>3. Lists(scopes) \in Seq(requests)
    BY <2>1, <2>2
  <2> QED
    BY <2>3 DEF requests
<1>8. \A n \in DOMAIN Lists(scopes) :
         \E i \in DOMAIN scopes : Lists(scopes)[n].scope = scopes[i]
  BY <1>3, <1>4, <1>5
<1>9. ASSUME NEW i \in DOMAIN scopes, NEW k \in Kinds
      PROVE  \E n \in DOMAIN Lists(scopes) :
                Lists(scopes)[n] = [scope |-> scopes[i], kind |-> k]
  <2>1. PICK m \in 1 .. 3 : controllerResources[m] = k
    BY <1>2 DEF Kinds
  <2> DEFINE n == 3 * (i - 1) + m
  <2>2. n \in 1 .. 3 * Len(scopes)
    <3>1. i \in Nat /\ 1 <= i /\ i <= Len(scopes)
      BY <1>1
    <3>2. m \in Nat /\ 1 <= m /\ m <= 3
      OBVIOUS
    <3> QED
      BY <1>1, <3>1, <3>2
  <2>3. 1 + ((n - 1) \div 3) = i /\ 1 + ((n - 1) % 3) = m
    <3>1. \A a \in Nat, b \in 0 .. 2 :
              (3 * a + b) \div 3 = a /\ (3 * a + b) % 3 = b
      OBVIOUS
    <3>2. i - 1 \in Nat /\ m - 1 \in 0 .. 2 /\ n - 1 = 3 * (i - 1) + (m - 1)
      BY <1>1
    <3>3. (n - 1) \div 3 = i - 1 /\ (n - 1) % 3 = m - 1
      BY <3>1, <3>2
    <3>4. i \in Nat /\ m \in Nat
      BY <1>1
    <3> HIDE DEF n
    <3> QED
      BY <3>3, <3>4
  <2> HIDE DEF n
  <2> QED
    BY <1>4, <1>5, <2>1, <2>2, <2>3
<1> QED
  BY <1>7, <1>8, <1>9

(* Reading a list takes it from the plan. *)
LEMMA TailPending ==
    ASSUME ResultTypes, todo # <<>>, todo' = Tail(todo)
    PROVE  /\ todo' \in Seq(ListRequests)
           /\ Head(todo) \in ListRequests
           /\ Pending(Head(todo))
           /\ \A l : Pending(l) /\ l # Head(todo) => Pending(l)'
           /\ \A l : Pending(l)' => Pending(l)
<1>1. /\ Len(todo) \in Nat /\ Len(todo) > 0 /\ DOMAIN todo = 1 .. Len(todo)
      /\ Head(todo) = todo[1] /\ Head(todo) \in ListRequests
  BY DEF ResultTypes
<1>2. /\ todo' \in Seq(ListRequests) /\ DOMAIN todo' = 1 .. Len(todo) - 1
      /\ \A i \in 1 .. Len(todo) - 1 : todo'[i] = todo[i + 1]
  BY DEF ResultTypes
<1>3. ASSUME NEW l, Pending(l), l # Head(todo) PROVE Pending(l)'
  <2>1. PICK i \in DOMAIN todo : todo[i] = l
    BY <1>3 DEF Pending
  <2>2. i # 1 /\ i - 1 \in 1 .. Len(todo) - 1
    BY <1>1, <1>3, <2>1
  <2>3. todo'[i - 1] = l
    BY <1>1, <1>2, <2>1, <2>2
  <2> QED
    BY <1>2, <2>2, <2>3 DEF Pending
<1>4. ASSUME NEW l, Pending(l)' PROVE Pending(l)
  <2>1. PICK i \in 1 .. Len(todo) - 1 : todo'[i] = l
    BY <1>2, <1>4 DEF Pending
  <2>2. i + 1 \in DOMAIN todo /\ todo[i + 1] = l
    BY <1>1, <1>2, <2>1
  <2> QED
    BY <2>2 DEF Pending
<1>5. Pending(Head(todo))
  BY <1>1 DEF Pending
<1> QED
  BY <1>1, <1>2, <1>3, <1>4, <1>5

-----------------------------------------------------------------------------
(* Readiness. *)

(* controllerHealth judges an object as its condition says. *)
LEMMA ConditionFacts ==
    ASSUME ClusterTypes, NEW o \in Objects
    PROVE  /\ Condition(o) = ObjectCondition(o) /\ ObjectCondition(o) \in Conditions
           /\ ObjectCondition(o) = "absent" <=> cluster[o] = Absent
           /\ cluster[o] # Absent =>
                 (ObjectCondition(o) = "unready" <=>
                     ~controllerHealth(cluster[o], KindOf[o]))
<1>1. Condition(o) = ObjectCondition(o)
  BY ObserveAssumption DEF Condition
<1>2. CASE cluster[o] = Absent
  BY <1>1, <1>2 DEF ObjectCondition, Conditions
<1>3. CASE cluster[o] # Absent
  <2>1. cluster[o] \in Items
    BY <1>3 DEF ClusterTypes
  <2> DEFINE i == cluster[o]
  <2>2. /\ i.replicas \in Nat \cup {-1} /\ i.readyReplicas \in Nat
        /\ i.desiredNumberScheduled \in Nat /\ i.numberReady \in Nat
    BY <2>1, ObserveAssumption
  <2>3. CASE KindOf[o] = "DaemonSet"
    BY <1>1, <1>3, <2>2, <2>3 DEF ObjectCondition, Short, controllerHealth,
       Conditions
  <2>4. CASE KindOf[o] # "DaemonSet"
    BY <1>1, <1>3, <2>2, <2>4 DEF ObjectCondition, Short, controllerHealth,
       Conditions
  <2> QED
    BY <2>3, <2>4
<1> QED
  BY <1>2, <1>3

(* A node is what its Ready condition says. *)
LEMMA NodeCondition == \A n \in Nodes : Condition(n) = nodes[n]
BY DEF Condition

-----------------------------------------------------------------------------
(* Steps. *)

(* No observation has begun in an initial state. *)
LEMMA InitIInv == Init => IInv
<1> SUFFICES ASSUME Init PROVE IInv
  OBVIOUS
<1>1. ClusterTypes
  BY DEF Init, ClusterTypes, Conditions
<1>2. op = "none" /\ input = [scope |-> "", limit |-> 1] /\ output = NoOutput
  BY DEF Init
<1>3. todo = <<>> /\ found = {} /\ partial = FALSE
  BY DEF Init
<1>4. total = 0 /\ ready = 0 /\ badNodes = 0
  BY DEF Init
<1>5. ResultTypes
  <2>1. total \in Nat /\ ready \in Nat /\ badNodes \in Nat
    BY <1>4
  <2>2. input.limit \in Nat
    BY <1>2
  <2>3. todo \in Seq(ListRequests) /\ found \subseteq Objects
    BY <1>3
  <2>4. /\ output.kind = "none" /\ output = NoOutput
    BY <1>2 DEF NoOutput
  <2> QED
    BY <1>2, <2>1, <2>2, <2>3, <2>4 DEF ResultTypes
<1>6. IdleInv /\ SeenInv /\ NotLost
  BY <1>2, <1>3, <1>4 DEF IdleInv, SeenInv, NotLost, Busy
<1>7. FoundInv
  <2>1. DOMAIN todo = {}
    BY <1>3
  <2>2. ready <= total /\ ~(total > ready) /\ ~(badNodes > 0)
    BY <1>4
  <2> QED
    BY <1>3, <2>1, <2>2 DEF FoundInv
<1>8. PersistentUnhealthyListed /\ StatusIsTrue
  BY <1>2 DEF PersistentUnhealthyListed, StatusIsTrue, NoOutput
<1> QED
  BY <1>1, <1>5, <1>6, <1>7, <1>8 DEF IInv

(* A plan reads the selected scopes only, and everything in them. *)
Covers(plan, name, scope) ==
    /\ \A i \in DOMAIN plan : plan[i] = NodeList \/ scope \in {"", plan[i].scope}
    /\ \A o \in Objects : scope \in {"", ScopeOf[o]} =>
          \E i \in DOMAIN plan : plan[i] = ListOf(o)
    /\ name = "ClusterHealth" =>
          scope = "" /\ \E i \in DOMAIN plan : plan[i] = NodeList

(* An observation begins with a plan that covers what was selected, or      *)
(* fails at once, and its history begins at the present moment.             *)
LEMMA BeginIInv ==
    ASSUME IInv, NEW name \in {"ClusterHealth", "ListUnhealthyWorkloads"},
           NEW in, NEW plan, Begin(name, in, plan),
           in.limit \in Nat, plan \in Seq(ListRequests),
           \/ output' = NoOutput /\ Covers(plan, name, in.scope)
           \/ output'.kind = "error" /\ plan = <<>>
    PROVE  IInv'
<1>1. /\ op' = name /\ input' = in /\ todo' = plan
      /\ seen' = [x \in Observable |-> {Condition(x)}]
  BY DEF Begin
<1>2. op = "none" /\ cluster' = cluster /\ nodes' = nodes
  BY DEF Begin, clusterVars
<1>3. found' = {} /\ ~partial'
  <2>1. found' = found /\ partial' = partial
    BY DEF Begin
  <2> QED
    BY <1>2, <2>1, Zenon DEF IInv, IdleInv
<1>4. total' = 0 /\ ready' = 0 /\ badNodes' = 0
  <2>1. total' = total /\ ready' = ready /\ badNodes' = badNodes
    BY DEF Begin
  <2> QED
    BY <1>2, <2>1 DEF IInv, IdleInv
<1>5. /\ output'.kind = "none" => output' = NoOutput
      /\ output'.kind \in {"none", "error"}
      /\ output' # NoOutput => todo' = <<>>
      /\ output' = NoOutput => Covers(todo', op', input'.scope)
  <2>1. CASE output' = NoOutput /\ Covers(plan, name, in.scope)
    BY <1>1, <2>1, Zenon DEF NoOutput
  <2>2. CASE output'.kind = "error" /\ plan = <<>>
    <3>1. output' # NoOutput
      BY ONLY <2>2 DEF NoOutput
    <3> QED
      BY <1>1, <2>2, <3>1, Zenon
  <2> QED
    BY <2>1, <2>2
<1>6. ASSUME NEW x \in Observable
      PROVE  Condition(x) \in Conditions /\ Condition(x)' = Condition(x)
  <2>1. Condition(x)' = Condition(x)
    BY <1>2 DEF Condition, ObjectCondition
  <2>2. CASE x \in Nodes
    BY <2>1, <2>2, NodeCondition DEF IInv, ClusterTypes
  <2>3. CASE x \in Objects
    BY <2>1, <2>3, ConditionFacts DEF IInv
  <2> QED
    BY <2>2, <2>3 DEF Observable
<1>7. ClusterTypes'
  BY <1>1, <1>2, <1>6 DEF IInv, ClusterTypes
<1>8. ResultTypes'
  <2>1. total' \in Nat /\ ready' \in Nat /\ badNodes' \in Nat
    BY <1>4
  <2>2. input'.limit \in Nat
    BY <1>1
  <2>3. todo' \in Seq(ListRequests) /\ found' \subseteq Objects
    BY <1>1, <1>3
  <2>4. op' \in {"none", "ClusterHealth", "ListUnhealthyWorkloads"}
    BY <1>1
  <2>5. output'.kind # "list" /\ output'.kind \in {"none", "error", "list", "health"}
    BY <1>5
  <2> QED
    BY <1>5, <2>1, <2>2, <2>3, <2>4, <2>5 DEF ResultTypes
<1>9. IdleInv' /\ SeenInv'
  BY <1>1, <1>6 DEF IdleInv, SeenInv
<1>10. FoundInv'
  <2>1. ready' <= total' /\ ~(total' > ready') /\ ~(badNodes' > 0)
    BY ONLY <1>4
  <2>2. \A i \in DOMAIN todo' :
            todo'[i] = NodeList \/ input'.scope \in {"", todo'[i].scope}
    <3>1. CASE output' = NoOutput
      BY <1>5, <3>1 DEF Covers
    <3>2. CASE output' # NoOutput
      <4>1. todo' = <<>>
        BY <1>5, <3>2
      <4>2. DOMAIN todo' = {}
        BY ONLY <4>1
      <4> QED
        BY <4>2
    <3> QED
      BY <3>1, <3>2
  <2> QED
    BY <1>3, <2>1, <2>2 DEF FoundInv
<1>11. NotLost'
  BY <1>5, Zenon DEF NotLost, Busy, Observed, Pending, Covers
<1>12. PersistentUnhealthyListed' /\ StatusIsTrue'
  <2>1. output'.kind # "list" /\ output'.kind # "health"
    BY <1>5
  <2> QED
    BY <2>1 DEF PersistentUnhealthyListed, StatusIsTrue
<1> QED
  BY <1>7, <1>8, <1>9, <1>10, <1>11, <1>12 DEF IInv

(* The requests that selectedScopes and the loops plan cover the scope. *)
LEMMA ListsCover ==
    ASSUME NEW scope \in ConfiguredScopes \cup {""}
    PROVE  /\ Lists(selectedScopes(scope)) \in Seq([scope : ConfiguredScopes, kind : Kinds])
           /\ Covers(Lists(selectedScopes(scope)), "ListUnhealthyWorkloads", scope)
<1> DEFINE scopes == selectedScopes(scope)
           plan == Lists(scopes)
<1>1. /\ scopes \in Seq(ConfiguredScopes)
      /\ \A i \in DOMAIN scopes : scope \in {"", scopes[i]}
      /\ \A o \in Objects : scope \in {"", ScopeOf[o]} =>
            \E i \in DOMAIN scopes : scopes[i] = ScopeOf[o]
  <2>1. CASE scope = ""
    <3>1. scopes = Scopes
      BY <2>1 DEF selectedScopes
    <3>2. \A o \in Objects : \E i \in DOMAIN Scopes : Scopes[i] = ScopeOf[o]
      BY ObserveAssumption DEF ConfiguredScopes
    <3> QED
      BY <2>1, <3>1, <3>2, ObserveAssumption
  <2>2. CASE scope # ""
    <3>1. scopes = <<scope>> /\ scope \in ConfiguredScopes
      BY <2>2 DEF selectedScopes
    <3>3. /\ scopes \in Seq(ConfiguredScopes) /\ DOMAIN scopes = {1}
          /\ scopes[1] = scope
      BY <3>1, SingletonSeq
    <3> HIDE DEF scopes
    <3> QED
      BY <2>2, <3>3
  <2> QED
    BY <2>1, <2>2
<1> HIDE DEF scopes
<1>2. /\ plan \in Seq([scope : ConfiguredScopes, kind : Kinds])
      /\ \A n \in DOMAIN plan : \E i \in DOMAIN scopes : plan[n].scope = scopes[i]
      /\ \A i \in DOMAIN scopes, k \in Kinds :
            \E n \in DOMAIN plan : plan[n] = [scope |-> scopes[i], kind |-> k]
  BY <1>1, ListsComplete
<1>3. ASSUME NEW o \in Objects, scope \in {"", ScopeOf[o]}
      PROVE  \E i \in DOMAIN plan : plan[i] = ListOf(o)
  <2>1. PICK i \in DOMAIN scopes : scopes[i] = ScopeOf[o]
    BY <1>1, <1>3
  <2>2. KindOf[o] \in Kinds
    BY ObserveAssumption
  <2>3. PICK n \in DOMAIN plan : plan[n] = [scope |-> scopes[i], kind |-> KindOf[o]]
    BY <1>2, <2>2
  <2> QED
    BY <2>1, <2>3 DEF ListOf
<1> HIDE DEF plan
<1>4. ASSUME NEW n \in DOMAIN plan PROVE scope \in {"", plan[n].scope}
  BY <1>1, <1>2
<1>5. Covers(plan, "ListUnhealthyWorkloads", scope)
  BY <1>3, <1>4 DEF Covers
<1> QED
  BY <1>2, <1>5 DEF plan, scopes

(* ClusterHealth begins with all lists of all scopes pending, nodes first. *)
LEMMA ClusterHealthIInv ==
    ASSUME IInv, ClusterHealth
    PROVE  IInv'
<1> DEFINE in == [scope |-> "", limit |-> 1]
           lists == Lists(selectedScopes(""))
           plan == <<NodeList>> \o lists
<1>1. /\ lists \in Seq([scope : ConfiguredScopes, kind : Kinds])
      /\ Covers(lists, "ListUnhealthyWorkloads", "")
  BY ListsCover
<1>2. Begin("ClusterHealth", in, plan) /\ output' = output
  BY DEF ClusterHealth
<1>3. output' = NoOutput
  BY <1>2 DEF IInv, IdleInv, Begin
<1> HIDE DEF lists
<1>5. /\ plan \in Seq(ListRequests) /\ plan[1] = NodeList /\ 1 \in DOMAIN plan
      /\ \A n \in DOMAIN lists : n + 1 \in DOMAIN plan /\ plan[n + 1] = lists[n]
  <2> DEFINE requests == [scope : ConfiguredScopes, kind : Kinds]
  <2>1. lists \in Seq(requests) /\ ListRequests = requests \cup {NodeList}
    BY <1>1 DEF ListRequests
  <2> HIDE DEF requests
  <2>2. /\ plan \in Seq(requests \cup {NodeList})
        /\ plan[1] = NodeList /\ 1 \in DOMAIN plan
        /\ \A n \in DOMAIN lists : n + 1 \in DOMAIN plan /\ plan[n + 1] = lists[n]
    BY <2>1, PrependSeq
  <2> QED
    BY <2>1, <2>2
<1> HIDE DEF plan
<1>6. \A o \in Objects : \E i \in DOMAIN plan : plan[i] = ListOf(o)
  <2> SUFFICES ASSUME NEW o \in Objects
               PROVE  \E i \in DOMAIN plan : plan[i] = ListOf(o)
    OBVIOUS
  <2>1. PICK n \in DOMAIN lists : lists[n] = ListOf(o)
    BY <1>1 DEF Covers
  <2> QED
    BY <1>5, <2>1
<1>7. Covers(plan, "ClusterHealth", "")
  BY <1>5, <1>6 DEF Covers
<1>8. in.limit \in Nat /\ in.scope = ""
  OBVIOUS
<1> HIDE DEF in
<1> QED
  BY <1>2, <1>3, <1>5, <1>7, <1>8, BeginIInv

(* ListUnhealthyWorkloads begins with the lists of its scopes pending, or   *)
(* fails.                                                                   *)
LEMMA ListUnhealthyWorkloadsIInv ==
    ASSUME IInv, NEW scope \in ConfiguredScopes \cup {"", "unknown"},
           NEW limit \in Limits, ListUnhealthyWorkloads(scope, limit)
    PROVE  IInv'
<1> DEFINE in == [scope |-> scope, limit |-> limit]
           plan == Lists(selectedScopes(scope))
<1>1. in.limit \in Nat /\ in.scope = scope
  BY ObserveAssumption
<1>2. CASE scope \in ConfiguredScopes \cup {""}
  <2>1. Begin("ListUnhealthyWorkloads", in, plan) /\ output' = output
    BY <1>2 DEF ListUnhealthyWorkloads
  <2>2. output' = NoOutput
    BY <2>1 DEF IInv, IdleInv, Begin
  <2>3. /\ plan \in Seq([scope : ConfiguredScopes, kind : Kinds])
        /\ Covers(plan, "ListUnhealthyWorkloads", scope)
    BY <1>2, ListsCover
  <2> HIDE DEF plan, in
  <2>4. plan \in Seq(ListRequests)
    <3>1. [scope : ConfiguredScopes, kind : Kinds] \subseteq ListRequests
      BY DEF ListRequests
    <3> QED
      BY <2>3, <3>1, SeqMonotonic
  <2> QED
    BY <1>1, <2>1, <2>2, <2>3, <2>4, BeginIInv
<1>3. CASE scope \notin ConfiguredScopes \cup {""}
  <2>1. Begin("ListUnhealthyWorkloads", in, <<>>)
        /\ output' = Error("ErrUnknownScope")
    BY <1>3 DEF ListUnhealthyWorkloads
  <2>2. output'.kind = "error"
    BY <2>1 DEF Error
  <2>3. <<>> \in Seq(ListRequests)
    BY EmptySeq
  <2> HIDE DEF in
  <2> QED
    BY <1>1, <2>1, <2>2, <2>3, BeginIInv
<1> QED
  BY <1>2, <1>3

-----------------------------------------------------------------------------
(* List requests. *)

(* While an observation runs, the history of a controller or a node and its *)
(* present condition agree.                                                 *)
LEMMA ObjectHistory ==
    ASSUME IInv, Busy, NEW o \in Objects
    PROVE  /\ cluster[o] # Absent /\ ~controllerHealth(cluster[o], KindOf[o])
                 => "unready" \in seen[o]
           /\ seen[o] = {"unready"} =>
                 cluster[o] # Absent /\ ~controllerHealth(cluster[o], KindOf[o])
<1>1. ObjectCondition(o) \in seen[o]
  BY ConditionFacts DEF IInv, SeenInv, Observable
<1>2. /\ ObjectCondition(o) = "absent" <=> cluster[o] = Absent
      /\ cluster[o] # Absent => (ObjectCondition(o) = "unready" <=>
                                    ~controllerHealth(cluster[o], KindOf[o]))
  BY ConditionFacts DEF IInv
<1> QED
  BY <1>1, <1>2

(* The present condition of a node is part of its history. *)
LEMMA NodeHistory ==
    ASSUME IInv, Busy, NEW n \in Nodes
    PROVE  nodes[n] \in seen[n] /\ nodes[n] \in Conditions
BY NodeCondition DEF IInv, SeenInv, Observable, ClusterTypes

(* What every list request keeps. *)
LEMMA ListFrame ==
    ASSUME IInv, Busy, todo # <<>>, todo' = Tail(todo),
           UNCHANGED <<op, input, output, seen, cluster, nodes>>,
           found' \subseteq Objects,
           total' \in Nat, ready' \in Nat, badNodes' \in Nat
    PROVE  /\ ClusterTypes' /\ ResultTypes' /\ IdleInv' /\ SeenInv'
           /\ PersistentUnhealthyListed' /\ StatusIsTrue' /\ Busy'
           /\ \A i \in DOMAIN todo' :
                 todo'[i] = NodeList \/ input'.scope \in {"", todo'[i].scope}
<1>1. ClusterTypes'
  BY DEF IInv, ClusterTypes
<1>2. ResultTypes'
  BY TailPending DEF IInv, ResultTypes
<1>3. IdleInv' /\ SeenInv' /\ Busy'
  <2>1. op' # "none" /\ Busy'
    BY DEF Busy
  <2>2. \A x : Condition(x)' = Condition(x)
    BY DEF Condition, ObjectCondition
  <2> QED
    BY <2>1, <2>2 DEF IInv, IdleInv, SeenInv
<1>4. PersistentUnhealthyListed' /\ StatusIsTrue'
  <2>1. output'.kind = "none"
    BY DEF Busy, NoOutput
  <2> QED
    BY <2>1 DEF PersistentUnhealthyListed, StatusIsTrue
<1>5. ASSUME NEW i \in DOMAIN todo'
      PROVE  todo'[i] = NodeList \/ input'.scope \in {"", todo'[i].scope}
  <2>1. Pending(todo'[i])
    BY TailPending DEF IInv, Pending
  <2> QED
    BY <2>1 DEF Pending, IInv, FoundInv
<1> QED
  BY <1>1, <1>2, <1>3, <1>4, <1>5

(* The kinds of controllers are not the kind of a node. *)
LEMMA ListKinds ==
    /\ \A o \in Objects : ListOf(o) # NodeList
    /\ \A l \in ListRequests : l # NodeList =>
          l.scope \in ConfiguredScopes /\ l.kind \in Kinds
<1>1. "Node" \notin Kinds
  BY DEF Kinds, controllerResources
<1>2. ASSUME NEW o \in Objects PROVE ListOf(o) # NodeList
  <2>1. ListOf(o).kind \in Kinds /\ NodeList.kind = "Node"
    BY ObserveAssumption DEF ListOf, NodeList
  <2> QED
    BY <1>1, <2>1
<1>3. \A l \in ListRequests : l # NodeList =>
         l.scope \in ConfiguredScopes /\ l.kind \in Kinds
  BY DEF ListRequests
<1> QED
  BY <1>2, <1>3

(* The page of the nodes counts every node that is not ready, or does not   *)
(* hold all of them.                                                        *)
LEMMA listNodesIInv ==
    ASSUME IInv, NEW page \in SUBSET Nodes, listNodes(page)
    PROVE  IInv'
<1> DEFINE bad == {n \in page : nodes[n] # "ready"}
<1>1. /\ Busy /\ todo # <<>> /\ Head(todo) = NodeList /\ todo' = Tail(todo)
      /\ page \subseteq PresentNodes /\ badNodes' = Cardinality(bad)
      /\ UNCHANGED <<op, input, output, seen, cluster, nodes>>
  BY DEF listNodes, clusterVars
<1>2. found' = found /\ total' = total /\ ready' = ready
  BY DEF listNodes
<1>3. (partial => partial') /\ (page # PresentNodes => partial')
  BY Zenon DEF listNodes, MergePartial
<1>4. IsFiniteSet(bad) /\ Cardinality(bad) \in Nat /\ bad \subseteq Nodes
      /\ (Cardinality(bad) = 0 <=> bad = {})
  <2>1. bad \in SUBSET Nodes /\ IsFiniteSet(Nodes)
    BY ObserveAssumption
  <2> HIDE DEF bad
  <2> QED
    BY <2>1, FS_Subset, FS_CardinalityType, FS_EmptySet
<1> HIDE DEF bad
<1>5. found' \subseteq Objects /\ total' \in Nat /\ ready' \in Nat /\ badNodes' \in Nat
  BY <1>1, <1>2, <1>4 DEF IInv, ResultTypes
<1>6. /\ ClusterTypes' /\ ResultTypes' /\ IdleInv' /\ SeenInv'
      /\ PersistentUnhealthyListed' /\ StatusIsTrue' /\ Busy'
      /\ \A i \in DOMAIN todo' :
            todo'[i] = NodeList \/ input'.scope \in {"", todo'[i].scope}
  BY <1>1, <1>5, ListFrame
<1>7. badNodes' > 0 => \E n \in Nodes : "unready" \in seen'[n]
  <2> SUFFICES ASSUME badNodes' > 0 PROVE \E n \in Nodes : "unready" \in seen'[n]
    OBVIOUS
  <2>1. PICK n \in Nodes : n \in bad
    BY <1>1, <1>4
  <2>2. nodes[n] # "ready" /\ nodes[n] # "absent"
    BY <1>1, <2>1 DEF bad, PresentNodes
  <2> QED
    BY <1>1, <2>2, NodeHistory DEF Conditions
<1>8. FoundInv'
  BY <1>1, <1>2, <1>6, <1>7 DEF IInv, FoundInv, Observed
<1>9. ASSUME NEW n \in Nodes, seen[n] = {"unready"}
      PROVE  badNodes' > 0 \/ partial'
  <2>1. nodes[n] = "unready"
    BY <1>1, <1>9, NodeHistory
  <2>2. n \in PresentNodes
    BY <2>1 DEF PresentNodes
  <2>3. CASE page = PresentNodes
    <3>1. n \in bad
      BY <2>1, <2>2, <2>3 DEF bad
    <3> QED
      BY <1>1, <1>4, <3>1
  <2> QED
    BY <1>3, <2>3
<1>10. \A o \in Objects : Pending(ListOf(o)) => Pending(ListOf(o))'
  <2> SUFFICES ASSUME NEW o \in Objects, Pending(ListOf(o))
               PROVE  Pending(ListOf(o))'
    OBVIOUS
  <2>1. \A l : Pending(l) /\ l # Head(todo) => Pending(l)'
    BY <1>1, TailPending DEF IInv
  <2>2. ListOf(o) # Head(todo)
    BY <1>1, ListKinds
  <2> QED
    BY <2>1, <2>2 DEF ListOf, Pending
<1>11. NotLost'
  <2>1. \A o : Observed(o)' <=> Observed(o)
    BY <1>1 DEF Observed
  <2>2. ASSUME op' = "ListUnhealthyWorkloads", NEW o \in Objects,
               Observed(o)', seen'[o] = {"unready"}
        PROVE  Pending(ListOf(o))' \/ o \in found' \/ partial'
    <3>1. Pending(ListOf(o)) \/ o \in found \/ partial
      BY <1>1, <2>1, <2>2 DEF IInv, NotLost
    <3> QED
      BY <1>2, <1>3, <1>10, <3>1
  <2>3. ASSUME op' = "ClusterHealth", NEW o \in Objects, seen'[o] = {"unready"}
        PROVE  Pending(ListOf(o))' \/ total' > ready' \/ partial'
    <3>1. Pending(ListOf(o)) \/ total > ready \/ partial
      BY <1>1, <2>3 DEF IInv, NotLost
    <3> QED
      BY <1>2, <1>3, <1>10, <3>1
  <2>4. \A n \in Nodes : seen'[n] = {"unready"} => badNodes' > 0 \/ partial'
    BY <1>1, <1>9
  <2> QED
    BY <2>2, <2>3, <2>4 DEF NotLost
<1> QED
  BY <1>6, <1>8, <1>11 DEF IInv

(* The page of a kind in a scope finds and counts every controller that is  *)
(* not ready, or does not show all of them.                                 *)
LEMMA listControllersIInv ==
    ASSUME IInv, listControllers
    PROVE  IInv'
<1> DEFINE present == Present(Head(todo))
           page == Page(present)
           up == {o \in page : controllerHealth(cluster[o], KindOf[o])}
           named == (page \ up) \ BadNames
<1>1. /\ Busy /\ todo # <<>> /\ Head(todo) # NodeList /\ todo' = Tail(todo)
      /\ UNCHANGED <<op, input, output, seen, cluster, nodes>>
  BY DEF listControllers, clusterVars
<1>2. /\ total' = total + Cardinality(page) /\ ready' = ready + Cardinality(up)
      /\ found' = found \cup named /\ badNodes' = badNodes
  BY DEF listControllers
<1>3. /\ partial => partial'
      /\ page # present => partial'
      /\ op = "ListUnhealthyWorkloads" /\ named # page \ up => partial'
  BY Zenon DEF listControllers, MergePartial
<1>4. /\ present \in SUBSET Objects /\ page \in SUBSET present
      /\ up \in SUBSET page /\ named \in SUBSET page
      /\ \A o \in present : cluster[o] # Absent /\ ListOf(o) = Head(todo)
      /\ \A o \in Objects : cluster[o] # Absent /\ ListOf(o) = Head(todo) => o \in present
      /\ \A o \in page : o \in up <=> controllerHealth(cluster[o], KindOf[o])
      /\ \A o \in page : o \notin up /\ o \notin BadNames <=> o \in named
  <2>1. Head(todo) = [scope |-> Head(todo).scope, kind |-> Head(todo).kind]
    <3>1. Head(todo) \in ListRequests
      BY <1>1, TailPending DEF IInv
    <3> QED
      BY <1>1, <3>1 DEF ListRequests
  <2>2. \A o \in Objects : ListOf(o) = Head(todo) <=>
            ScopeOf[o] = Head(todo).scope /\ KindOf[o] = Head(todo).kind
    BY <2>1 DEF ListOf
  <2> QED
    BY <2>2 DEF Present, Page
<1> HIDE DEF present, page, up, named
<1>5. /\ IsFiniteSet(page) /\ Cardinality(page) \in Nat /\ Cardinality(up) \in Nat
      /\ Cardinality(up) <= Cardinality(page)
      /\ Cardinality(up) = Cardinality(page) => up = page
  <2>1. page \in SUBSET Objects /\ IsFiniteSet(Objects)
    BY <1>4, ObserveAssumption
  <2>2. IsFiniteSet(page)
    BY <2>1, FS_Subset
  <2>3. /\ IsFiniteSet(up) /\ Cardinality(up) <= Cardinality(page)
        /\ Cardinality(up) = Cardinality(page) => up = page
    BY <1>4, <2>2, FS_Subset
  <2> QED
    BY <2>2, <2>3, FS_CardinalityType
<1>6. total \in Nat /\ ready \in Nat /\ ready <= total
  BY DEF IInv, ResultTypes, FoundInv
<1>7. /\ total' \in Nat /\ ready' \in Nat /\ ready' <= total'
      /\ total' > ready' => total > ready \/ up # page
      /\ total > ready => total' > ready'
      /\ up # page => total' > ready'
  BY <1>2, <1>5, <1>6
<1>8. found' \subseteq Objects /\ badNodes' \in Nat
  BY <1>2, <1>4 DEF IInv, ResultTypes
<1>9. /\ ClusterTypes' /\ ResultTypes' /\ IdleInv' /\ SeenInv'
      /\ PersistentUnhealthyListed' /\ StatusIsTrue' /\ Busy'
      /\ \A i \in DOMAIN todo' :
            todo'[i] = NodeList \/ input'.scope \in {"", todo'[i].scope}
  BY <1>1, <1>7, <1>8, ListFrame
<1>10. \A o \in page : o \in Objects /\ (o \notin up => "unready" \in seen[o])
  BY <1>1, <1>4, ObjectHistory
<1>11. FoundInv'
  <2>1. \A o \in found' : Observed(o)' /\ "unready" \in seen'[o]
    <3> SUFFICES ASSUME NEW o \in found' PROVE Observed(o)' /\ "unready" \in seen'[o]
      OBVIOUS
    <3>1. CASE o \in found
      BY <1>1, <3>1 DEF IInv, FoundInv, Observed
    <3>2. CASE o \in named
      <4>1. o \in page /\ o \notin up /\ ListOf(o) = Head(todo)
        BY <1>4, <3>2
      <4>2. PICK i \in DOMAIN todo : todo[i] = Head(todo)
        BY <1>1, TailPending DEF IInv, Pending
      <4>3. input.scope \in {"", Head(todo).scope}
        BY <1>1, <4>2 DEF IInv, FoundInv
      <4>4. Head(todo).scope = ScopeOf[o]
        BY <4>1 DEF ListOf
      <4> QED
        BY <1>1, <1>10, <4>1, <4>3, <4>4 DEF Observed
    <3> QED
      BY <1>2, <3>1, <3>2
  <2>2. total' > ready' => \E o \in Objects : "unready" \in seen'[o]
    BY <1>1, <1>4, <1>7, <1>10 DEF IInv, FoundInv
  <2>3. badNodes' > 0 => \E n \in Nodes : "unready" \in seen'[n]
    BY <1>1, <1>2 DEF IInv, FoundInv
  <2> QED
    BY <1>7, <1>9, <2>1, <2>2, <2>3 DEF FoundInv
<1>12. ASSUME NEW o \in Objects, seen[o] = {"unready"}, ListOf(o) = Head(todo)
       PROVE  (o \in page /\ o \notin up) \/ partial'
  BY <1>1, <1>3, <1>4, <1>12, ObjectHistory
<1>13. \A l : Pending(l) /\ l # Head(todo) => Pending(l)'
  BY <1>1, TailPending DEF IInv
<1>14. \A o \in Objects : Pending(ListOf(o)) =>
          Pending(ListOf(o))' \/ ListOf(o) = Head(todo)
  BY <1>13 DEF ListOf, Pending
<1>15. Pending(NodeList) => Pending(NodeList)'
  BY <1>1, <1>13 DEF NodeList, Pending
<1>16. NotLost'
  <2>1. \A o : Observed(o)' <=> Observed(o)
    BY <1>1 DEF Observed
  <2>2. ASSUME op' = "ListUnhealthyWorkloads", NEW o \in Objects,
               Observed(o)', seen'[o] = {"unready"}
        PROVE  Pending(ListOf(o))' \/ o \in found' \/ partial'
    <3>1. Pending(ListOf(o)) \/ o \in found \/ partial
      BY <1>1, <2>1, <2>2 DEF IInv, NotLost
    <3>2. CASE ListOf(o) = Head(todo)
      <4>1. CASE o \in page /\ o \notin up
        <5>1. CASE o \in named
          BY <1>2, <5>1
        <5>2. CASE o \notin named
          BY <1>1, <1>3, <2>2, <4>1, <5>2
        <5> QED
          BY <5>1, <5>2
      <4> QED
        BY <1>1, <1>12, <2>2, <3>2, <4>1
    <3> QED
      BY <1>2, <1>3, <1>14, <3>1, <3>2
  <2>3. ASSUME op' = "ClusterHealth", NEW o \in Objects, seen'[o] = {"unready"}
        PROVE  Pending(ListOf(o))' \/ total' > ready' \/ partial'
    <3>1. Pending(ListOf(o)) \/ total > ready \/ partial
      BY <1>1, <2>3 DEF IInv, NotLost
    <3>2. CASE ListOf(o) = Head(todo)
      BY <1>1, <1>7, <1>12, <2>3, <3>2
    <3> QED
      BY <1>3, <1>7, <1>14, <3>1, <3>2
  <2>4. ASSUME op' = "ClusterHealth", NEW n \in Nodes, seen'[n] = {"unready"}
        PROVE  Pending(NodeList)' \/ badNodes' > 0 \/ partial'
    <3>1. Pending(NodeList) \/ badNodes > 0 \/ partial
      BY <1>1, <2>4 DEF IInv, NotLost
    <3> QED
      BY <1>2, <1>3, <1>15, <3>1
  <2> QED
    BY <2>2, <2>3, <2>4 DEF NotLost
<1> QED
  BY <1>9, <1>11, <1>16 DEF IInv

-----------------------------------------------------------------------------
(* The result. *)

(* An observation that ends keeps what it knew. *)
LEMMA EndFrame ==
    ASSUME IInv, Busy,
           UNCHANGED <<op, input, todo, found, total, ready, badNodes, partial,
                       seen, clusterVars>>,
           output'.kind \in {"error", "list", "health"},
           output'.kind = "list" => op = "ListUnhealthyWorkloads",
           PersistentUnhealthyListed', StatusIsTrue'
    PROVE  IInv'
<1>1. output' # NoOutput /\ op # "none" /\ output'.kind # "none"
  <2>1. output'.kind # "none"
    OBVIOUS
  <2> QED
    BY <2>1 DEF NoOutput, Busy
<1>2. ClusterTypes'
  BY DEF IInv, ClusterTypes, clusterVars
<1>3. ResultTypes'
  BY <1>1 DEF IInv, ResultTypes
<1>4. IdleInv' /\ SeenInv' /\ NotLost'
  BY <1>1 DEF IdleInv, SeenInv, NotLost, Busy
<1>5. FoundInv'
  BY DEF IInv, FoundInv, Observed
<1> QED
  BY <1>2, <1>3, <1>4, <1>5 DEF IInv

(* A failing list request ends the observation with an error, which claims  *)
(* nothing.                                                                 *)
LEMMA ListFailsIInv ==
    ASSUME IInv, ListFails
    PROVE  IInv'
<1>1. /\ Busy /\ output' = Error("source")
      /\ UNCHANGED <<op, input, todo, found, total, ready, badNodes, partial,
                     seen, clusterVars>>
  BY DEF ListFails
<1>2. output'.kind = "error"
  BY <1>1 DEF Error
<1>3. PersistentUnhealthyListed' /\ StatusIsTrue'
  BY <1>2 DEF PersistentUnhealthyListed, StatusIsTrue
<1> QED
  BY <1>1, <1>2, <1>3, EndFrame

(* With no request left, the status follows from the counts. *)
LEMMA FinishHealthIInv ==
    ASSUME IInv, FinishHealth
    PROVE  IInv'
<1>1. /\ Busy /\ op = "ClusterHealth" /\ todo = <<>>
      /\ output' = [kind |-> "health", status |-> Status, warnings |-> Warnings]
      /\ UNCHANGED <<op, input, todo, found, total, ready, badNodes, partial,
                     seen, clusterVars>>
  BY DEF FinishHealth
<1>2. output'.kind = "health" /\ output'.status = Status /\ output'.warnings = Warnings
  BY <1>1
<1>3. \A l : ~Pending(l)
  <2>1. DOMAIN todo = {}
    BY <1>1
  <2> QED
    BY <2>1 DEF Pending
<1>4. Status = "healthy" => ~partial /\ ~(badNodes > 0) /\ ~(total > ready)
  BY Zenon DEF Status
<1>5. Status = "degraded" => badNodes > 0 \/ total > ready
  BY Zenon DEF Status
<1>6. Status # "healthy" <=> Warnings # {}
  <2>1. CASE partial
    <3>1. Status = "unknown"
      BY <2>1, Zenon DEF Status
    <3>2. "partial-observation" \in Warnings
      BY <2>1 DEF Warnings
    <3> QED
      BY <3>1, <3>2
  <2>2. CASE ~partial /\ (badNodes > 0 \/ total > ready)
    <3>1. Status = "degraded"
      BY <2>2, Zenon DEF Status
    <3>2. Warnings # {}
      BY <2>2 DEF Warnings
    <3> QED
      BY <3>1, <3>2
  <2>3. CASE ~partial /\ ~(badNodes > 0 \/ total > ready)
    <3>1. Status = "healthy"
      BY <2>3, Zenon DEF Status
    <3>2. Warnings = {}
      BY <2>3 DEF Warnings
    <3> QED
      BY <3>1, <3>2
  <2> QED
    BY <2>1, <2>2, <2>3
<1>7. ASSUME Status = "healthy"
      PROVE  /\ \A n \in Nodes : seen[n] # {"unready"}
             /\ \A o \in Objects : seen[o] # {"unready"}
  BY <1>1, <1>3, <1>4, <1>7, Zenon DEF IInv, NotLost
<1>8. ASSUME Status = "degraded"
      PROVE  \E x \in Observable : "unready" \in seen[x]
  BY <1>5, <1>8, Zenon DEF IInv, FoundInv, Observable
<1>9. StatusIsTrue'
  <2>1. seen' = seen
    BY <1>1
  <2> QED
    BY <1>2, <1>6, <1>7, <1>8, <2>1 DEF StatusIsTrue
<1>10. PersistentUnhealthyListed'
  BY <1>2 DEF PersistentUnhealthyListed
<1> QED
  BY <1>1, <1>2, <1>9, <1>10, EndFrame

(* With no request left, what was unready all along was found, and only the *)
(* limit can have cut it.                                                   *)
LEMMA FinishListIInv ==
    ASSUME IInv, FinishList
    PROVE  IInv'
<1> DEFINE kept == FirstInOrder(found, input.limit)
<1>1. /\ Busy /\ op = "ListUnhealthyWorkloads" /\ todo = <<>>
      /\ UNCHANGED <<op, input, todo, found, total, ready, badNodes, partial,
                     seen, clusterVars>>
  BY DEF FinishList
<1>2. /\ output'.kind = "list" /\ output'.workloads = kept
      /\ output'.truncated = (partial \/ Cardinality(found) > input.limit)
  BY DEF FinishList
<1>3. \A l : ~Pending(l)
  <2>1. DOMAIN todo = {}
    BY <1>1
  <2> QED
    BY <2>1 DEF Pending
<1>4. found \in SUBSET Nat /\ IsFiniteSet(found) /\ input.limit \in Nat
  <2>1. found \in SUBSET Objects /\ input.limit \in Nat
    BY DEF IInv, ResultTypes
  <2> QED
    BY <2>1, ObserveAssumption, FS_Subset
<1>5. ASSUME NEW o \in Objects, Observed(o), seen[o] = {"unready"}, o \notin kept,
             ~partial
      PROVE  Cardinality(found) > input.limit /\ \A p \in kept : p < o
  <2>1. o \in found
    BY <1>1, <1>3, <1>5, Zenon DEF IInv, NotLost
  <2> QED
    BY <1>4, <1>5, <2>1, CutIsSuffix
<1> HIDE DEF kept
<1>6. PersistentUnhealthyListed'
  <2>1. (\A o : Observed(o)' <=> Observed(o)) /\ seen' = seen
    BY <1>1 DEF Observed
  <2>2. partial' <=> partial
    BY <1>1
  <2>3. ASSUME NEW o \in Objects, Observed(o)', seen'[o] = {"unready"},
               o \notin output'.workloads
        PROVE  /\ output'.truncated
               /\ ~partial' => \A p \in output'.workloads : p < o
    <3>1. Observed(o) /\ seen[o] = {"unready"} /\ o \notin kept
      BY <1>2, <2>1, <2>3
    <3> QED
      BY <1>2, <1>5, <2>2, <3>1, Zenon
  <2> QED
    BY <2>3 DEF PersistentUnhealthyListed
<1>7. StatusIsTrue'
  BY <1>2 DEF StatusIsTrue
<1> QED
  BY <1>1, <1>2, <1>6, <1>7, EndFrame

(* What an observation knew ends with it. *)
LEMMA ReturnIInv ==
    ASSUME IInv, Return
    PROVE  IInv'
<1>1. ClusterTypes'
  BY DEF Return, IInv, ClusterTypes
<1>2. /\ op' = "none" /\ input' = [scope |-> "", limit |-> 1]
      /\ output' = NoOutput
  BY DEF Return
<1>3. todo' = <<>> /\ found' = {} /\ partial' = FALSE
  BY DEF Return
<1>4. total' = 0 /\ ready' = 0 /\ badNodes' = 0
  BY DEF Return
<1>5. ResultTypes'
  <2>1. total' \in Nat /\ ready' \in Nat /\ badNodes' \in Nat
    BY ONLY <1>4
  <2>2. input'.limit \in Nat
    BY ONLY <1>2
  <2>3. todo' \in Seq(ListRequests) /\ found' \subseteq Objects
    BY <1>3, EmptySeq
  <2>4. /\ output'.kind = "none" /\ output' = NoOutput
    BY ONLY <1>2 DEF NoOutput
  <2> QED
    BY <1>2, <2>1, <2>2, <2>3, <2>4 DEF ResultTypes
<1>6. IdleInv' /\ SeenInv' /\ NotLost'
  BY ONLY <1>2, <1>3, <1>4 DEF IdleInv, SeenInv, NotLost, Busy
<1>7. FoundInv'
  <2>1. DOMAIN todo' = {}
    BY ONLY <1>3
  <2>2. ready' <= total' /\ ~(total' > ready') /\ ~(badNodes' > 0)
    BY ONLY <1>4
  <2> QED
    BY <1>3, <2>1, <2>2 DEF FoundInv
<1>8. PersistentUnhealthyListed' /\ StatusIsTrue'
  BY ONLY <1>2 DEF PersistentUnhealthyListed, StatusIsTrue, NoOutput
<1> QED
  BY <1>1, <1>5, <1>6, <1>7, <1>8 DEF IInv

-----------------------------------------------------------------------------
(* The cluster changes. *)

(* A change only adds to the history: what was unready all along now was    *)
(* unready all along before, and what was found unready still was.          *)
LEMMA HistoryGrows ==
    ASSUME IInv, Busy, ClusterTypes',
           UNCHANGED <<op, input, todo, found, total, ready, badNodes, partial,
                       output>>,
           \A x \in Observable :
              seen[x] \subseteq seen'[x] /\ Condition(x)' \in seen'[x]
    PROVE  IInv'
<1>1. ResultTypes'
  BY DEF IInv, ResultTypes
<1>2. IdleInv' /\ SeenInv' /\ Busy'
  BY DEF IInv, IdleInv, SeenInv, Busy
<1>3. \A x \in Observable : /\ seen'[x] = {"unready"} => seen[x] = {"unready"}
                            /\ "unready" \in seen[x] => "unready" \in seen'[x]
  BY DEF IInv, SeenInv
<1>4. (\A o : Observed(o)' <=> Observed(o)) /\ \A l : Pending(l)' <=> Pending(l)
  BY DEF Observed, Pending
<1>5. Objects \subseteq Observable /\ Nodes \subseteq Observable
  BY DEF Observable
<1>6. FoundInv'
  <2>1. \A o \in found' : Observed(o)' /\ "unready" \in seen'[o]
    BY <1>3, <1>4, <1>5 DEF IInv, FoundInv, ResultTypes
  <2>2. \A i \in DOMAIN todo' :
            todo'[i] = NodeList \/ input'.scope \in {"", todo'[i].scope}
    BY DEF IInv, FoundInv
  <2>3. /\ ready' <= total'
        /\ total' > ready' => \E o \in Objects : "unready" \in seen'[o]
        /\ badNodes' > 0 => \E n \in Nodes : "unready" \in seen'[n]
    BY <1>3, <1>5 DEF IInv, FoundInv
  <2> QED
    BY <2>1, <2>2, <2>3 DEF FoundInv
<1>7. NotLost'
  <2>1. ASSUME op' = "ListUnhealthyWorkloads", NEW o \in Objects,
               Observed(o)', seen'[o] = {"unready"}
        PROVE  Pending(ListOf(o))' \/ o \in found' \/ partial'
    <3>1. Pending(ListOf(o)) \/ o \in found \/ partial
      BY <1>3, <1>4, <1>5, <2>1 DEF IInv, NotLost
    <3> QED
      BY <3>1 DEF Pending, ListOf
  <2>2. ASSUME op' = "ClusterHealth", NEW o \in Objects, seen'[o] = {"unready"}
        PROVE  Pending(ListOf(o))' \/ total' > ready' \/ partial'
    <3>1. Pending(ListOf(o)) \/ total > ready \/ partial
      BY <1>3, <1>5, <2>2 DEF IInv, NotLost
    <3> QED
      BY <3>1 DEF Pending, ListOf
  <2>3. ASSUME op' = "ClusterHealth", NEW n \in Nodes, seen'[n] = {"unready"}
        PROVE  Pending(NodeList)' \/ badNodes' > 0 \/ partial'
    <3>1. Pending(NodeList) \/ badNodes > 0 \/ partial
      BY <1>3, <1>5, <2>3 DEF IInv, NotLost
    <3> QED
      BY <3>1 DEF Pending, NodeList
  <2> QED
    BY <2>1, <2>2, <2>3 DEF NotLost
<1>8. PersistentUnhealthyListed' /\ StatusIsTrue'
  <2>1. output'.kind = "none"
    BY DEF Busy, NoOutput
  <2> QED
    BY <2>1 DEF PersistentUnhealthyListed, StatusIsTrue
<1> QED
  BY <1>1, <1>2, <1>6, <1>7, <1>8 DEF IInv

(* A controller that changes enters its new condition in its history. *)
LEMMA ObjectChangesIInv ==
    ASSUME IInv, NEW o \in Objects, NEW i \in Items \cup {Absent},
           ObjectChanges(o, i)
    PROVE  IInv'
<1>1. /\ Busy /\ cluster' = [cluster EXCEPT ![o] = i] /\ nodes' = nodes
      /\ seen' = [seen EXCEPT ![o] = @ \cup {Condition(o)'}]
      /\ UNCHANGED <<op, input, todo, found, total, ready, badNodes, partial,
                     output>>
  BY DEF ObjectChanges
<1>2. /\ cluster \in [Objects -> Items \cup {Absent}]
      /\ nodes \in [Nodes -> Conditions]
      /\ seen \in [Observable -> SUBSET Conditions] /\ o \in Observable
  BY DEF IInv, ClusterTypes, Observable
<1>3. cluster' \in [Objects -> Items \cup {Absent}] /\ nodes' \in [Nodes -> Conditions]
  BY <1>1, <1>2
<1>4. Condition(o)' \in Conditions
  <2>1. Condition(o)' = ObjectCondition(o)'
    BY ObserveAssumption DEF Condition
  <2>2. ObjectCondition(o)' \in Conditions
    BY DEF ObjectCondition, Conditions
  <2> QED
    BY <2>1, <2>2
<1>5. ASSUME NEW x \in Observable, x # o PROVE Condition(x)' = Condition(x)
  <2>1. CASE x \in Nodes
    BY <1>1, <2>1 DEF Condition
  <2>2. CASE x \notin Nodes
    <3>1. x \in Objects
      BY <2>2 DEF Observable
    <3>2. cluster'[x] = cluster[x]
      BY <1>1, <1>2, <1>5, <3>1
    <3> QED
      BY <2>2, <3>2 DEF Condition, ObjectCondition
  <2> QED
    BY <2>1, <2>2
<1> DEFINE now == Condition(o)'
<1>6. /\ seen' = [seen EXCEPT ![o] = @ \cup {now}] /\ now \in Conditions
      /\ now = Condition(o)'
  BY <1>1, <1>4
<1> HIDE DEF now
<1>7. seen' \in [Observable -> SUBSET Conditions]
  BY <1>2, <1>6
<1>8. \A x \in Observable : seen[x] \subseteq seen'[x] /\ now \in seen'[o]
  BY <1>2, <1>6
<1>9. ASSUME NEW x \in Observable PROVE Condition(x)' \in seen'[x]
  <2>1. CASE x = o
    BY <1>6, <1>8, <2>1
  <2>2. CASE x # o
    BY <1>1, <1>5, <1>8, <2>2 DEF IInv, SeenInv
  <2> QED
    BY <2>1, <2>2
<1>10. ClusterTypes'
  BY <1>3, <1>7 DEF ClusterTypes
<1> QED
  BY <1>1, <1>8, <1>9, <1>10, HistoryGrows

(* A node that changes enters its new condition in its history. *)
LEMMA NodeChangesIInv ==
    ASSUME IInv, NEW n \in Nodes, NEW s \in {"absent", "ready", "unready"},
           NodeChanges(n, s)
    PROVE  IInv'
<1>1. /\ Busy /\ cluster' = cluster /\ nodes' = [nodes EXCEPT ![n] = s]
      /\ seen' = [seen EXCEPT ![n] = @ \cup {s}]
      /\ UNCHANGED <<op, input, todo, found, total, ready, badNodes, partial,
                     output>>
  BY DEF NodeChanges
<1>2. /\ cluster \in [Objects -> Items \cup {Absent}]
      /\ nodes \in [Nodes -> Conditions]
      /\ seen \in [Observable -> SUBSET Conditions] /\ n \in Observable
      /\ s \in Conditions
  BY DEF IInv, ClusterTypes, Observable, Conditions
<1>3. ClusterTypes'
  BY <1>1, <1>2 DEF ClusterTypes
<1>4. \A x \in Observable : seen[x] \subseteq seen'[x] /\ s \in seen'[n]
  BY <1>1, <1>2
<1>5. ASSUME NEW x \in Observable PROVE Condition(x)' \in seen'[x]
  <2>1. CASE x = n
    BY <1>1, <1>2, <1>4, <2>1 DEF Condition
  <2>2. CASE x # n
    <3>1. Condition(x)' = Condition(x)
      BY <1>1, <1>2, <2>2 DEF Condition, ObjectCondition
    <3> QED
      BY <1>1, <1>4, <3>1 DEF IInv, SeenInv
  <2> QED
    BY <2>1, <2>2
<1> QED
  BY <1>1, <1>3, <1>4, <1>5, HistoryGrows

-----------------------------------------------------------------------------
(* The theorems. *)

(* Every step of Next keeps IInv. *)
LEMMA NextIInv == IInv /\ [Next]_vars => IInv'
<1> SUFFICES ASSUME IInv, [Next]_vars PROVE IInv'
  OBVIOUS
<1>1. CASE ClusterHealth
  BY <1>1, ClusterHealthIInv
<1>2. CASE \E scope \in ConfiguredScopes \cup {"", "unknown"}, limit \in Limits :
              ListUnhealthyWorkloads(scope, limit)
  BY <1>2, ListUnhealthyWorkloadsIInv
<1>3. CASE \E page \in SUBSET Nodes : listNodes(page)
  BY <1>3, listNodesIInv
<1>4. CASE listControllers
  BY <1>4, listControllersIInv
<1>5. CASE ListFails
  BY <1>5, ListFailsIInv
<1>6. CASE FinishHealth
  BY <1>6, FinishHealthIInv
<1>7. CASE FinishList
  BY <1>7, FinishListIInv
<1>8. CASE Return
  BY <1>8, ReturnIInv
<1>9. CASE \E o \in Objects, i \in Items \cup {Absent} : ObjectChanges(o, i)
  BY <1>9, ObjectChangesIInv
<1>10. CASE \E n \in Nodes, s \in {"absent", "ready", "unready"} : NodeChanges(n, s)
  BY <1>10, NodeChangesIInv
<1>11. CASE UNCHANGED vars
  <2>1. ClusterTypes' /\ ResultTypes' /\ IdleInv'
    BY <1>11 DEF vars, IInv, ClusterTypes, ResultTypes, IdleInv
  <2>2. SeenInv' /\ FoundInv' /\ NotLost'
    BY <1>11 DEF vars, IInv, SeenInv, FoundInv, NotLost, Busy, Condition,
       ObjectCondition, Observed, Pending, ListOf, NodeList
  <2>3. PersistentUnhealthyListed' /\ StatusIsTrue'
    BY <1>11 DEF vars, IInv, PersistentUnhealthyListed, StatusIsTrue, Observed
  <2> QED
    BY <2>1, <2>2, <2>3 DEF IInv
<1> QED
  BY <1>1, <1>2, <1>3, <1>4, <1>5, <1>6, <1>7, <1>8, <1>9, <1>10, <1>11 DEF Next

(* Nothing that was unready all along gets lost on its way through the      *)
(* pages of an observation, whatever changes meanwhile.                     *)
THEOREM Invariance == Spec => []IInv
<1>1. Init => IInv
  BY InitIInv
<1>2. IInv /\ [Next]_vars => IInv'
  BY NextIInv
<1> QED
  BY <1>1, <1>2, PTL DEF Spec

(* A controller that was unhealthy all through ListUnhealthyWorkloads is in *)
(* the answer, or the answer says that it is truncated; without a partial   *)
(* page it comes after everything that is in the answer.                    *)
THEOREM UnhealthyListed == Spec => []PersistentUnhealthyListed
<1>1. IInv => PersistentUnhealthyListed
  BY DEF IInv
<1> QED
  BY <1>1, Invariance, PTL

(* The status that ClusterHealth reports is not contradicted by anything    *)
(* that was so all through the observation.                                 *)
THEOREM StatusTrue == Spec => []StatusIsTrue
<1>1. IInv => StatusIsTrue
  BY DEF IInv
<1> QED
  BY <1>1, Invariance, PTL

-----------------------------------------------------------------------------
(* The list implements BoundedList. *)

(* The variables of BoundedList, under the mapping of Abstract. *)
theCondition == [o \in Objects |-> ObjectCondition(o)]
theRequest == IF Listing
              THEN [kind |-> "request", limit |-> input.limit,
                    selected |-> {o \in Objects : Observed(o)}]
              ELSE [kind |-> "none"]
theSince == [o \in Objects |-> IF Listing THEN seen[o] ELSE {}]
theAnswer == IF Listing /\ output.kind = "list"
             THEN [kind |-> "list", named |-> output.workloads,
                   truncated |-> output.truncated]
             ELSE [kind |-> IF Listing THEN output.kind ELSE "none"]

(* The steps of BoundedList, in terms of them. *)
LEMMA AskStep ==
    ASSUME theRequest = [kind |-> "none"],
           theRequest'.kind = "request", theRequest'.limit \in Nat,
           theRequest'.selected \subseteq Objects,
           theSince' = [o \in Objects |-> {theCondition[o]}],
           theAnswer' \in {[kind |-> "none"], [kind |-> "error"]},
           theCondition' = theCondition
    PROVE  Abstract!Next
BY DEF Abstract!Next, Abstract!Ask, Abstract!NoRequest, Abstract!NoAnswer,
   Abstract!Failed, Abstract!IsRequest,
   theCondition, theRequest, theSince, theAnswer

(* A step that changes nothing of the mapping is a stutter of BoundedList. *)
LEMMA StutterStep ==
    ASSUME theCondition' = theCondition, theRequest' = theRequest,
           theSince' = theSince, theAnswer' = theAnswer
    PROVE  UNCHANGED Abstract!vars
BY DEF Abstract!vars, theCondition, theRequest, theSince, theAnswer

(* An error as the answer to a request is a step of BoundedList. *)
LEMMA FailStep ==
    ASSUME theRequest # [kind |-> "none"], theAnswer = [kind |-> "none"],
           theAnswer' = [kind |-> "error"],
           theCondition' = theCondition, theRequest' = theRequest,
           theSince' = theSince
    PROVE  Abstract!Next
BY DEF Abstract!Next, Abstract!Fail, Abstract!NoRequest, Abstract!NoAnswer,
   Abstract!Failed, theCondition, theRequest, theSince, theAnswer

(* To take the answer and forget the request is a step of BoundedList. *)
LEMMA DoneStep ==
    ASSUME theAnswer # [kind |-> "none"],
           theRequest' = [kind |-> "none"], theAnswer' = [kind |-> "none"],
           theSince' = [o \in Objects |-> {}], theCondition' = theCondition
    PROVE  Abstract!Next
BY DEF Abstract!Next, Abstract!Done, Abstract!NoRequest, Abstract!NoAnswer,
   theCondition, theRequest, theSince, theAnswer

(* A change of one object, noted in its history if there is a request, is a *)
(* step of BoundedList.                                                     *)
LEMMA ChangeStep ==
    ASSUME NEW o \in Objects, NEW c \in Conditions,
           theCondition' = [theCondition EXCEPT ![o] = c],
           theSince' = IF theRequest = [kind |-> "none"] THEN theSince
                       ELSE [theSince EXCEPT ![o] = @ \cup {c}],
           theRequest' = theRequest, theAnswer' = theAnswer
    PROVE  Abstract!Next
<1>1. Abstract!Change(o, c)
  BY DEF Abstract!Change, Abstract!NoRequest,
     theCondition, theRequest, theSince, theAnswer
<1> QED
  BY <1>1 DEF Abstract!Next, Abstract!Conditions, Conditions

(* Cardinality of the instance is Cardinality. *)
LEMMA SameCardinality == \A S : Abstract!Cardinality(S) = Cardinality(S)
BY DEF Cardinality, Abstract!Cardinality

(* An answer that keeps the promise is a step of BoundedList. *)
LEMMA AnswerStep ==
    ASSUME NEW named \in SUBSET Objects, NEW truncated \in BOOLEAN,
           Listing, theAnswer = [kind |-> "none"],
           Cardinality(named) <= input.limit,
           \A o \in named : Observed(o) /\ "unready" \in seen[o],
           ~truncated => \A o \in Objects :
                            Observed(o) /\ seen[o] = {"unready"} => o \in named,
           theAnswer' = [kind |-> "list", named |-> named, truncated |-> truncated],
           theCondition' = theCondition, theRequest' = theRequest,
           theSince' = theSince
    PROVE  Abstract!Next
<1> DEFINE request == IF Listing
                      THEN [kind |-> "request", limit |-> input.limit,
                            selected |-> {o \in Objects : Observed(o)}]
                      ELSE [kind |-> "none"]
           since == [o \in Objects |-> IF Listing THEN seen[o] ELSE {}]
<1>1. request.limit = input.limit /\ request # [kind |-> "none"]
      /\ request.selected = {o \in Objects : Observed(o)}
  <2>1. request = [kind |-> "request", limit |-> input.limit,
                   selected |-> {o \in Objects : Observed(o)}]
    OBVIOUS
  <2> HIDE DEF request
  <2>2. request.kind = "request"
    BY <2>1
  <2>3. request # [kind |-> "none"]
    BY ONLY <2>2
  <2> QED
    BY <2>1, <2>3
<1>2. \A o \in Objects : since[o] = seen[o]
  OBVIOUS
<1> HIDE DEF request, since
<1>3. /\ Cardinality(named) <= request.limit /\ request # [kind |-> "none"]
      /\ \A o \in named : o \in request.selected /\ "unready" \in since[o]
      /\ ~truncated => \A o \in request.selected :
                          since[o] = {"unready"} => o \in named
  BY <1>1, <1>2
<1>4. /\ theAnswer = [kind |-> "none"]
      /\ theAnswer' = [kind |-> "list", named |-> named, truncated |-> truncated]
      /\ UNCHANGED <<theCondition, theRequest, theSince>>
  OBVIOUS
<1>5. Abstract!Answer(named, truncated)
  BY ONLY <1>3, <1>4, SameCardinality DEF request, since,
     Abstract!Answer, Abstract!NoRequest, Abstract!NoAnswer,
     theCondition, theRequest, theSince, theAnswer
<1> QED
  BY <1>5 DEF Abstract!Next

(* Outside of a list observation, BoundedList is idle. *)
LEMMA NotListing ==
    ASSUME ~Listing
    PROVE  /\ theRequest = [kind |-> "none"] /\ theAnswer = [kind |-> "none"]
           /\ theSince = [o \in Objects |-> {}]
BY DEF theRequest, theAnswer, theSince

(* Within one, it has a request, and an answer when there is a result. *)
LEMMA InListing ==
    ASSUME Listing
    PROVE  /\ theRequest = [kind |-> "request", limit |-> input.limit,
                            selected |-> {o \in Objects : Observed(o)}]
           /\ theRequest # [kind |-> "none"]
           /\ theSince = [o \in Objects |-> seen[o]]
           /\ output.kind # "list" => theAnswer = [kind |-> output.kind]
           /\ output.kind = "list" =>
                 theAnswer = [kind |-> "list", named |-> output.workloads,
                              truncated |-> output.truncated]
<1>1. theRequest = [kind |-> "request", limit |-> input.limit,
                    selected |-> {o \in Objects : Observed(o)}]
  BY DEF theRequest
<1>2. theRequest.kind = "request"
  BY <1>1
<1>3. theRequest # [kind |-> "none"]
  BY ONLY <1>2
<1> QED
  BY <1>1, <1>3 DEF theSince, theAnswer

(* Steps that BoundedList does not see. *)
LEMMA HiddenStep ==
    ASSUME cluster' = cluster,
           \/ ~Listing /\ ~Listing'
           \/ UNCHANGED <<op, input, output, seen>>
    PROVE  UNCHANGED Abstract!vars
<1>1. theCondition' = theCondition
  BY DEF theCondition, ObjectCondition
<1>2. theRequest' = theRequest /\ theSince' = theSince /\ theAnswer' = theAnswer
  <2>1. CASE ~Listing /\ ~Listing'
    BY <2>1 DEF theRequest, theSince, theAnswer
  <2>2. CASE UNCHANGED <<op, input, output, seen>>
    BY <2>2 DEF theRequest, theSince, theAnswer, Listing, Observed
  <2> QED
    BY <2>1, <2>2
<1> QED
  BY <1>1, <1>2, StutterStep

(* The call that begins a list observation is a request. *)
LEMMA ListUnhealthyWorkloadsAsks ==
    ASSUME IInv, IInv', NEW scope \in ConfiguredScopes \cup {"", "unknown"},
           NEW limit \in Limits, ListUnhealthyWorkloads(scope, limit)
    PROVE  Abstract!Next
<1>1. /\ op = "none" /\ op' = "ListUnhealthyWorkloads" /\ cluster' = cluster
      /\ seen' = [x \in Observable |-> {Condition(x)}]
      /\ output' = output \/ output' = Error("ErrUnknownScope")
  BY DEF ListUnhealthyWorkloads, Begin, clusterVars
<1>2. ~Listing /\ Listing'
  BY <1>1 DEF Listing
<1>3. output'.kind \in {"none", "error"}
  <2>1. output = NoOutput
    BY <1>1 DEF IInv, IdleInv
  <2>2. CASE output' = output
    BY ONLY <2>1, <2>2 DEF NoOutput
  <2>3. CASE output' = Error("ErrUnknownScope")
    BY ONLY <2>3 DEF Error
  <2> QED
    BY <1>1, <2>2, <2>3
<1>4. /\ theRequest = [kind |-> "none"] /\ theCondition' = theCondition
  BY <1>1, <1>2, NotListing DEF theCondition, ObjectCondition
<1>5. theAnswer' \in {[kind |-> "none"], [kind |-> "error"]}
  <2>1. theAnswer' = [kind |-> output'.kind]
    BY <1>2, <1>3 DEF theAnswer
  <2> QED
    BY <1>3, <2>1
<1>6. theSince' = [o \in Objects |-> {theCondition[o]}]
  <2>1. theSince' = [o \in Objects |-> seen'[o]]
    BY <1>2 DEF theSince
  <2>2. \A o \in Objects : seen'[o] = {Condition(o)}
    BY <1>1 DEF Observable
  <2>3. \A o \in Objects : Condition(o) = theCondition[o]
    BY ConditionFacts DEF IInv, theCondition
  <2> QED
    BY <2>1, <2>2, <2>3
<1>7. /\ theRequest'.kind = "request" /\ theRequest'.limit \in Nat
      /\ theRequest'.selected \subseteq Objects
  <2>1. theRequest' = [kind |-> "request", limit |-> input'.limit,
                       selected |-> {o \in Objects : Observed(o)'}]
    BY <1>2 DEF theRequest
  <2>2. input'.limit \in Nat
    BY DEF IInv, ResultTypes
  <2> QED
    BY <2>1, <2>2
<1> QED
  BY <1>4, <1>5, <1>6, <1>7, AskStep

(* A failed request fails the list. *)
LEMMA ListFailsFails ==
    ASSUME IInv, ListFails
    PROVE  Abstract!Next \/ UNCHANGED Abstract!vars
<1>1. /\ output = NoOutput /\ output' = Error("source") /\ cluster' = cluster
      /\ UNCHANGED <<op, input, seen>>
  BY DEF ListFails, Busy, clusterVars
<1>2. Listing' <=> Listing
  BY <1>1 DEF Listing
<1>3. CASE ~Listing
  BY <1>1, <1>2, <1>3, HiddenStep
<1>4. CASE Listing
  <2>1. output.kind = "none" /\ output'.kind = "error"
    BY <1>1 DEF NoOutput, Error
  <2>2. theAnswer = [kind |-> "none"] /\ theAnswer' = [kind |-> "error"]
    BY <1>2, <1>4, <2>1 DEF theAnswer
  <2>3. theCondition' = theCondition /\ theSince' = theSince
    BY <1>1, <1>2 DEF theCondition, ObjectCondition, theSince
  <2>4. theRequest' = theRequest /\ theRequest # [kind |-> "none"]
    BY <1>1, <1>2, <1>4, InListing DEF theRequest, Observed
  <2> QED
    BY <2>2, <2>3, <2>4, FailStep
<1> QED
  BY <1>3, <1>4

(* The sorted and cut list is an answer. *)
LEMMA FinishListAnswers ==
    ASSUME IInv, IInv', FinishList
    PROVE  Abstract!Next
<1> DEFINE named == FirstInOrder(found, input.limit)
           truncated == partial \/ Cardinality(found) > input.limit
<1>1. /\ output = NoOutput /\ Listing /\ cluster' = cluster
      /\ UNCHANGED <<op, input, seen, found, partial>>
  BY DEF FinishList, Busy, clusterVars, Listing
<1>2. /\ output'.kind = "list" /\ output'.workloads = named
      /\ output'.truncated = truncated
  BY DEF FinishList
<1>3. Listing'
  BY <1>1 DEF Listing
<1>4. found \in SUBSET Objects /\ found \in SUBSET Nat /\ IsFiniteSet(found)
      /\ input.limit \in Nat
  <2>1. found \in SUBSET Objects /\ input.limit \in Nat
    BY DEF IInv, ResultTypes
  <2> QED
    BY <2>1, ObserveAssumption, FS_Subset
<1>5. named \in SUBSET found /\ Cardinality(named) <= input.limit
  <2>1. named \in SUBSET found
    BY DEF FirstInOrder
  <2> QED
    BY <1>4, <2>1, AtMostLimit
<1>6. truncated \in BOOLEAN
  OBVIOUS
<1> HIDE DEF named, truncated
<1>7. \A o \in named : Observed(o) /\ "unready" \in seen[o]
  BY <1>5 DEF IInv, FoundInv
<1>8. ~truncated => \A o \in Objects :
                      Observed(o) /\ seen[o] = {"unready"} => o \in named
  <2>1. \A o \in Objects : Observed(o)' /\ seen'[o] = {"unready"} /\ o \notin named
                            => truncated
    BY <1>2 DEF IInv, PersistentUnhealthyListed
  <2>2. \A o : Observed(o)' <=> Observed(o)
    BY <1>1 DEF Observed
  <2> QED
    BY <1>1, <2>1, <2>2
<1>9. theAnswer = [kind |-> "none"]
      /\ theAnswer' = [kind |-> "list", named |-> named, truncated |-> truncated]
  <2>1. output.kind = "none"
    BY <1>1 DEF NoOutput
  <2> QED
    BY <1>1, <1>2, <1>3, <2>1 DEF theAnswer
<1>10. theCondition' = theCondition /\ theRequest' = theRequest /\ theSince' = theSince
  BY <1>1 DEF theCondition, ObjectCondition, theRequest, theSince, Listing, Observed
<1>11. named \in SUBSET Objects
  BY <1>4, <1>5
<1> QED
  BY <1>1, <1>5, <1>6, <1>7, <1>8, <1>9, <1>10, <1>11, AnswerStep

(* After the result has been returned, there is no request. *)
LEMMA ReturnDone ==
    ASSUME IInv, Return
    PROVE  Abstract!Next \/ UNCHANGED Abstract!vars
<1>1. output # NoOutput /\ cluster' = cluster /\ op' = "none"
  BY DEF Return
<1>2. ~Listing'
  BY <1>1 DEF Listing
<1>3. CASE ~Listing
  BY <1>1, <1>2, <1>3, HiddenStep
<1>4. CASE Listing
  <2>1. output.kind # "none"
    BY <1>1 DEF IInv, ResultTypes
  <2>2. theAnswer # [kind |-> "none"]
    <3>1. theAnswer.kind = output.kind
      <4>1. CASE output.kind = "list"
        BY <1>4, <4>1, InListing
      <4>2. CASE output.kind # "list"
        BY <1>4, <4>2, InListing
      <4> QED
        BY <4>1, <4>2
    <3> QED
      BY <2>1, <3>1
  <2>3. /\ theRequest' = [kind |-> "none"] /\ theAnswer' = [kind |-> "none"]
        /\ theSince' = [o \in Objects |-> {}]
    BY <1>2 DEF theRequest, theAnswer, theSince
  <2>4. theCondition' = theCondition
    BY <1>1 DEF theCondition, ObjectCondition
  <2> QED
    BY <2>2, <2>3, <2>4, DoneStep
<1> QED
  BY <1>3, <1>4

(* A change of a controller is a change, in the history of a list           *)
(* observation or outside of one.                                           *)
LEMMA ObjectChangesChanges ==
    ASSUME IInv, IInv', NEW o \in Objects, NEW i \in Items \cup {Absent},
           ObjectChanges(o, i)
    PROVE  Abstract!Next
<1> DEFINE c == ObjectCondition(o)'
<1>1. /\ cluster' = [cluster EXCEPT ![o] = i]
      /\ seen' = [seen EXCEPT ![o] = @ \cup {Condition(o)'}]
      /\ UNCHANGED <<op, input, output>>
  BY DEF ObjectChanges
<1>2. /\ cluster \in [Objects -> Items \cup {Absent}]
      /\ seen \in [Observable -> SUBSET Conditions] /\ Objects \subseteq Observable
  BY DEF IInv, ClusterTypes, Observable
<1>3. Condition(o)' = c
  BY ObserveAssumption DEF Condition
<1>4. c \in Conditions
  BY DEF ObjectCondition, Conditions
<1>5. theCondition' = [theCondition EXCEPT ![o] = c]
  <2>1. ASSUME NEW x \in Objects, x # o
        PROVE  ObjectCondition(x)' = ObjectCondition(x)
    <3>1. cluster'[x] = cluster[x]
      BY <1>1, <1>2, <2>1
    <3> QED
      BY <3>1 DEF ObjectCondition
  <2>2. theCondition' = [x \in Objects |-> ObjectCondition(x)']
    BY DEF theCondition
  <2>3. theCondition = [x \in Objects |-> ObjectCondition(x)]
    BY DEF theCondition
  <2>4. \A x \in Objects : ObjectCondition(x)' =
                             IF x = o THEN c ELSE ObjectCondition(x)
    BY <2>1
  <2> HIDE DEF c
  <2> QED
    BY <2>2, <2>3, <2>4
<1> HIDE DEF c
<1>6. theRequest' = theRequest /\ theAnswer' = theAnswer /\ (Listing' <=> Listing)
  BY <1>1 DEF theRequest, theAnswer, Listing, Observed
<1>7. theSince' = IF theRequest = [kind |-> "none"] THEN theSince
                  ELSE [theSince EXCEPT ![o] = @ \cup {c}]
  <2>1. CASE Listing
    <3>1. theSince = [x \in Objects |-> seen[x]] /\ theSince' = [x \in Objects |-> seen'[x]]
      BY <1>6, <2>1 DEF theSince
    <3>2. \A x \in Objects : seen'[x] = IF x = o THEN seen[x] \cup {c} ELSE seen[x]
      BY <1>1, <1>2, <1>3
    <3>3. theSince' = [theSince EXCEPT ![o] = @ \cup {c}]
      BY <3>1, <3>2
    <3> QED
      BY <2>1, <3>3, InListing
  <2>2. CASE ~Listing
    BY <1>6, <2>2, NotListing DEF theSince
  <2> QED
    BY <2>1, <2>2
<1> QED
  BY <1>4, <1>5, <1>6, <1>7, ChangeStep

(* A node is not in the list. *)
LEMMA NodeChangesHidden ==
    ASSUME IInv, NEW n \in Nodes, NEW s \in {"absent", "ready", "unready"},
           NodeChanges(n, s)
    PROVE  UNCHANGED Abstract!vars
<1>1. /\ cluster' = cluster /\ seen' = [seen EXCEPT ![n] = @ \cup {s}]
      /\ UNCHANGED <<op, input, output>>
  BY DEF NodeChanges
<1>2. \A o \in Objects : seen'[o] = seen[o]
  BY <1>1, ObserveAssumption DEF IInv, ClusterTypes, Observable
<1>3. theCondition' = theCondition /\ theSince' = theSince
  BY <1>1, <1>2 DEF theCondition, ObjectCondition, theSince, Listing
<1>4. theRequest' = theRequest /\ theAnswer' = theAnswer
  BY <1>1 DEF theRequest, theAnswer, Listing, Observed
<1> QED
  BY <1>3, <1>4, StutterStep

(* Every step implements a step of BoundedList or none. *)
LEMMA StepImplements ==
    ASSUME IInv, IInv', [Next]_vars
    PROVE  Abstract!Next \/ UNCHANGED Abstract!vars
<1>1. CASE ClusterHealth
  <2>1. cluster' = cluster /\ op = "none" /\ op' = "ClusterHealth"
    BY <1>1 DEF ClusterHealth, Begin, clusterVars
  <2> QED
    BY <2>1, HiddenStep DEF Listing
<1>2. CASE \E scope \in ConfiguredScopes \cup {"", "unknown"}, limit \in Limits :
              ListUnhealthyWorkloads(scope, limit)
  BY <1>2, ListUnhealthyWorkloadsAsks
<1>3. CASE \E page \in SUBSET Nodes : listNodes(page)
  BY <1>3, HiddenStep DEF listNodes, clusterVars
<1>4. CASE listControllers
  BY <1>4, HiddenStep DEF listControllers, clusterVars
<1>5. CASE ListFails
  BY <1>5, ListFailsFails
<1>6. CASE FinishHealth
  <2>1. cluster' = cluster /\ op = "ClusterHealth" /\ op' = op
    BY <1>6 DEF FinishHealth, clusterVars
  <2> QED
    BY <2>1, HiddenStep DEF Listing
<1>7. CASE FinishList
  BY <1>7, FinishListAnswers
<1>8. CASE Return
  BY <1>8, ReturnDone
<1>9. CASE \E o \in Objects, i \in Items \cup {Absent} : ObjectChanges(o, i)
  BY <1>9, ObjectChangesChanges
<1>10. CASE \E n \in Nodes, s \in {"absent", "ready", "unready"} : NodeChanges(n, s)
  BY <1>10, NodeChangesHidden
<1>11. CASE UNCHANGED vars
  BY <1>11, HiddenStep DEF vars
<1> QED
  BY <1>1, <1>2, <1>3, <1>4, <1>5, <1>6, <1>7, <1>8, <1>9, <1>10, <1>11 DEF Next

(* The initial states are initial states of BoundedList. *)
LEMMA InitImplements == Init => Abstract!Init
<1> SUFFICES ASSUME Init PROVE Abstract!Init
  OBVIOUS
<1>1. ~Listing
  BY DEF Init, Listing
<1>2. /\ theRequest = [kind |-> "none"] /\ theAnswer = [kind |-> "none"]
      /\ theSince = [o \in Objects |-> {}]
  BY <1>1, NotListing
<1>3. theCondition \in [Objects -> Conditions]
  BY InitIInv, ConditionFacts DEF IInv, theCondition
<1> QED
  BY ONLY <1>2, <1>3 DEF Abstract!Init, Abstract!NoRequest, Abstract!NoAnswer,
     Abstract!Conditions, Conditions, theCondition, theRequest, theSince, theAnswer

(* ListUnhealthyWorkloads keeps the promise of a bounded list: at most      *)
(* limit entries, each of them unready at some moment of the observation,   *)
(* and without the truncated flag nothing that was unready all along is     *)
(* missing.                                                                 *)
THEOREM ListImplementsPromise == Spec => ImplementsBoundedList
<1>1. Init => Abstract!Init
  BY InitImplements
<1>2. IInv /\ IInv' /\ [Next]_vars => [Abstract!Next]_(Abstract!vars)
  BY StepImplements
<1> QED
  BY <1>1, <1>2, Invariance, PTL DEF Spec, ImplementsBoundedList, Abstract!SafeSpec

=============================================================================
