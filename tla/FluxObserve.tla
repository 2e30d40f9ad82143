---------------------------- MODULE FluxObserve ----------------------------
(***************************************************************************)
(* The Flux observation (internal/flux/observe.go) with the normalisation  *)
(* of its input, against objects that change between its list requests.    *)
(*                                                                         *)
(* One page of each of three kinds is read in every selected scope; the    *)
(* first request that fails ends the observation.  Requests are atomic     *)
(* here; SourceRequest models them.  The result, 50 entries of bounded     *)
(* fields, is never too large; but it cannot be encoded with a transition  *)
(* time that lies, in UTC, outside the years 0 to 9999.                    *)
(***************************************************************************)
EXTENDS InputPolicy, FiniteSets, Sequences

CONSTANTS
    Objects,     \* Flux objects, numbered by the sort key scope/kind/name
    ScopeOf,     \* object -> identifier of the scope it lies in
    KindOf,      \* object -> kind
    BadNames,    \* objects whose name validObjectName rejects
    Items,       \* status.conditions that the API can report of an object
    Scopes,      \* configured scopes, as selectedScopes("") sorts them
    Target,      \* c.targetID
    Inputs,      \* values of the tool's input
    ResourceListLimit, \* objects on one page of a list
    MaxChanges,  \* bound: changes of the objects during one observation
    Absent       \* version of an object that does not exist

reconciliationResources == <<"Kustomization", "HelmRelease", "GitRepository">>
Kinds == {reconciliationResources[i] : i \in DOMAIN reconciliationResources}
ConfiguredScopes == {Scopes[i] : i \in DOMAIN Scopes}

(* Scopes are the keys of a map, so they differ; a version is a sequence of *)
(* conditions.                                                              *)
ASSUME FluxAssumption ==
    /\ IsFiniteSet(Objects) /\ Objects \subseteq Nat
    /\ Scopes \in Seq(ConfiguredScopes)
    /\ \A i, j \in DOMAIN Scopes : Scopes[i] = Scopes[j] => i = j
    /\ \A o \in Objects : ScopeOf[o] \in ConfiguredScopes /\ KindOf[o] \in Kinds
    /\ BadNames \subseteq Objects
    /\ ResourceListLimit \in Nat \ {0}
    /\ MaxChanges \in Nat
    /\ Absent \notin Items
    /\ \A v \in Items : DOMAIN v = 1 .. Len(v) /\ Len(v) \in Nat

Versions == Items \cup {Absent}

VARIABLES
    cluster,  \* object -> its version
    changes,  \* changes of the cluster since the observation began
    input,    \* the normalized input, or NoInput
    todo,     \* list requests still to be made
    found,    \* entries collected so far
    partial,  \* result.Truncated
    output,   \* the result, once there is one
    seen      \* history: versions of the objects since the start

vars == <<cluster, changes, input, todo, found, partial, output, seen>>

NoInput == [kind |-> "none"]
NoOutput == [kind |-> "none"]
Error(e) == [kind |-> "error", err |-> e]

-----------------------------------------------------------------------------
(* Input. *)

Normalizes(in) ==
    /\ ValidateIdentifier(in.target)
    /\ in.scope # "" => ValidateIdentifier(in.scope)
    /\ normalizeListLimit(in.limit) # 0

selectedScopes(scope) == IF scope # "" THEN <<scope>> ELSE Scopes

Refusal(in) ==
    IF ~Normalizes(in) THEN Error("ValidationError")
    ELSE IF in.target # Target THEN Error("target is not configured")
    ELSE IF in.scope \notin ConfiguredScopes \cup {""}
         THEN Error("ErrUnknownScope") ELSE NoOutput

-----------------------------------------------------------------------------
(* Readiness. *)

(* Mutant of reconciliationHealth: the first condition of any type decides. *)
reconciliationHealthAnyType(item) ==
    [ready |-> item # <<>> /\ item[1].status = "True",
     state |-> IF item # <<>> /\ item[1].status = "False" THEN "false" ELSE "unknown",
     reason |-> "unknown", encodable |-> TRUE]

(* The first Ready condition decides.  Of its transition time, if any, only *)
(* matters whether it can be encoded.                                       *)
reconciliationHealth(item) ==
    LET readyAt == {i \in DOMAIN item : item[i].type = "Ready"}
        c == item[CHOOSE i \in readyAt : \A j \in readyAt : i <= j]
    IN IF readyAt = {}
       THEN [ready |-> FALSE, state |-> "unknown", reason |-> "unknown",
             encodable |-> TRUE]
       ELSE [ready |-> c.status = "True",
             state |-> IF c.status = "False" THEN "false" ELSE "unknown",
             reason |-> NormalizeReconciliationReason(c.reason),
             encodable |-> c.encodable]

(* The condition of a version, stated without the code: it is ready when a  *)
(* Ready condition is true and no other comes before it.                    *)
ConditionOf(v) ==
    IF v = Absent THEN "absent"
    ELSE IF \E i \in DOMAIN v : /\ v[i].type = "Ready" /\ v[i].status = "True"
                                /\ \A j \in DOMAIN v : j < i => v[j].type # "Ready"
         THEN "ready" ELSE "unready"

-----------------------------------------------------------------------------
(* The observation. *)

(* In each scope, the kinds in the order of reconciliationResources. *)
Lists(scopes) ==
    [n \in 1 .. 3 * Len(scopes) |->
        [scope |-> scopes[1 + ((n - 1) \div 3)],
         kind |-> reconciliationResources[1 + ((n - 1) % 3)]]]

Init ==
    /\ cluster \in [Objects -> Versions]
    /\ changes = 0 /\ input = NoInput /\ todo = <<>>
    /\ found = {} /\ partial = FALSE /\ output = NoOutput
    /\ seen = [o \in Objects |-> {}]

ListUnhealthyReconciliations(in) ==
    /\ input = NoInput
    /\ input' = [kind |-> "input", scope |-> in.scope,
                 limit |-> normalizeListLimit(in.limit)]
    /\ output' = Refusal(in)
    /\ todo' = IF Refusal(in) = NoOutput THEN Lists(selectedScopes(in.scope))
               ELSE <<>>
    /\ seen' = [o \in Objects |-> {cluster[o]}]
    /\ UNCHANGED <<cluster, changes, found, partial>>

Busy == input # NoInput /\ output = NoOutput

(* The API returns the first page of the objects that exist now. *)
Present(l) == {o \in Objects : /\ cluster[o] # Absent
                               /\ ScopeOf[o] = l.scope /\ KindOf[o] = l.kind}
Page(S) == {o \in S : Cardinality({p \in S : p < o}) < ResourceListLimit}

Entry(o) ==
    LET health == reconciliationHealth(cluster[o]) IN
    [object |-> o, state |-> health.state, reason |-> health.reason,
     encodable |-> health.encodable]

(* Mutant of Omits: an object with a bad name is dropped silently. *)
OmitsByPageOnly(present, bad) == Page(present) # present

(* Was something left out that the client cannot see? *)
Omits(present, bad) == Page(present) # present \/ bad \cap BadNames # {}

listResources ==
    /\ Busy /\ todo # <<>>
    /\ LET present == Present(Head(todo))
           bad == {o \in Page(present) : ~reconciliationHealth(cluster[o]).ready}
       IN
       /\ found' = found \cup {Entry(o) : o \in bad \ BadNames}
       /\ partial' = (partial \/ Omits(present, bad))
    /\ todo' = Tail(todo)
    /\ UNCHANGED <<cluster, changes, input, output, seen>>

(* A request fails, or its body is not a list. *)
ListFails ==
    /\ Busy /\ todo # <<>>
    /\ output' = Error("source")
    /\ UNCHANGED <<cluster, changes, input, todo, found, partial, seen>>

(* Mutant of FirstInOrder: the entries are cut before they are sorted, in   *)
(* the order of the requests.                                               *)
FirstInOrderUnsorted(S, limit) ==
    LET rank(e) == CHOOSE n \in 1 .. 3 * Len(Scopes) :
                     Lists(Scopes)[n] = [scope |-> ScopeOf[e.object],
                                         kind |-> KindOf[e.object]]
    IN {e \in S : Cardinality({f \in S :
          \/ rank(f) < rank(e)
          \/ rank(f) = rank(e) /\ f.object < e.object}) < limit}

(* Sorting and cutting: the limit smallest entries. *)
FirstInOrder(S, limit) ==
    {e \in S : Cardinality({f \in S : f.object < e.object}) < limit}

Finish ==
    /\ Busy /\ todo = <<>>
    /\ LET kept == FirstInOrder(found, input.limit) IN
       output' = IF \E e \in kept : ~e.encodable
                 THEN Error("encode_observation")
                 ELSE [kind |-> "list", reconciliations |-> kept,
                       truncated |-> partial \/ Cardinality(found) > input.limit]
    /\ UNCHANGED <<cluster, changes, input, todo, found, partial, seen>>

Return ==
    /\ output # NoOutput
    /\ input' = NoInput /\ todo' = <<>> /\ found' = {} /\ partial' = FALSE
    /\ output' = NoOutput /\ changes' = 0
    /\ seen' = [o \in Objects |-> {}]
    /\ UNCHANGED cluster

(* Changes between observations lead to a state that Init also allows. *)
ObjectChanges(o, v) ==
    /\ Busy /\ changes < MaxChanges /\ cluster[o] # v
    /\ cluster' = [cluster EXCEPT ![o] = v]
    /\ changes' = changes + 1
    /\ seen' = [seen EXCEPT ![o] = @ \cup {v}]
    /\ UNCHANGED <<input, todo, found, partial, output>>

Step == listResources \/ ListFails \/ Finish

Next ==
    \/ \E in \in Inputs : ListUnhealthyReconciliations(in)
    \/ Step \/ Return
    \/ \E o \in Objects, v \in Versions : ObjectChanges(o, v)

(* Every list request ends, because the client's Get returns. *)
Spec == Init /\ [][Next]_vars /\ WF_vars(Step)

-----------------------------------------------------------------------------
(* Properties. *)

Selected(o) == input.scope \in {"", ScopeOf[o]}
Listed == {e.object : e \in output.reconciliations}

(* An entry describes its object as it really was at one moment of the      *)
(* observation: state and reason belong to the same version, and the reason *)
(* is never text of the source.  No object is listed twice, and whatever    *)
(* limit was asked for there are at most MaxListLimit entries.              *)
EntriesWereTrue ==
    output.kind = "list" =>
        /\ Cardinality(Listed) = Cardinality(output.reconciliations)
        /\ Cardinality(Listed) <= MaxListLimit
        /\ \A e \in output.reconciliations :
              \E v \in seen[e.object] \ {Absent} :
                 LET ready == {i \in DOMAIN v : v[i].type = "Ready"} IN
                 \/ ready = {} /\ e.state = "unknown" /\ e.reason = "unknown"
                 \/ \E i \in ready :
                       /\ v[i].status # "True"
                       /\ e.state = "false" <=> v[i].status = "False"
                       /\ e.reason = NormalizeReconciliationReason(v[i].reason)

(* When only the limit cut the list, the entries kept are the first in the  *)
(* order of scope, kind and name, whatever the order of the requests.       *)
KeptAreFirst ==
    output.kind = "list" /\ ~partial =>
        \A o \in Objects \ Listed :
            Selected(o) /\ {ConditionOf(v) : v \in seen[o]} = {"unready"} =>
                /\ output.truncated
                /\ \A p \in Listed : p < o

(* The observation keeps the promise of BoundedList: what it names was      *)
(* unready, what it leaves out untruncated was not so all along, and it     *)
(* always ends.                                                             *)
Abstract == INSTANCE BoundedList WITH
    condition <- [o \in Objects |-> ConditionOf(cluster[o])],
    request <- IF input = NoInput THEN NoInput
               ELSE [kind |-> "request", selected |-> {o \in Objects : Selected(o)},
                     limit |-> input.limit],
    since <- [o \in Objects |-> {ConditionOf(v) : v \in seen[o]}],
    answer <- IF output.kind = "list"
              THEN [kind |-> "list", named |-> Listed,
                    truncated |-> output.truncated]
              ELSE [kind |-> output.kind]
ImplementsBoundedList == Abstract!Spec

=============================================================================
