------------------------- MODULE KubernetesObserve -------------------------
(***************************************************************************)
(* The two Kubernetes observations (internal/kubernetes/observe.go), run   *)
(* against a cluster that changes between their list requests.             *)
(*                                                                         *)
(* An observation is a fixed sequence of list requests, one page each: the *)
(* nodes (ClusterHealth only), then three kinds of controllers in each     *)
(* selected scope.  The first request that fails ends it.  Requests are    *)
(* atomic here; SourceRequest models them.                                 *)
(***************************************************************************)
EXTENDS Integers, FiniteSets, Sequences

CONSTANTS
    Objects,     \* controllers, numbered by the sort key scope/kind/name
    ScopeOf,     \* object -> identifier of the scope it lies in
    KindOf,      \* object -> kind
    BadNames,    \* objects whose name is not a valid object name
    Items,       \* states of a controller that the API can report
    Nodes,       \* cluster nodes
    Scopes,      \* configured scopes, as selectedScopes("") sorts them
    Limits,      \* values of input.Limit after Normalize
    ResourceListLimit, \* objects on one page of a list
    MaxChanges,  \* bound: changes of the cluster during one observation
    Absent       \* state of an object that does not exist

controllerResources == <<"Deployment", "StatefulSet", "DaemonSet">>
Kinds == {controllerResources[i] : i \in DOMAIN controllerResources}
ConfiguredScopes == {Scopes[i] : i \in DOMAIN Scopes}

ASSUME ObserveAssumption ==
    /\ IsFiniteSet(Objects) /\ Objects \subseteq Nat
    /\ Scopes \in Seq(ConfiguredScopes) /\ "" \notin ConfiguredScopes
    /\ \A o \in Objects : ScopeOf[o] \in ConfiguredScopes /\ KindOf[o] \in Kinds
    /\ BadNames \subseteq Objects
    /\ IsFiniteSet(Nodes) /\ Nodes \cap Objects = {}
    /\ Limits \subseteq Nat \ {0}
    /\ ResourceListLimit \in Nat \ {0}
    /\ MaxChanges \in Nat
    /\ Absent \notin Items
    /\ \A i \in Items : /\ i.replicas \in Nat \cup {-1} /\ i.readyReplicas \in Nat
                        /\ i.desiredNumberScheduled \in Nat /\ i.numberReady \in Nat

VARIABLES
    cluster,  \* object -> its reported state, or Absent
    nodes,    \* node -> its Ready condition, or "absent"
    changes,  \* changes of the cluster since the observation began
    op,       \* the running observation
    input,    \* its scope ("" for all) and limit
    todo,     \* list requests still to be made
    found,    \* unhealthy controllers with a valid name
    total,    \* result.Workloads.Total
    ready,    \* result.Workloads.Ready
    badNodes, \* result.Nodes.Total - result.Nodes.Ready
    partial,  \* partial, or result.Truncated
    output,   \* the result, once there is one
    seen      \* history: conditions of objects and nodes since the start

vars == <<cluster, nodes, changes, op, input, todo, found, total, ready,
          badNodes, partial, output, seen>>
clusterVars == <<cluster, nodes, changes>>

-----------------------------------------------------------------------------
(* Readiness. *)

(* Mutant of controllerHealth: a DaemonSet is judged like a Deployment. *)
controllerHealthSameForAll(item, kind) ==
    item.readyReplicas >= (IF item.replicas = -1 THEN 1 ELSE item.replicas)

(* The first result of controllerHealth: is the controller ready?  replicas *)
(* is -1 when the field is missing.                                         *)
controllerHealth(item, kind) ==
    LET desired == IF kind = "DaemonSet" THEN item.desiredNumberScheduled
                   ELSE IF item.replicas = -1 THEN 1 ELSE item.replicas
        count == IF kind = "DaemonSet" THEN item.numberReady
                 ELSE item.readyReplicas
    IN count >= desired

(* The condition of an object or a node, stated without the code. *)
Short(have, want) == have < want
ObjectCondition(o) ==
    LET i == cluster[o] IN
    CASE i = Absent -> "absent"
      [] i # Absent /\ KindOf[o] = "DaemonSet" ->
            IF Short(i.numberReady, i.desiredNumberScheduled)
            THEN "unready" ELSE "ready"
      [] i # Absent /\ KindOf[o] # "DaemonSet" ->
            IF \/ i.replicas = -1 /\ i.readyReplicas = 0
               \/ Short(i.readyReplicas, i.replicas)
            THEN "unready" ELSE "ready"
Condition(x) == IF x \in Nodes THEN nodes[x] ELSE ObjectCondition(x)
Observable == Objects \cup Nodes

-----------------------------------------------------------------------------
(* The plan of an observation. *)

(* listControllers for every resource of a scope, in the order of the loop. *)
ScopeLists(scope) ==
    [i \in DOMAIN controllerResources |->
        [scope |-> scope, kind |-> controllerResources[i]]]
NodeList == [scope |-> "", kind |-> "Node"]

(* selectedScopes: one scope, or all configured ones. *)
selectedScopes(scope) == IF scope # "" THEN <<scope>> ELSE Scopes
Lists(scopes) ==
    [n \in 1 .. 3 * Len(scopes) |->
        ScopeLists(scopes[1 + ((n - 1) \div 3)])[1 + ((n - 1) % 3)]]

NoOutput == [kind |-> "none"]
Error(e) == [kind |-> "error", err |-> e]

Init ==
    /\ cluster \in [Objects -> Items \cup {Absent}]
    /\ nodes \in [Nodes -> {"absent", "ready", "unready"}]
    /\ changes = 0
    /\ op = "none" /\ input = [scope |-> "", limit |-> 1]
    /\ todo = <<>> /\ found = {} /\ total = 0 /\ ready = 0 /\ badNodes = 0
    /\ partial = FALSE /\ output = NoOutput
    /\ seen = [x \in Observable |-> {}]

Begin(name, in, plan) ==
    /\ op = "none"
    /\ op' = name /\ input' = in /\ todo' = plan
    /\ seen' = [x \in Observable |-> {Condition(x)}]
    /\ UNCHANGED <<found, total, ready, badNodes, partial, clusterVars>>

ClusterHealth ==
    /\ Begin("ClusterHealth", [scope |-> "", limit |-> 1],
             <<NodeList>> \o Lists(selectedScopes("")))
    /\ UNCHANGED output

ListUnhealthyWorkloads(scope, limit) ==
    LET in == [scope |-> scope, limit |-> limit] IN
    IF scope \in ConfiguredScopes \cup {""}
    THEN Begin("ListUnhealthyWorkloads", in, Lists(selectedScopes(scope)))
         /\ UNCHANGED output
    ELSE Begin("ListUnhealthyWorkloads", in, <<>>)
         /\ output' = Error("ErrUnknownScope")

Busy == op # "none" /\ output = NoOutput

-----------------------------------------------------------------------------
(* List requests. *)

(* Mutant of MergePartial: the flag of the last list wins. *)
MergePartialLast(more) == more

MergePartial(more) == partial \/ more

(* The first page of the nodes: all that exist, or as many as fit. *)
PresentNodes == {n \in Nodes : nodes[n] # "absent"}

listNodes(page) ==
    /\ Busy /\ todo # <<>> /\ Head(todo) = NodeList
    /\ page \subseteq PresentNodes
    /\ \/ page = PresentNodes /\ Cardinality(page) <= ResourceListLimit
       \/ page # PresentNodes /\ Cardinality(page) = ResourceListLimit
    /\ todo' = Tail(todo)
    /\ badNodes' = Cardinality({n \in page : nodes[n] # "ready"})
    /\ partial' = MergePartial(page # PresentNodes)
    /\ UNCHANGED <<op, input, found, total, ready, output, seen, clusterVars>>

(* The API returns the first page of the objects that exist now. *)
Present(l) == {o \in Objects : /\ cluster[o] # Absent
                               /\ ScopeOf[o] = l.scope /\ KindOf[o] = l.kind}
Page(S) == {o \in S : Cardinality({p \in S : p < o}) < ResourceListLimit}

listControllers ==
    /\ Busy /\ todo # <<>> /\ Head(todo) # NodeList
    /\ LET present == Present(Head(todo))
           page == Page(present)
           up == {o \in page : controllerHealth(cluster[o], KindOf[o])}
           named == (page \ up) \ BadNames
       IN
       /\ total' = total + Cardinality(page)
       /\ ready' = ready + Cardinality(up)
       /\ found' = found \cup named
       /\ partial' = MergePartial(\/ page # present
                                  \/ /\ op = "ListUnhealthyWorkloads"
                                     /\ named # page \ up)
    /\ todo' = Tail(todo)
    /\ UNCHANGED <<op, input, badNodes, output, seen, clusterVars>>

(* Any request may fail, in Get or because its body is not a list. *)
ListFails ==
    /\ Busy /\ todo # <<>>
    /\ output' = Error("source")
    /\ UNCHANGED <<op, input, todo, found, total, ready, badNodes, partial,
                   seen, clusterVars>>

-----------------------------------------------------------------------------
(* The result. *)

Status ==
    IF partial THEN "unknown"
    ELSE IF badNodes > 0 \/ total > ready THEN "degraded" ELSE "healthy"
Warnings ==
    (IF badNodes > 0 THEN {"nodes-not-ready"} ELSE {})
    \cup (IF total > ready THEN {"workloads-not-ready"} ELSE {})
    \cup (IF partial THEN {"partial-observation"} ELSE {})

FinishHealth ==
    /\ Busy /\ op = "ClusterHealth" /\ todo = <<>>
    /\ output' = [kind |-> "health", status |-> Status, warnings |-> Warnings]
    /\ UNCHANGED <<op, input, todo, found, total, ready, badNodes, partial,
                   seen, clusterVars>>

(* Mutant of FirstInOrder: the list is cut before it is sorted, so that the *)
(* entries collected first are kept.                                        *)
CollectedBefore(p, o) ==
    \E n \in 1 .. 3 * Len(Scopes), m \in 1 .. 3 * Len(Scopes) :
        /\ n < m
        /\ Lists(Scopes)[n] = [scope |-> ScopeOf[p], kind |-> KindOf[p]]
        /\ Lists(Scopes)[m] = [scope |-> ScopeOf[o], kind |-> KindOf[o]]
FirstInOrderUnsorted(S, limit) ==
    {o \in S : Cardinality({p \in S : CollectedBefore(p, o)}) < limit}

(* Sorting and cutting: the limit smallest entries. *)
FirstInOrder(S, limit) == {o \in S : Cardinality({p \in S : p < o}) < limit}

FinishList ==
    /\ Busy /\ op = "ListUnhealthyWorkloads" /\ todo = <<>>
    /\ output' = [kind |-> "list", workloads |-> FirstInOrder(found, input.limit),
                  truncated |-> partial \/ Cardinality(found) > input.limit]
    /\ UNCHANGED <<op, input, todo, found, total, ready, badNodes, partial,
                   seen, clusterVars>>

Return ==
    /\ output # NoOutput
    /\ op' = "none" /\ input' = [scope |-> "", limit |-> 1]
    /\ todo' = <<>> /\ found' = {} /\ total' = 0 /\ ready' = 0
    /\ badNodes' = 0 /\ partial' = FALSE /\ output' = NoOutput
    /\ seen' = [x \in Observable |-> {}]
    /\ changes' = 0
    /\ UNCHANGED <<cluster, nodes>>

-----------------------------------------------------------------------------
(* The cluster changes while it is observed.  Changes between observations  *)
(* lead to a state that Init also allows.                                   *)

ObjectChanges(o, i) ==
    /\ Busy /\ changes < MaxChanges /\ cluster[o] # i
    /\ cluster' = [cluster EXCEPT ![o] = i]
    /\ changes' = changes + 1
    /\ seen' = [seen EXCEPT ![o] = @ \cup {Condition(o)'}]
    /\ UNCHANGED <<nodes, op, input, todo, found, total, ready, badNodes,
                   partial, output>>

NodeChanges(n, s) ==
    /\ Busy /\ changes < MaxChanges /\ nodes[n] # s
    /\ nodes' = [nodes EXCEPT ![n] = s]
    /\ changes' = changes + 1
    /\ seen' = [seen EXCEPT ![n] = @ \cup {s}]
    /\ UNCHANGED <<cluster, op, input, todo, found, total, ready, badNodes,
                   partial, output>>

Next ==
    \/ ClusterHealth
    \/ \E scope \in ConfiguredScopes \cup {"", "unknown"}, limit \in Limits :
        ListUnhealthyWorkloads(scope, limit)
    \/ \E page \in SUBSET Nodes : listNodes(page)
    \/ listControllers \/ ListFails
    \/ FinishHealth \/ FinishList \/ Return
    \/ \E o \in Objects, i \in Items \cup {Absent} : ObjectChanges(o, i)
    \/ \E n \in Nodes, s \in {"absent", "ready", "unready"} : NodeChanges(n, s)

Spec == Init /\ [][Next]_vars

-----------------------------------------------------------------------------
(* Properties. *)

Observed(o) == input.scope \in {"", ScopeOf[o]}

(* A controller of a selected scope that was unhealthy all through a list   *)
(* observation is in the list, or the list says that it is truncated; and   *)
(* when only the limit can have cut it, what precedes it was kept.          *)
PersistentUnhealthyListed ==
    output.kind = "list" =>
        \A o \in Objects :
            Observed(o) /\ seen[o] = {"unready"} /\ o \notin output.workloads =>
                /\ output.truncated
                /\ ~partial => \A p \in output.workloads : p < o

(* A cluster status is never contradicted by what was so all through the    *)
(* observation: "healthy" is not reported over a node or a controller that  *)
(* was unhealthy all along, seen on a page or not; "degraded" is not        *)
(* reported when nothing was unhealthy at any moment; and every status but  *)
(* "healthy" comes with a warning.                                          *)
StatusIsTrue ==
    output.kind = "health" =>
        /\ output.status = "healthy" =>
              /\ \A n \in Nodes : seen[n] # {"unready"}
              /\ \A o \in Objects :
                    ScopeOf[o] \in ConfiguredScopes => seen[o] # {"unready"}
        /\ output.status = "degraded" =>
              \E x \in Observable : "unready" \in seen[x]
        /\ output.status # "healthy" <=> output.warnings # {}

(* ListUnhealthyWorkloads keeps the promise of BoundedList, among cluster   *)
(* health observations.                                                     *)
Listing == op = "ListUnhealthyWorkloads"
Abstract == INSTANCE BoundedList WITH
    condition <- [o \in Objects |-> ObjectCondition(o)],
    request <- IF Listing
               THEN [kind |-> "request", limit |-> input.limit,
                     selected |-> {o \in Objects : Observed(o)}]
               ELSE [kind |-> "none"],
    since <- [o \in Objects |-> IF Listing THEN seen[o] ELSE {}],
    answer <- IF Listing /\ output.kind = "list"
              THEN [kind |-> "list", named |-> output.workloads,
                    truncated |-> output.truncated]
              ELSE [kind |-> IF Listing THEN output.kind ELSE "none"]
ImplementsBoundedList == Abstract!SafeSpec

=============================================================================
