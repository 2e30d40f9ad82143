------------------------ MODULE MCKubernetesObserve ------------------------
(* A small instance of KubernetesObserve for TLC: two scopes, a page of one *)
(* object, and controllers numbered by scope, kind and name, where the      *)
(* alphabetical order of the kinds is not the order of the list requests.   *)
EXTENDS KubernetesObserve, TLC

MCObjects == 1 .. 4
MCScopeOf == <<"s1", "s1", "s1", "s2">>
MCKindOf == <<"DaemonSet", "Deployment", "Deployment", "StatefulSet">>
MCBadNames == {4}
MCScopes == <<"s1", "s2">>

Item(replicas, readyReplicas, desired, numberReady) ==
    [replicas |-> replicas, readyReplicas |-> readyReplicas,
     desiredNumberScheduled |-> desired, numberReady |-> numberReady]

(* Healthy and unhealthy as a Deployment and as a DaemonSet, in every       *)
(* combination, with and without the replicas field.                        *)
MCItems == {Item(-1, 0, 0, 0), Item(1, 1, 1, 0)}

NodeSymmetry == Permutations(Nodes)

=============================================================================
