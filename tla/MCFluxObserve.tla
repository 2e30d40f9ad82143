--------------------------- MODULE MCFluxObserve ---------------------------
(* A small instance of FluxObserve: two scopes and pages of one object.     *)
(* The alphabetical order of the kinds is the reverse of the order in which *)
(* they are requested.                                                      *)
EXTENDS FluxObserve

MCObjects == 1 .. 4
MCScopeOf == <<"s1", "s1", "s1", "s2">>
MCKindOf == <<"GitRepository", "Kustomization", "Kustomization", "HelmRelease">>
MCBadNames == {4}
MCScopes == <<"s1", "s2">>

Cond(type, status, reason) ==
    [type |-> type, status |-> status, reason |-> reason, encodable |-> reason # "free text"]
MCItems == {
    <<>>,
    <<Cond("Ready", "True", "Suspended")>>,
    <<Cond("Reconciling", "True", "Suspended"), Cond("Ready", "False", "BuildFailed"),
      Cond("Ready", "True", "Suspended")>>,
    <<Cond("Stalled", "False", "Suspended"), Cond("Ready", "Unknown", "free text")>>}

In(target, scope, limit) == [target |-> target, scope |-> scope, limit |-> limit]
MCInputs ==
    {In("t", scope, limit) : scope \in {"", "s1"}, limit \in {0, 1}}
    \cup {In("t", "s2", 1), In("t", "other", 1), In("u", "", 1),
          In("invalid", "", 1), In("t", "invalid", 1), In("t", "", -1),
          In("t", "", 4)}

=============================================================================
