------------------------------ MODULE Registry ------------------------------
(***************************************************************************)
(* Construction of the server (mcpserver.NewWithSourceSet and              *)
(* observer.NewCatalog): the configured sources are entered one by one in  *)
(* the maps that the tool handlers dispatch on, before the catalog has     *)
(* checked their identifiers and capabilities.  Only a server whose        *)
(* catalog was accepted is ever used.                                      *)
(***************************************************************************)
EXTENDS Integers, FiniteSets, Sequences

CONSTANTS
    SourceSets,  \* sequences of sources that may be configured
    MaxTargets   \* observer.MaxTargets

(* A source: the family it was passed in, and its Target().  caps is a      *)
(* sequence, as in the code: it may hold a capability twice.                *)
Elements(seq) == {seq[i] : i \in DOMAIN seq}

ASSUME RegistryAssumption ==
    /\ MaxTargets \in Nat
    /\ \A s \in SourceSets :
        /\ s \in Seq(Elements(s))
        /\ \A i \in DOMAIN s :
            s[i].caps \in Seq(Elements(s[i].caps))

KubernetesCaps == {"kubernetes.cluster-health", "kubernetes.unhealthy-workloads"}
MonitoringCaps == {"monitoring.active-alerts", "monitoring.scrape-health"}
FluxCaps == {"flux.unhealthy-reconciliations"}
Caps == KubernetesCaps \cup MonitoringCaps \cup FluxCaps

VARIABLES
    sources,   \* the SourceSet, in the order in which it is walked
    next,      \* index of the next source
    byID,      \* capability -> its map from identifiers to sources
    targets,   \* target descriptors collected so far
    catalog,   \* identifier -> target, once the catalog is built
    server     \* "building", "failed" or "ready"

vars == <<sources, next, byID, targets, catalog, server>>

Init ==
    /\ sources \in SourceSets
    /\ next = 1
    /\ byID = [cap \in Caps |-> <<>>]
    /\ targets = <<>>
    /\ catalog = <<>>
    /\ server = "building"

(* The map a capability of a source is entered in.  A Flux source is        *)
(* entered whatever its capabilities are.                                   *)
Registers(source, cap) ==
    \/ source.family = "kubernetes" /\ cap \in KubernetesCaps
       /\ cap \in Elements(source.caps)
    \/ source.family = "monitoring" /\ cap \in MonitoringCaps
       /\ cap \in Elements(source.caps)
    \/ source.family = "flux" /\ cap \in FluxCaps

(* m[k] = v of a Go map: adds the key or overwrites its value. *)
Put(m, k, v) == [x \in DOMAIN m \cup {k} |-> IF x = k THEN v ELSE m[x]]

RefuseSource ==
    /\ server = "building" /\ next <= Len(sources)
    /\ sources[next].nil \/ sources[next].kind # sources[next].family
    /\ server' = "failed"
    /\ UNCHANGED <<sources, next, byID, targets, catalog>>

AddSource ==
    LET source == sources[next] IN
    /\ server = "building" /\ next <= Len(sources)
    /\ ~source.nil /\ source.kind = source.family
    /\ targets' = Append(targets, source)
    /\ byID' = [cap \in Caps |->
                  IF Registers(source, cap) THEN Put(byID[cap], source.id, next)
                                            ELSE byID[cap]]
    /\ next' = next + 1
    /\ UNCHANGED <<sources, catalog, server>>

capabilityMatchesKind(kind, cap) ==
    \/ kind = "kubernetes" /\ cap \in KubernetesCaps
    \/ kind = "monitoring" /\ cap \in MonitoringCaps
    \/ kind = "flux" /\ cap \in FluxCaps

(* Mutant of validateTarget: a target without capabilities is accepted. *)
validateTargetAllowsNone(t) ==
    /\ t.id # "bad"
    /\ \A i \in DOMAIN t.caps : capabilityMatchesKind(t.kind, t.caps[i])
    /\ \A i, j \in DOMAIN t.caps : i # j => t.caps[i] # t.caps[j]

validateTarget(t) ==
    /\ t.id # "bad"
    /\ t.kind \in {"kubernetes", "monitoring", "flux"}
    /\ t.caps # <<>>
    /\ \A i \in DOMAIN t.caps : capabilityMatchesKind(t.kind, t.caps[i])
    /\ \A i, j \in DOMAIN t.caps : i # j => t.caps[i] # t.caps[j]

(* Mutant of NewCatalogAccepts: duplicates are looked for within a family. *)
NewCatalogAcceptsAcrossKinds ==
    /\ Len(targets) <= MaxTargets
    /\ \A i \in DOMAIN targets : validateTarget(targets[i])
    /\ \A i, j \in DOMAIN targets :
        i # j /\ targets[i].kind = targets[j].kind => targets[i].id # targets[j].id

NewCatalogAccepts ==
    /\ Len(targets) <= MaxTargets
    /\ \A i \in DOMAIN targets : validateTarget(targets[i])
    /\ \A i, j \in DOMAIN targets : i # j => targets[i].id # targets[j].id

NewCatalogFails ==
    /\ server = "building" /\ next > Len(sources)
    /\ ~NewCatalogAccepts
    /\ server' = "failed"
    /\ UNCHANGED <<sources, next, byID, targets, catalog>>

NewCatalogSucceeds ==
    /\ server = "building" /\ next > Len(sources)
    /\ NewCatalogAccepts
    /\ catalog' = [id \in {t.id : t \in Elements(targets)} |->
                     CHOOSE t \in Elements(targets) : t.id = id]
    /\ server' = "ready"
    /\ UNCHANGED <<sources, next, byID, targets>>

(* Construction is over. *)
Constructed == server # "building" /\ UNCHANGED vars

Next == RefuseSource \/ AddSource \/ NewCatalogFails \/ NewCatalogSucceeds
        \/ Constructed

Spec == Init /\ [][Next]_vars

-----------------------------------------------------------------------------
(* Properties. *)

(* What observer_list_targets tells a client is what the tools do: a tool   *)
(* finds a source for an identifier exactly when the catalog lists its      *)
(* capability for it, and the source is the one that described itself so.   *)
(* The Flux map, filled without looking at capabilities, is no exception.   *)
DispatchMatchesCatalog ==
    server = "ready" =>
        \A cap \in Caps :
            /\ DOMAIN byID[cap] =
                  {id \in DOMAIN catalog : cap \in Elements(catalog[id].caps)}
            /\ \A id \in DOMAIN byID[cap] :
                  sources[byID[cap][id]] = catalog[id]

(* No configured source is shadowed: every source of a ready server can be  *)
(* reached by a tool, and no identifier leads to two sources.               *)
NoSourceShadowed ==
    server = "ready" =>
        /\ \A i \in DOMAIN sources : \E cap \in Caps :
              \E id \in DOMAIN byID[cap] : byID[cap][id] = i
        /\ \A c, d \in Caps : \A id \in DOMAIN byID[c] \cap DOMAIN byID[d] :
              byID[c][id] = byID[d][id]

=============================================================================
