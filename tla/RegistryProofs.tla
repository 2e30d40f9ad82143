--------------------------- MODULE RegistryProofs ---------------------------
(***************************************************************************)
(* A ready server dispatches as its catalog says, for any list of sources  *)
(* that may be configured.                                                 *)
(***************************************************************************)
EXTENDS Registry, TLAPS

(* The sources entered so far. *)
Entered == 1 .. next - 1

(* The walk: what has been collected is the part of the sources before      *)
(* next, all of it of its own family.                                       *)
WalkInv ==
    /\ sources \in SourceSets
    /\ next \in 1 .. Len(sources) + 1
    /\ targets \in Seq(Elements(sources)) /\ Len(targets) = next - 1
    /\ \A i \in Entered :
          targets[i] = sources[i] /\ sources[i].kind = sources[i].family

(* The maps: an identifier is a key exactly when a source that registers    *)
(* for the capability has it, and leads to such a source.  Which of several *)
(* is not said: the last one has overwritten the others.                    *)
MapInv(cap) ==
    /\ \A id : id \in DOMAIN byID[cap] <=>
          \E i \in Entered : Registers(sources[i], cap) /\ sources[i].id = id
    /\ \A id \in DOMAIN byID[cap] :
          /\ byID[cap][id] \in Entered
          /\ Registers(sources[byID[cap][id]], cap)
          /\ sources[byID[cap][id]].id = id

(* A ready server has passed all of its sources and the checks of the       *)
(* catalog.                                                                 *)
ReadyInv ==
    server = "ready" =>
        /\ next = Len(sources) + 1
        /\ NewCatalogAccepts
        /\ catalog = [id \in {t.id : t \in Elements(targets)} |->
                        CHOOSE t \in Elements(targets) : t.id = id]

IInv ==
    /\ WalkInv
    /\ \A cap \in Caps : MapInv(cap)
    /\ ReadyInv

-----------------------------------------------------------------------------

(* Sources are numbered from one. *)
LEMMA SourceSequence ==
    ASSUME WalkInv
    PROVE  /\ sources \in Seq(Elements(sources))
           /\ Len(sources) \in Nat /\ DOMAIN sources = 1 .. Len(sources)
           /\ next \in Nat /\ DOMAIN targets = Entered
<1>1. sources \in Seq(Elements(sources))
  BY RegistryAssumption DEF WalkInv
<1> QED
  BY <1>1 DEF WalkInv, Entered

(* Before the first source is entered the maps are empty. *)
LEMMA InitIInv == Init => IInv
<1> SUFFICES ASSUME Init PROVE IInv
  OBVIOUS
<1>1. sources \in Seq(Elements(sources)) /\ Entered = {}
  BY RegistryAssumption DEF Init, Entered
<1>2. WalkInv
  BY <1>1 DEF Init, WalkInv
<1>3. ASSUME NEW cap \in Caps PROVE MapInv(cap)
  BY <1>1 DEF Init, MapInv
<1>4. ReadyInv
  BY DEF Init, ReadyInv
<1> QED
  BY <1>2, <1>3, <1>4 DEF IInv

(* Entering a source extends the walk by it, ... *)
LEMMA AddSourceWalk ==
    ASSUME IInv, AddSource
    PROVE  WalkInv' /\ Entered' = Entered \cup {next} /\ next \in DOMAIN sources
<1>1. next \in 1 .. Len(sources) /\ sources[next] \in Elements(sources)
  BY SourceSequence DEF IInv, WalkInv, AddSource, Elements
<1>2. targets' = Append(targets, sources[next]) /\ next' = next + 1
      /\ sources' = sources
  BY DEF AddSource
<1>3. Entered' = Entered \cup {next} /\ next \notin Entered
  BY <1>1, <1>2, SourceSequence DEF Entered, IInv
<1>4. targets' \in Seq(Elements(sources)) /\ Len(targets') = next
      /\ \A i \in Entered : targets'[i] = targets[i]
      /\ targets'[next] = sources[next]
  BY <1>1, <1>2, SourceSequence DEF IInv, WalkInv, Entered
<1>5. WalkInv'
  BY <1>1, <1>2, <1>3, <1>4, SourceSequence DEF IInv, WalkInv, AddSource, Elements
<1> QED
  BY <1>1, <1>3, <1>5, SourceSequence DEF IInv

(* ... and each map by it, if the source registers for its capability. *)
LEMMA AddSourceMap ==
    ASSUME IInv, AddSource, NEW cap \in Caps
    PROVE  MapInv(cap)'
<1> DEFINE source == sources[next]
<1>1. Entered' = Entered \cup {next} /\ sources' = sources
  BY AddSourceWalk DEF AddSource
<1>2. MapInv(cap)
  BY DEF IInv
<1>3. CASE ~Registers(source, cap)
  <2>1. byID'[cap] = byID[cap]
    BY <1>3 DEF AddSource
  <2> QED
    BY <1>1, <1>2, <1>3, <2>1 DEF MapInv
<1>4. CASE Registers(source, cap)
  <2>1. byID'[cap] = Put(byID[cap], source.id, next)
    BY <1>4 DEF AddSource
  <2>2. DOMAIN byID'[cap] = DOMAIN byID[cap] \cup {source.id}
    BY <2>1 DEF Put
  <2>3. byID'[cap][source.id] = next
    BY <2>1 DEF Put
  <2>4. \A id \in DOMAIN byID[cap] \ {source.id} : byID'[cap][id] = byID[cap][id]
    BY <2>1 DEF Put
  <2> QED
    BY <1>1, <1>2, <1>4, <2>2, <2>3, <2>4 DEF MapInv
<1> QED
  BY <1>3, <1>4

(* Every step of the specification preserves the invariant. *)
LEMMA NextIInv == IInv /\ [Next]_vars => IInv'
<1> SUFFICES ASSUME IInv, [Next]_vars PROVE IInv'
  OBVIOUS
<1>1. CASE AddSource
  <2>1. ReadyInv'
    BY <1>1 DEF AddSource, ReadyInv
  <2> QED
    BY <1>1, <2>1, AddSourceWalk, AddSourceMap DEF IInv
<1>2. CASE ~AddSource
  <2>1. UNCHANGED <<sources, next, byID, targets>>
    BY <1>2 DEF Next, vars, RefuseSource, NewCatalogFails, NewCatalogSucceeds,
       Constructed
  <2>2. WalkInv'
    BY <2>1 DEF IInv, WalkInv, Entered
  <2>3. ASSUME NEW cap \in Caps PROVE MapInv(cap)'
    BY <2>1 DEF IInv, MapInv, Entered
  <2>4. ReadyInv'
    <3>1. CASE NewCatalogSucceeds
      <4>1. next = Len(sources) + 1
        BY <3>1, SourceSequence DEF NewCatalogSucceeds, IInv, WalkInv
      <4> QED
        BY <3>1, <4>1, <2>1 DEF NewCatalogSucceeds, ReadyInv, NewCatalogAccepts
    <3>2. CASE RefuseSource \/ NewCatalogFails
      BY <3>2 DEF RefuseSource, NewCatalogFails, ReadyInv
    <3>3. CASE UNCHANGED vars
      BY <3>3 DEF vars, IInv, ReadyInv, NewCatalogAccepts
    <3> QED
      BY <1>2, <3>1, <3>2, <3>3 DEF Next, Constructed
  <2> QED
    BY <2>2, <2>3, <2>4 DEF IInv
<1> QED
  BY <1>1, <1>2

-----------------------------------------------------------------------------
(* What the invariant says of a ready server. *)

(* Every source of it was entered, describes itself validly, and has its    *)
(* identifier to itself.                                                    *)
LEMMA ReadySources ==
    ASSUME IInv, server = "ready"
    PROVE  /\ Entered = DOMAIN sources
           /\ \A i \in Entered : /\ sources[i] = targets[i]
                                 /\ sources[i].kind = sources[i].family
                                 /\ validateTarget(sources[i])
           /\ \A i, j \in Entered : sources[i].id = sources[j].id => i = j
<1>1. next = Len(sources) + 1 /\ NewCatalogAccepts
  BY DEF IInv, ReadyInv
<1>2. DOMAIN targets = Entered /\ Entered = DOMAIN sources
  BY <1>1, SourceSequence DEF IInv, Entered
<1>3. \A i \in Entered : targets[i] = sources[i]
                         /\ sources[i].kind = sources[i].family
  BY DEF IInv, WalkInv
<1>4. \A i \in Entered : validateTarget(sources[i])
  BY <1>1, <1>2, <1>3 DEF NewCatalogAccepts
<1>5. \A i, j \in Entered : sources[i].id = sources[j].id => i = j
  BY <1>1, <1>2, <1>3 DEF NewCatalogAccepts
<1> QED
  BY <1>2, <1>3, <1>4, <1>5

(* A valid target has a capability, and one of the six. *)
LEMMA HasCapability ==
    ASSUME IInv, NEW i \in DOMAIN sources, validateTarget(sources[i])
    PROVE  /\ \E cap \in Caps : cap \in Elements(sources[i].caps)
           /\ \A cap \in Elements(sources[i].caps) :
                 capabilityMatchesKind(sources[i].kind, cap) /\ cap \in Caps
<1>1. sources[i].caps \in Seq(Elements(sources[i].caps))
  BY RegistryAssumption DEF IInv, WalkInv
<1>2. \A cap \in Elements(sources[i].caps) :
          capabilityMatchesKind(sources[i].kind, cap)
  BY DEF validateTarget, Elements
<1>3. \A kind, cap : capabilityMatchesKind(kind, cap) => cap \in Caps
  BY DEF capabilityMatchesKind, Caps
<1>4. sources[i].caps # <<>>
  BY DEF validateTarget
<1>5. 1 \in DOMAIN sources[i].caps
  BY <1>1, <1>4
<1>6. sources[i].caps[1] \in Elements(sources[i].caps)
  BY <1>5 DEF Elements
<1> QED
  BY <1>2, <1>3, <1>6

(* A valid source of its own family is entered in the maps of exactly the   *)
(* capabilities that it declares; for a Flux source, because there is only  *)
(* one capability that a valid one can declare, and it must declare one.    *)
LEMMA RegistersDeclared ==
    ASSUME IInv, NEW i \in DOMAIN sources, validateTarget(sources[i]),
           sources[i].kind = sources[i].family, NEW cap \in Caps
    PROVE  Registers(sources[i], cap) <=> cap \in Elements(sources[i].caps)
<1>1. ASSUME cap \in Elements(sources[i].caps) PROVE Registers(sources[i], cap)
  BY <1>1, HasCapability DEF Registers, capabilityMatchesKind
<1>2. ASSUME Registers(sources[i], cap) PROVE cap \in Elements(sources[i].caps)
  <2>1. CASE sources[i].family = "flux" /\ cap \in FluxCaps
    <3>1. PICK c \in Caps : c \in Elements(sources[i].caps)
      BY HasCapability
    <3>2. capabilityMatchesKind("flux", c)
      BY <2>1, <3>1, HasCapability
    <3>3. c \in FluxCaps
      BY <3>2 DEF capabilityMatchesKind
    <3> QED
      BY <2>1, <3>1, <3>3 DEF FluxCaps
  <2> QED
    BY <1>2, <2>1 DEF Registers
<1> QED
  BY <1>1, <1>2

(* The catalog lists each identifier with the source that has it. *)
LEMMA CatalogLists ==
    ASSUME IInv, server = "ready"
    PROVE  /\ \A id : id \in DOMAIN catalog <=>
                        \E i \in Entered : sources[i].id = id
           /\ \A i \in Entered : catalog[sources[i].id] = sources[i]
<1> DEFINE ids == {t.id : t \in Elements(targets)}
<1>1. catalog = [id \in ids |-> CHOOSE t \in Elements(targets) : t.id = id]
  BY DEF IInv, ReadyInv
<1>2. \A t : t \in Elements(targets) <=> \E i \in Entered : t = sources[i]
  BY ReadySources, SourceSequence DEF IInv, Elements
<1>3. \A id : id \in ids <=> \E i \in Entered : sources[i].id = id
  BY <1>2
<1>4. ASSUME NEW i \in Entered PROVE catalog[sources[i].id] = sources[i]
  <2>1. sources[i] \in Elements(targets) /\ sources[i].id \in ids
    BY <1>2
  <2>2. \A t \in Elements(targets) : t.id = sources[i].id => t = sources[i]
    BY <1>2, <1>4, ReadySources
  <2>3. (CHOOSE t \in Elements(targets) : t.id = sources[i].id) = sources[i]
    BY <2>1, <2>2
  <2> QED
    BY <1>1, <2>1, <2>3
<1> QED
  BY <1>1, <1>3, <1>4

(* An identifier leads to the one source that has it. *)
LEMMA LeadsToOwner ==
    ASSUME IInv, server = "ready", NEW cap \in Caps, NEW i \in Entered,
           Registers(sources[i], cap)
    PROVE  sources[i].id \in DOMAIN byID[cap] /\ byID[cap][sources[i].id] = i
<1>1. MapInv(cap)
  BY DEF IInv
<1>2. sources[i].id \in DOMAIN byID[cap]
  BY <1>1 DEF MapInv
<1>3. /\ byID[cap][sources[i].id] \in Entered
      /\ sources[byID[cap][sources[i].id]].id = sources[i].id
  BY <1>1, <1>2 DEF MapInv
<1> QED
  BY <1>2, <1>3, ReadySources

(* Once the server is ready, the maps and the catalog were filled from the  *)
(* same sources.                                                            *)
LEMMA DispatchFollows == IInv => DispatchMatchesCatalog
<1> SUFFICES ASSUME IInv, server = "ready", NEW cap \in Caps
             PROVE  /\ DOMAIN byID[cap] = {id \in DOMAIN catalog :
                                             cap \in Elements(catalog[id].caps)}
                    /\ \A id \in DOMAIN byID[cap] :
                          sources[byID[cap][id]] = catalog[id]
  BY DEF DispatchMatchesCatalog
<1>1. MapInv(cap)
  BY DEF IInv
<1>2. \A i \in Entered : Registers(sources[i], cap) <=>
                            cap \in Elements(sources[i].caps)
  BY ReadySources, RegistersDeclared
<1>3. \A id : id \in DOMAIN byID[cap] <=>
          id \in DOMAIN catalog /\ cap \in Elements(catalog[id].caps)
  BY <1>1, <1>2, CatalogLists DEF MapInv
<1>4. \A id \in DOMAIN byID[cap] : sources[byID[cap][id]] = catalog[id]
  BY <1>1, CatalogLists DEF MapInv
<1> QED
  BY <1>3, <1>4

(* Once the server is ready, each source is in the map of one of its        *)
(* capabilities, under an identifier of its own.                            *)
LEMMA NoneShadowed == IInv => NoSourceShadowed
<1> SUFFICES ASSUME IInv, server = "ready"
             PROVE  /\ \A i \in DOMAIN sources : \E cap \in Caps :
                          \E id \in DOMAIN byID[cap] : byID[cap][id] = i
                    /\ \A c, d \in Caps :
                          \A id \in DOMAIN byID[c] \cap DOMAIN byID[d] :
                             byID[c][id] = byID[d][id]
  BY DEF NoSourceShadowed
<1>1. ASSUME NEW i \in DOMAIN sources
      PROVE  \E cap \in Caps : \E id \in DOMAIN byID[cap] : byID[cap][id] = i
  <2>1. PICK cap \in Caps : cap \in Elements(sources[i].caps)
    BY ReadySources, HasCapability
  <2>2. Registers(sources[i], cap) /\ i \in Entered
    BY <2>1, ReadySources, RegistersDeclared
  <2> QED
    BY <2>2, LeadsToOwner
<1>2. ASSUME NEW c \in Caps, NEW d \in Caps,
             NEW id \in DOMAIN byID[c] \cap DOMAIN byID[d]
      PROVE  byID[c][id] = byID[d][id]
  <2>1. MapInv(c) /\ MapInv(d)
    BY DEF IInv
  <2> QED
    BY <2>1, ReadySources DEF MapInv
<1> QED
  BY <1>1, <1>2

-----------------------------------------------------------------------------
(* Results. *)

(* The maps and the catalog of every server under construction agree. *)
THEOREM Invariance == Spec => []IInv
<1>1. Init => IInv
  BY InitIInv
<1>2. IInv /\ [Next]_vars => IInv'
  BY NextIInv
<1> QED
  BY <1>1, <1>2, PTL DEF Spec

(* DispatchMatchesCatalog holds of every server, although the sources are   *)
(* entered in the maps before the catalog has checked them.                 *)
THEOREM CatalogTrue == Spec => []DispatchMatchesCatalog
BY Invariance, DispatchFollows, PTL

(* NoSourceShadowed holds of every server: an accepted catalog excludes     *)
(* that a later source has overwritten an earlier one.                      *)
THEOREM EverySourceReachable == Spec => []NoSourceShadowed
BY Invariance, NoneShadowed, PTL

=============================================================================
