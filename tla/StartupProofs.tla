--------------------------- MODULE StartupProofs ---------------------------
(***************************************************************************)
(* A process serves what its file configures or nothing, and a probe that  *)
(* succeeds has reached it: for every file, bound and number of starts.    *)
(* What is known of Registry for every list of sources is used for the     *)
(* lists of clients that Load can build.                                   *)
(***************************************************************************)
EXTENDS Startup, SequenceTheorems, TLAPS

AllTargets == UNION {{f.targets[i] : i \in DOMAIN f.targets} : f \in Files}
AllClients == {Client(t) : t \in {t \in AllTargets : t.kind \in Kinds}}

RP == INSTANCE RegistryProofs WITH SourceSets <- Seq(AllClients)

(* The process and its command line. *)
ProcessInv ==
    /\ args \in Arguments /\ file \in Files
    /\ loaded \in 0 .. Len(Configured)
    /\ pc \in {"build", "register"} => Len(Configured) <= MaxTargets

(* What a constructor has accepted. *)
Accepted(t) == t.kind \in Kinds /\ t.id # "bad" /\ TimeoutAccepted(t)

(* Load: the clients of the targets walked so far, each in the list of its  *)
(* kind, and none but these; a client is built twice only if an identifier  *)
(* is configured twice.                                                     *)
BuiltOnly ==
    \A k \in Kinds : \A j \in DOMAIN built[k] :
        \E i \in 1 .. loaded : /\ Configured[i].kind = k
                               /\ built[k][j] = Client(Configured[i])
BuiltAll ==
    \A i \in 1 .. loaded :
        /\ Accepted(Configured[i])
        /\ \E j \in DOMAIN built[Configured[i].kind] :
              built[Configured[i].kind][j] = Client(Configured[i])
BuiltOnce ==
    Distinct(Configured, LAMBDA t : t.id) =>
        \A k \in Kinds : \A i, j \in DOMAIN built[k] :
            built[k][i].id = built[k][j].id => i = j

BuildInv ==
    /\ built \in [Kinds -> Seq(AllClients)]
    /\ Len(built["kubernetes"]) + Len(built["monitoring"])
          + Len(built["flux"]) = loaded
    /\ BuiltOnly /\ BuiltAll /\ BuiltOnce

(* Registration begins with all clients of the file, and is over when the   *)
(* process serves.                                                          *)
Serving == {"listen", "serve", "accepting", "draining", "stdio"}
RegisterInv ==
    /\ RP!IInv /\ server \in {"building", "failed", "ready"}
    /\ pc \in {"off", "load", "build"} => RP!Init
    /\ pc \in Serving \cup {"register"} =>
          sources = Collected /\ loaded = Len(Configured)
    /\ pc \in Serving => server = "ready"

ProbeStates == InFlight \cup {"none", "0", "1", "2"}

(* The probe has been accepted by a process that accepts connections. *)
ProbeInv ==
    /\ probe \in [at : ProbeStates, to : Nat] /\ starts \in Nat
    /\ port \in {"free", "ours", "other"}
    /\ pc = "accepting" => starts \in up
    /\ probe.at \in {"accepted", "0"} => probe.to \in up

IInv ==
    /\ ProcessInv /\ BuildInv /\ RegisterInv /\ RefusedOnlyForDuplicates
    /\ ProbeInv

-----------------------------------------------------------------------------
(* The probe. *)

(* Only the answer of the server has the verdict 0. *)
LEMMA ForeignVerdict ==
    ASSUME NEW answer \in ForeignAnswers
    PROVE  ProbeVerdict(answer.status, answer.body) = "1"
<1> DEFINE b == answer.body
           n == IF Len(b) < 4 THEN Len(b) ELSE 4
<1>1. b \in Seq({b[i] : i \in DOMAIN b}) /\ ~(answer.status = 200 /\ b = OK)
  BY StartupAssumption
<1> HIDE DEF b
<1>2. Len(b) \in Nat /\ DOMAIN b = 1 .. Len(b)
  BY <1>1
<1>3. SUFFICES ASSUME SubSeq(b, 1, n) = OK PROVE b = OK
  BY <1>1 DEF ProbeVerdict, LimitedRead, Prefix, b
<1>4. Len(OK) = 3
  BY DEF OK
<1>5. n \in Nat /\ n <= Len(b)
  BY <1>2
<1> HIDE DEF n
<1>6. Len(SubSeq(b, 1, n)) = n
  BY <1>1, <1>5
<1>7. n = 3
  BY <1>3, <1>4, <1>6
<1>8. Len(b) = 3
  BY <1>2, <1>7 DEF n
<1>9. SubSeq(b, 1, Len(b)) = b
  BY <1>1
<1> QED
  BY <1>3, <1>7, <1>8, <1>9

(* No probe has been answered yet. *)
LEMMA InitProbe == Init => ProbeInv
<1> SUFFICES ASSUME Init PROVE ProbeInv
  OBVIOUS
<1>1. probe = [at |-> "none", to |-> 0]
  BY DEF Init, NoProbe, Foreign
<1>2. starts = 1 /\ pc = "off" /\ port \in {"free", "other"}
  BY DEF Init
<1> QED
  BY <1>1, <1>2 DEF ProbeInv, ProbeStates

(* A step of the server leaves the probe alone. *)
LEMMA ServerAlone ==
    ASSUME ProbeInv, probe' = probe, starts' = starts, up \in SUBSET up',
           pc' = "accepting" => pc = "accepting" \/ starts \in up',
           port' \in {"free", "ours", "other"}
    PROVE  ProbeInv'
BY DEF ProbeInv

(* A step of the probe leaves the server alone. *)
LEMMA ProbeAlone ==
    ASSUME ProbeInv, UNCHANGED serverVars, NEW at \in ProbeStates, NEW to \in Nat,
           probe' = [at |-> at, to |-> to],
           at \in {"accepted", "0"} => to \in up
    PROVE  ProbeInv'
<1>1. pc' = pc /\ starts' = starts /\ up' = up /\ port' = port
  BY DEF serverVars
<1> QED
  BY <1>1 DEF ProbeInv

(* A probe that moves on keeps its connection. *)
LEMMA ProbeMoves ==
    ASSUME ProbeInv, NEW at
    PROVE  [probe EXCEPT !.at = at] = [at |-> at, to |-> probe.to]
           /\ probe.to \in Nat
BY DEF ProbeInv

(* Every step keeps ProbeInv. *)
LEMMA NextProbe == ProbeInv /\ [Next]_vars => ProbeInv'
<1> SUFFICES ASSUME ProbeInv, [Next]_vars PROVE ProbeInv'
  OBVIOUS
<1>p. port \in {"free", "ours", "other"}
  BY DEF ProbeInv
<1>1. CASE ServerStep \/ ServerFails \/ Signal
  <2>1. probe' = probe /\ starts' = starts /\ up \in SUBSET up'
        /\ (pc' = "accepting" => pc = "accepting" \/ starts \in up')
        /\ port' \in {"free", "ours", "other"}
    BY <1>1, <1>p DEF ServerStep, ServerFails, Signal, ParseArguments, ReadConfig,
       BuildTarget, CollectSources, Register, FinishLoad, Listen, Accept,
       Shutdown, ServeReturns, Exit
  <2> QED
    BY <2>1, ServerAlone
<1>2. CASE \E a \in Arguments, f \in Files : Restart(a, f)
  <2>1. pc' = "off" /\ starts' = starts + 1 /\ probe' = probe /\ up' = up
        /\ port' = port
    BY <1>2 DEF Restart
  <2> QED
    BY <2>1 DEF ProbeInv
<1>3. CASE \E valid \in BOOLEAN : RunProbe(valid)
  <2>1. PICK at \in {"dial", "2"} : probe' = [at |-> at, to |-> 0]
    BY <1>3 DEF RunProbe, Foreign
  <2> QED
    BY <1>3, <2>1, ProbeAlone DEF ProbeStates, InFlight, RunProbe
<1>4. CASE Connect
  <2>1. CASE port = "ours"
    BY <1>4, <2>1, ProbeAlone DEF ProbeStates, InFlight, Connect, ProbeInv
  <2>2. CASE port = "other"
    BY <1>4, <2>2, ProbeAlone DEF ProbeStates, InFlight, Connect, Foreign
  <2>3. CASE port = "free"
    BY <1>4, <2>3, ProbeAlone DEF ProbeStates, InFlight, Connect, Foreign
  <2> QED
    BY <1>p, <2>1, <2>2, <2>3
<1>5. CASE ServerAcceptsProbe
  <2>1. probe.to \in up
    BY <1>5 DEF ServerAcceptsProbe, Alive, ProbeInv
  <2> QED
    BY <1>5, <2>1, ProbeMoves, ProbeAlone DEF ProbeStates, InFlight, ServerAcceptsProbe
<1>6. CASE HealthAnswer
  <2>1. probe.to \in up
    BY <1>6 DEF HealthAnswer, ProbeInv
  <2>2. ProbeVerdict(200, OK) \in ProbeStates
    BY DEF ProbeVerdict, ProbeStates
  <2> QED
    BY <1>6, <2>1, <2>2, ProbeMoves, ProbeAlone DEF HealthAnswer
<1>7. CASE ConnectionReset \/ ProbeTimeout
  BY <1>7, ProbeMoves, ProbeAlone DEF ProbeStates, InFlight, ConnectionReset, ProbeTimeout
<1>8. CASE \E answer \in ForeignAnswers : ForeignAnswer(answer)
  <2>1. probe' = [probe EXCEPT !.at = "1"] /\ UNCHANGED serverVars
    BY <1>8, ForeignVerdict DEF ForeignAnswer
  <2> QED
    BY <2>1, ProbeMoves, ProbeAlone DEF ProbeStates
<1>9. CASE ProbeReturns
  BY <1>9, ProbeAlone DEF ProbeStates, InFlight, ProbeReturns, NoProbe, Foreign
<1>10. CASE UNCHANGED vars
  <2>1. pc' = pc /\ starts' = starts /\ up' = up /\ port' = port /\ probe' = probe
    BY <1>10 DEF vars
  <2> QED
    BY <2>1 DEF ProbeInv
<1> QED
  BY <1>1, <1>2, <1>3, <1>4, <1>5, <1>6, <1>7, <1>8, <1>9, <1>10 DEF Next

-----------------------------------------------------------------------------
(* Load. *)

(* The targets that are configured are a list of known targets. *)
LEMMA ConfiguredSeq ==
    ASSUME file \in Files
    PROVE  /\ Configured \in Seq(AllTargets)
           /\ Len(Configured) \in Nat /\ DOMAIN Configured = 1 .. Len(Configured)
<1>1. file.targets \in Seq({file.targets[i] : i \in DOMAIN file.targets})
  BY StartupAssumption
<1>2. {file.targets[i] : i \in DOMAIN file.targets} \in SUBSET AllTargets
  BY DEF AllTargets
<1>3. file.targets \in Seq(AllTargets)
  BY <1>1, <1>2
<1>4. <<>> \in Seq(AllTargets)
  OBVIOUS
<1>5. Configured \in Seq(AllTargets)
  BY <1>3, <1>4 DEF Configured
<1> QED
  BY <1>5

(* What the constructors of each kind have in common. *)
LEMMA AcceptedTarget ==
    ASSUME NEW t, NEW readable, TargetAccepted(t, readable)
    PROVE  Accepted(t)
BY DEF TargetAccepted, Accepted, Kinds, buildKubernetesTarget,
   buildMonitoringTarget, buildFluxTarget, NewClientAccepts, NewAccepts,
   ValidIdentifier

(* A client is listed in its family, under the identifier of its target,    *)
(* with all capabilities of its kind.                                       *)
LEMMA ClientFields ==
    ASSUME NEW t
    PROVE  /\ Client(t).family = t.kind /\ Client(t).kind = t.kind
           /\ Client(t).nil = FALSE /\ Client(t).id = t.id
           /\ Client(t).caps = Capabilities(t.kind)
           /\ Client(t).timeout = RequestTimeout(t)
BY DEF Client

(* Building a client appends it to the list of its kind. *)
LEMMA AppendClient ==
    ASSUME ProcessInv, BuildInv, loaded < Len(Configured),
           Accepted(Configured[loaded + 1]), Configured' = Configured,
           built' = [built EXCEPT ![Configured[loaded + 1].kind] =
                        Append(@, Client(Configured[loaded + 1]))],
           loaded' = loaded + 1
    PROVE  BuildInv'
<1> DEFINE n == loaded + 1
           t == Configured[n]
<1>1. /\ Configured \in Seq(AllTargets) /\ Len(Configured) \in Nat
      /\ DOMAIN Configured = 1 .. Len(Configured) /\ loaded \in Nat
  BY ConfiguredSeq DEF ProcessInv
<1>2. n \in DOMAIN Configured /\ t \in AllTargets /\ t.kind \in Kinds
  BY <1>1 DEF Accepted
<1>3. Client(t) \in AllClients
  BY <1>2 DEF AllClients
<1>4. \A k \in Kinds : built[k] \in Seq(AllClients)
  BY DEF BuildInv
<1> DEFINE old == built[t.kind]
           c == Client(t)
           new == Append(old, c)
<1>5. /\ old \in Seq(AllClients) /\ Len(old) \in Nat
      /\ DOMAIN old = 1 .. Len(old)
  BY <1>2, <1>4
<1>6. /\ new \in Seq(AllClients) /\ Len(new) = Len(old) + 1
      /\ DOMAIN new = DOMAIN old \cup {Len(old) + 1}
      /\ new[Len(old) + 1] = Client(t)
      /\ \A j \in DOMAIN old : new[j] = old[j]
  <2>1. c \in AllClients /\ c = Client(t)
    BY <1>3
  <2> HIDE DEF c, old
  <2>2. new \in Seq(AllClients) /\ Len(new) = Len(old) + 1
    BY <1>5, <2>1
  <2>3. DOMAIN new = 1 .. Len(old) + 1
    BY <2>2
  <2>4. new[Len(old) + 1] = c /\ \A j \in 1 .. Len(old) : new[j] = old[j]
    BY <1>5, <2>1
  <2> HIDE DEF new
  <2> QED
    BY <1>5, <2>1, <2>2, <2>3, <2>4
<1>7. /\ built' \in [Kinds -> Seq(AllClients)]
      /\ built'[t.kind] = new
      /\ \A k \in Kinds \ {t.kind} : built'[k] = built[k]
  <2>1. built \in [Kinds -> Seq(AllClients)] /\ built' = [built EXCEPT ![t.kind] = new]
    BY DEF BuildInv
  <2> QED
    BY <1>2, <1>6, <2>1
<1> HIDE DEF new, old
<1>8. Len(built'["kubernetes"]) + Len(built'["monitoring"])
         + Len(built'["flux"]) = loaded'
  <2> DEFINE L(k) == Len(built[k])
             M(k) == Len(built'[k])
  <2>1. L("kubernetes") \in Nat /\ L("monitoring") \in Nat /\ L("flux") \in Nat
    BY <1>4 DEF Kinds
  <2>2. L("kubernetes") + L("monitoring") + L("flux") = loaded
    BY DEF BuildInv
  <2>3. \A k \in Kinds : M(k) = IF k = t.kind THEN L(k) + 1 ELSE L(k)
    BY <1>6, <1>7 DEF old
  <2>4. t.kind \in {"kubernetes", "monitoring", "flux"}
    BY <1>2 DEF Kinds
  <2>5. loaded' = loaded + 1
    OBVIOUS
  <2> SUFFICES M("kubernetes") + M("monitoring") + M("flux") = loaded'
    OBVIOUS
  <2> HIDE DEF t, L, M
  <2>6. CASE t.kind = "kubernetes"
    <3>1. M("kubernetes") = L("kubernetes") + 1
          /\ M("monitoring") = L("monitoring") /\ M("flux") = L("flux")
      BY <2>3, <2>6 DEF Kinds
    <3> QED
      BY ONLY <1>1, <2>1, <2>2, <2>5, <3>1
  <2>7. CASE t.kind = "monitoring"
    <3>1. M("monitoring") = L("monitoring") + 1
          /\ M("kubernetes") = L("kubernetes") /\ M("flux") = L("flux")
      BY <2>3, <2>7 DEF Kinds
    <3> QED
      BY ONLY <1>1, <2>1, <2>2, <2>5, <3>1
  <2>8. CASE t.kind = "flux"
    <3>1. M("flux") = L("flux") + 1
          /\ M("kubernetes") = L("kubernetes") /\ M("monitoring") = L("monitoring")
      BY <2>3, <2>8 DEF Kinds
    <3> QED
      BY ONLY <1>1, <2>1, <2>2, <2>5, <3>1
  <2> QED
    BY <2>4, <2>6, <2>7, <2>8
<1>9. BuiltOnly'
  <2> SUFFICES ASSUME NEW k \in Kinds, NEW j \in DOMAIN built'[k]
               PROVE  \E i \in 1 .. loaded + 1 :
                         Configured[i].kind = k /\ built'[k][j] = Client(Configured[i])
    BY DEF BuiltOnly
  <2>1. CASE k = t.kind /\ j = Len(old) + 1
    <3>1. built'[k][j] = Client(Configured[n]) /\ Configured[n].kind = k
      BY <1>6, <1>7, <2>1
    <3>2. n \in 1 .. loaded + 1
      BY <1>1
    <3> QED
      BY <3>1, <3>2
  <2>2. CASE ~(k = t.kind /\ j = Len(old) + 1)
    <3>1. j \in DOMAIN built[k] /\ built'[k][j] = built[k][j]
      BY <1>6, <1>7, <2>2 DEF old
    <3> QED
      BY <1>1, <3>1 DEF BuildInv, BuiltOnly
  <2> QED
    BY <2>1, <2>2
<1>10. BuiltAll'
  <2> SUFFICES ASSUME NEW i \in 1 .. loaded + 1
               PROVE  /\ Accepted(Configured[i])
                      /\ \E j \in DOMAIN built'[Configured[i].kind] :
                            built'[Configured[i].kind][j] = Client(Configured[i])
    BY DEF BuiltAll, Accepted, TimeoutAccepted, RequestTimeout
  <2>1. CASE i = loaded + 1
    BY <1>6, <1>7, <2>1
  <2>2. CASE i # loaded + 1
    <3>1. i \in 1 .. loaded
      BY <1>1, <2>2
    <3>2. PICK j \in DOMAIN built[Configured[i].kind] :
              built[Configured[i].kind][j] = Client(Configured[i])
      BY <3>1 DEF BuildInv, BuiltAll
    <3>3. Accepted(Configured[i]) /\ Configured[i].kind \in Kinds
      BY <3>1 DEF BuildInv, BuiltAll, Accepted
    <3>4. j \in DOMAIN built'[Configured[i].kind]
          /\ built'[Configured[i].kind][j] = built[Configured[i].kind][j]
      BY <1>6, <1>7, <3>2, <3>3 DEF old
    <3> QED
      BY <3>2, <3>3, <3>4
  <2> QED
    BY <2>1, <2>2
<1>11. BuiltOnce'
  <2> SUFFICES ASSUME \A i, j \in DOMAIN Configured :
                         Configured[i].id = Configured[j].id => i = j,
                      NEW k \in Kinds, NEW i \in DOMAIN built'[k],
                      NEW j \in DOMAIN built'[k],
                      built'[k][i].id = built'[k][j].id
               PROVE  i = j
    BY DEF BuiltOnce, Distinct
  <2>1. Distinct(Configured, LAMBDA x : x.id)
    BY DEF Distinct
  <2>2. \A p, q \in DOMAIN built[k] : built[k][p].id = built[k][q].id => p = q
    BY <2>1 DEF BuildInv, BuiltOnce
  <2>3. \A p \in DOMAIN built[k] : built[k][p].id # t.id
    <3> SUFFICES ASSUME NEW p \in DOMAIN built[k], built[k][p].id = t.id
                 PROVE  FALSE
      OBVIOUS
    <3>1. PICK m \in 1 .. loaded : built[k][p] = Client(Configured[m])
      BY DEF BuildInv, BuiltOnly
    <3>2. m \in DOMAIN Configured /\ m # n
      BY <1>1, <1>2
    <3> QED
      <4>1. Client(Configured[m]).id = Configured[m].id
        BY ClientFields
      <4>2. Configured[m].id = Configured[n].id
        BY <3>1, <4>1
      <4> QED
        BY <1>2, <3>2, <4>2
  <2>4. CASE k # t.kind
    BY <1>7, <2>2, <2>4
  <2>5. CASE k = t.kind
    <3>1. built'[k] = new /\ built[k] = old /\ Client(t).id = t.id
      BY <1>7, <2>5, ClientFields DEF old
    <3> QED
      BY <1>6, <2>2, <2>3, <3>1
  <2> QED
    BY <2>4, <2>5
<1> QED
  BY <1>7, <1>8, <1>9, <1>10, <1>11 DEF BuildInv

-----------------------------------------------------------------------------
(* The list of all clients. *)

(* Where an element of three lists in a row comes from. *)
LEMMA ThreeLists ==
    ASSUME NEW S, NEW a \in Seq(S), NEW b \in Seq(S), NEW c \in Seq(S),
           NEW e, e = a \o b \o c
    PROVE  /\ e \in Seq(S)
           /\ Len(e) = Len(a) + Len(b) + Len(c)
           /\ DOMAIN e = 1 .. Len(a) + Len(b) + Len(c)
           /\ \A i \in DOMAIN e :
                 /\ i <= Len(a) => i \in DOMAIN a /\ e[i] = a[i]
                 /\ Len(a) < i /\ i <= Len(a) + Len(b) =>
                       i - Len(a) \in DOMAIN b /\ e[i] = b[i - Len(a)]
                 /\ Len(a) + Len(b) < i =>
                       /\ i - (Len(a) + Len(b)) \in DOMAIN c
                       /\ e[i] = c[i - (Len(a) + Len(b))]
           /\ \A i \in DOMAIN a : i \in DOMAIN e /\ e[i] = a[i]
           /\ \A i \in DOMAIN b : Len(a) + i \in DOMAIN e /\ e[Len(a) + i] = b[i]
           /\ \A i \in DOMAIN c : /\ Len(a) + Len(b) + i \in DOMAIN e
                                  /\ e[Len(a) + Len(b) + i] = c[i]
<1> DEFINE d == a \o b
<1>1. /\ Len(a) \in Nat /\ DOMAIN a = 1 .. Len(a)
      /\ Len(b) \in Nat /\ DOMAIN b = 1 .. Len(b)
      /\ Len(c) \in Nat /\ DOMAIN c = 1 .. Len(c)
  OBVIOUS
<1>2. /\ d \in Seq(S) /\ Len(d) = Len(a) + Len(b)
      /\ DOMAIN d = 1 .. Len(a) + Len(b)
      /\ \A i \in 1 .. Len(a) + Len(b) :
            d[i] = IF i <= Len(a) THEN a[i] ELSE b[i - Len(a)]
  OBVIOUS
<1>3. e = d \o c
  OBVIOUS
<1> HIDE DEF d
<1>4. /\ e \in Seq(S) /\ Len(e) = Len(d) + Len(c)
      /\ DOMAIN e = 1 .. Len(d) + Len(c)
      /\ \A i \in 1 .. Len(d) + Len(c) :
            e[i] = IF i <= Len(d) THEN d[i] ELSE c[i - Len(d)]
  <2>1. d \in Seq(S)
    BY <1>2
  <2> QED
    BY ONLY <1>3, <2>1, c \in Seq(S)
<1>5. /\ Len(e) = Len(a) + Len(b) + Len(c)
      /\ DOMAIN e = 1 .. Len(a) + Len(b) + Len(c)
  BY <1>1, <1>2, <1>4
<1>6. ASSUME NEW i \in DOMAIN e
      PROVE  /\ i <= Len(a) => i \in DOMAIN a /\ e[i] = a[i]
             /\ Len(a) < i /\ i <= Len(a) + Len(b) =>
                   i - Len(a) \in DOMAIN b /\ e[i] = b[i - Len(a)]
             /\ Len(a) + Len(b) < i =>
                   /\ i - (Len(a) + Len(b)) \in DOMAIN c
                   /\ e[i] = c[i - (Len(a) + Len(b))]
  <2>1. e[i] = IF i <= Len(a) + Len(b) THEN d[i] ELSE c[i - (Len(a) + Len(b))]
    BY <1>1, <1>2, <1>4
  <2>2. i <= Len(a) + Len(b) => d[i] = IF i <= Len(a) THEN a[i] ELSE b[i - Len(a)]
    BY <1>1, <1>2, <1>5
  <2>3. i \in 1 .. Len(a) + Len(b) + Len(c)
    BY <1>5
  <2> QED
    BY <1>1, <2>1, <2>2, <2>3
<1>7. ASSUME NEW i \in DOMAIN a PROVE i \in DOMAIN e /\ e[i] = a[i]
  BY <1>1, <1>5, <1>6
<1>8. ASSUME NEW i \in DOMAIN b
      PROVE  Len(a) + i \in DOMAIN e /\ e[Len(a) + i] = b[i]
  <2>1. Len(a) + i \in DOMAIN e /\ Len(a) < Len(a) + i
        /\ Len(a) + i <= Len(a) + Len(b) /\ (Len(a) + i) - Len(a) = i
    BY <1>1, <1>5
  <2> QED
    BY <1>6, <2>1
<1>9. ASSUME NEW i \in DOMAIN c
       PROVE  Len(a) + Len(b) + i \in DOMAIN e /\ e[Len(a) + Len(b) + i] = c[i]
  <2>1. Len(a) + Len(b) + i \in DOMAIN e /\ Len(a) + Len(b) < Len(a) + Len(b) + i
        /\ (Len(a) + Len(b) + i) - (Len(a) + Len(b)) = i
    BY <1>1, <1>5
  <2> QED
    BY <1>6, <2>1
<1> QED
  BY <1>4, <1>5, <1>6, <1>7, <1>8, <1>9

(* All configured targets, and nothing else, are in the list of sources; an *)
(* identifier is there twice only if it is configured twice.                *)
LEMMA SourceFacts ==
    ASSUME ProcessInv, BuildInv, sources = Collected, loaded = Len(Configured)
    PROVE  /\ sources \in Seq(AllClients) /\ Len(sources) = Len(Configured)
           /\ \A i \in DOMAIN sources : \E n \in DOMAIN Configured :
                 Accepted(Configured[n]) /\ sources[i] = Client(Configured[n])
           /\ \A n \in DOMAIN Configured :
                 /\ Accepted(Configured[n])
                 /\ \E i \in DOMAIN sources : sources[i] = Client(Configured[n])
           /\ Distinct(Configured, LAMBDA t : t.id) =>
                 \A i, j \in DOMAIN sources : sources[i].id = sources[j].id => i = j
<1> DEFINE a == built["kubernetes"]
           b == built["monitoring"]
           c == built["flux"]
<1>1. /\ Configured \in Seq(AllTargets) /\ Len(Configured) \in Nat
      /\ DOMAIN Configured = 1 .. Len(Configured)
  BY ConfiguredSeq DEF ProcessInv
<1>2. /\ a \in Seq(AllClients) /\ b \in Seq(AllClients) /\ c \in Seq(AllClients)
      /\ Len(a) + Len(b) + Len(c) = loaded /\ sources = a \o b \o c
  BY DEF BuildInv, Kinds, Collected
<1>3. /\ Len(a) \in Nat /\ Len(b) \in Nat /\ Len(c) \in Nat
      /\ DOMAIN a = 1 .. Len(a) /\ DOMAIN b = 1 .. Len(b) /\ DOMAIN c = 1 .. Len(c)
  BY <1>2
<1>4. \A k \in Kinds : \A j \in DOMAIN built[k] :
         \E n \in DOMAIN Configured : /\ Configured[n].kind = k
                                      /\ built[k][j] = Client(Configured[n])
  <2>1. 1 .. loaded = DOMAIN Configured
    BY <1>1
  <2> SUFFICES ASSUME NEW k \in Kinds, NEW j \in DOMAIN built[k]
               PROVE  \E n \in DOMAIN Configured :
                         Configured[n].kind = k /\ built[k][j] = Client(Configured[n])
    OBVIOUS
  <2>2. PICK i \in 1 .. loaded :
            Configured[i].kind = k /\ built[k][j] = Client(Configured[i])
    BY DEF BuildInv, BuiltOnly
  <2> QED
    BY <2>1, <2>2
<1>5. \A n \in DOMAIN Configured :
         /\ Accepted(Configured[n]) /\ Configured[n].kind \in Kinds
         /\ \E j \in DOMAIN built[Configured[n].kind] :
               built[Configured[n].kind][j] = Client(Configured[n])
  BY <1>1 DEF BuildInv, BuiltAll, Accepted
<1>6. \A j \in DOMAIN a : \E n \in DOMAIN Configured :
         Configured[n].kind = "kubernetes" /\ a[j] = Client(Configured[n])
  BY <1>4 DEF Kinds
<1>7. \A j \in DOMAIN b : \E n \in DOMAIN Configured :
         Configured[n].kind = "monitoring" /\ b[j] = Client(Configured[n])
  BY <1>4 DEF Kinds
<1>8. \A j \in DOMAIN c : \E n \in DOMAIN Configured :
         Configured[n].kind = "flux" /\ c[j] = Client(Configured[n])
  BY <1>4 DEF Kinds
<1>9. \A n \in DOMAIN Configured :
         \/ \E j \in DOMAIN a : a[j] = Client(Configured[n])
         \/ \E j \in DOMAIN b : b[j] = Client(Configured[n])
         \/ \E j \in DOMAIN c : c[j] = Client(Configured[n])
  BY <1>5 DEF Kinds
<1>10. Distinct(Configured, LAMBDA t : t.id) =>
          /\ \A i, j \in DOMAIN a : a[i].id = a[j].id => i = j
          /\ \A i, j \in DOMAIN b : b[i].id = b[j].id => i = j
          /\ \A i, j \in DOMAIN c : c[i].id = c[j].id => i = j
  BY DEF BuildInv, BuiltOnce, Kinds
<1> HIDE DEF a, b, c
<1>11. sources \in Seq(AllClients) /\ Len(sources) = Len(Configured)
       /\ DOMAIN sources = 1 .. Len(a) + Len(b) + Len(c)
  BY <1>2, ThreeLists
<1>12. sources = a \o b \o c /\ a \in Seq(AllClients) /\ b \in Seq(AllClients)
          /\ c \in Seq(AllClients)
  BY <1>2
<1>13. ASSUME NEW i \in DOMAIN sources
       PROVE  /\ i <= Len(a) => i \in DOMAIN a /\ sources[i] = a[i]
              /\ Len(a) < i /\ i <= Len(a) + Len(b) =>
                    i - Len(a) \in DOMAIN b /\ sources[i] = b[i - Len(a)]
              /\ Len(a) + Len(b) < i =>
                    /\ i - (Len(a) + Len(b)) \in DOMAIN c
                    /\ sources[i] = c[i - (Len(a) + Len(b))]
  BY <1>12, ThreeLists
<1>14. ASSUME NEW i \in DOMAIN sources
       PROVE  i \in Nat /\ (i <= Len(a) \/ (Len(a) < i /\ i <= Len(a) + Len(b))
                                       \/ Len(a) + Len(b) < i)
  BY <1>3, <1>11
<1>15. ASSUME NEW i \in DOMAIN sources
       PROVE  \E n \in DOMAIN Configured :
                 Accepted(Configured[n]) /\ sources[i] = Client(Configured[n])
  BY <1>5, <1>6, <1>7, <1>8, <1>13, <1>14
<1>16. ASSUME NEW n \in DOMAIN Configured
       PROVE  \E i \in DOMAIN sources : sources[i] = Client(Configured[n])
  <2>1. /\ \A i \in DOMAIN a : i \in DOMAIN sources /\ sources[i] = a[i]
        /\ \A i \in DOMAIN b :
              Len(a) + i \in DOMAIN sources /\ sources[Len(a) + i] = b[i]
        /\ \A i \in DOMAIN c :
              /\ Len(a) + Len(b) + i \in DOMAIN sources
              /\ sources[Len(a) + Len(b) + i] = c[i]
    BY <1>12, ThreeLists
  <2> QED
    BY <1>9, <2>1, Zenon
<1>17. ASSUME Distinct(Configured, LAMBDA t : t.id),
              NEW i \in DOMAIN sources, NEW j \in DOMAIN sources,
              sources[i].id = sources[j].id
       PROVE  i = j
  <2>1. ASSUME NEW p \in DOMAIN Configured, NEW q \in DOMAIN Configured,
               Client(Configured[p]).id = Client(Configured[q]).id
        PROVE  Configured[p].kind = Configured[q].kind
    BY <1>17, <2>1, ClientFields DEF Distinct
  <2>2. \A x \in DOMAIN a, y \in DOMAIN b : a[x].id # b[y].id
    BY <1>6, <1>7, <2>1
  <2>3. \A x \in DOMAIN a, y \in DOMAIN c : a[x].id # c[y].id
    BY <1>6, <1>8, <2>1
  <2>4. \A x \in DOMAIN b, y \in DOMAIN c : b[x].id # c[y].id
    BY <1>7, <1>8, <2>1
  <2>5. CASE i <= Len(a)
    BY <1>10, <1>13, <1>14, <1>17, <2>2, <2>3, <2>5
  <2>6. CASE Len(a) < i /\ i <= Len(a) + Len(b)
    <3>1. j > Len(a) /\ j <= Len(a) + Len(b)
      BY <1>3, <1>13, <1>14, <1>17, <2>2, <2>4, <2>6
    <3>2. i - Len(a) = j - Len(a)
      BY <1>10, <1>13, <1>17, <2>6, <3>1
    <3> QED
      BY <1>3, <1>14, <3>2
  <2>7. CASE Len(a) + Len(b) < i
    <3>1. Len(a) + Len(b) < j
      BY <1>13, <1>14, <1>17, <2>3, <2>4, <2>7
    <3>2. i - (Len(a) + Len(b)) = j - (Len(a) + Len(b))
      BY <1>10, <1>13, <1>17, <2>7, <3>1
    <3> QED
      BY <1>3, <1>14, <3>2
  <2> QED
    BY <1>14, <2>5, <2>6, <2>7
<1> QED
  BY <1>5, <1>11, <1>15, <1>16, <1>17

-----------------------------------------------------------------------------
(* Registration. *)

(* Short lists. *)
LEMMA ShortSeqs ==
    ASSUME NEW S, NEW x \in S, NEW y \in S
    PROVE  <<x>> \in Seq(S) /\ <<x, y>> \in Seq(S)
OBVIOUS

(* Lists of clients are sources as Registry assumes them. *)
LEMMA ClientsAreSources == RP!RegistryAssumption
<1>1. MaxTargets \in Nat
  BY StartupAssumption
<1>2. ASSUME NEW s \in Seq(AllClients)
      PROVE  /\ s \in Seq(RP!Elements(s))
             /\ \A i \in DOMAIN s : s[i].caps \in Seq(RP!Elements(s[i].caps))
  <2>1. s \in Seq(RP!Elements(s))
    BY DEF RP!Elements
  <2>2. ASSUME NEW i \in DOMAIN s
        PROVE  s[i].caps \in Seq(RP!Elements(s[i].caps))
    <3>1. PICK t \in AllTargets : t.kind \in Kinds /\ s[i] = Client(t)
      BY DEF AllClients
    <3>2. s[i].caps = Capabilities(t.kind)
      BY <3>1, ClientFields
    <3>3. \A k \in Kinds : Capabilities(k) \in Seq(RP!Caps)
      <4> USE DEF RP!Caps, RP!KubernetesCaps, RP!MonitoringCaps, RP!FluxCaps
      <4>1. Capabilities("kubernetes") \in Seq(RP!Caps)
        BY ShortSeqs DEF Capabilities
      <4>2. Capabilities("monitoring") \in Seq(RP!Caps)
        BY ShortSeqs DEF Capabilities
      <4>3. Capabilities("flux") \in Seq(RP!Caps)
        BY ShortSeqs DEF Capabilities
      <4> QED
        BY <4>1, <4>2, <4>3 DEF Kinds
    <3>4. \A c \in Seq(RP!Caps) : c \in Seq(RP!Elements(c))
      BY DEF RP!Elements
    <3> QED
      BY <3>1, <3>2, <3>3, <3>4
  <2> QED
    BY <2>1, <2>2
<1> QED
  BY <1>1, <1>2 DEF RP!RegistryAssumption

(* The steps of the server's construction are those of Registry. *)
LEMMA SameSteps ==
    /\ R!RefuseSource => RP!RefuseSource
    /\ R!AddSource => RP!AddSource
    /\ R!NewCatalogFails => RP!NewCatalogFails
    /\ R!NewCatalogSucceeds => RP!NewCatalogSucceeds
    /\ R!Constructed => RP!Constructed
<1> USE DEF R!Elements, RP!Elements, R!Caps, RP!Caps, R!KubernetesCaps,
            RP!KubernetesCaps, R!MonitoringCaps, RP!MonitoringCaps, R!FluxCaps,
            RP!FluxCaps
<1>1. R!RefuseSource => RP!RefuseSource
  BY DEF R!RefuseSource, RP!RefuseSource
<1>2. R!AddSource => RP!AddSource
  BY DEF R!AddSource, RP!AddSource, R!Registers, RP!Registers, R!Put, RP!Put
<1>3. R!NewCatalogAccepts <=> RP!NewCatalogAccepts
  BY DEF R!NewCatalogAccepts, RP!NewCatalogAccepts, R!validateTarget,
     RP!validateTarget, R!capabilityMatchesKind, RP!capabilityMatchesKind
<1>4. R!NewCatalogFails => RP!NewCatalogFails
  BY <1>3 DEF R!NewCatalogFails, RP!NewCatalogFails
<1>5. R!NewCatalogSucceeds => RP!NewCatalogSucceeds
  BY <1>3 DEF R!NewCatalogSucceeds, RP!NewCatalogSucceeds
<1>6. R!Constructed => RP!Constructed
  BY DEF R!Constructed, RP!Constructed, R!vars, RP!vars
<1> QED
  BY <1>1, <1>2, <1>4, <1>5, <1>6

(* The construction begins well ... *)
LEMMA InitRegistry == RP!Init => RP!IInv
BY ClientsAreSources, RP!InitIInv

(* ... and each of its steps keeps what is known of it. *)
LEMMA RegistryStep ==
    ASSUME RP!IInv, R!Next
    PROVE  RP!IInv'
<1>1. RP!Next
  BY SameSteps DEF R!Next, RP!Next
<1> QED
  BY <1>1, ClientsAreSources, RP!NextIInv

(* A source that was built is never refused by itself. *)
LEMMA BuiltIsValid ==
    ASSUME NEW t, Accepted(t)
    PROVE  RP!validateTarget(Client(t))
<1>1. Client(t).id # "bad" /\ Client(t).kind = t.kind
      /\ Client(t).caps = Capabilities(t.kind) /\ t.kind \in Kinds
  BY ClientFields DEF Accepted
<1>2. \A k \in Kinds :
         /\ k \in {"kubernetes", "monitoring", "flux"} /\ Capabilities(k) # <<>>
         /\ \A i \in DOMAIN Capabilities(k) :
               RP!capabilityMatchesKind(k, Capabilities(k)[i])
         /\ \A i, j \in DOMAIN Capabilities(k) :
               i # j => Capabilities(k)[i] # Capabilities(k)[j]
  BY DEF Kinds, Capabilities, RP!capabilityMatchesKind, RP!KubernetesCaps,
     RP!MonitoringCaps, RP!FluxCaps
<1> QED
  BY <1>1, <1>2 DEF RP!validateTarget

(* The construction fails only over an identifier that is used twice. *)
LEMMA FailsForDuplicates ==
    ASSUME ProcessInv, BuildInv, RP!IInv, sources = Collected,
           loaded = Len(Configured), Len(Configured) <= MaxTargets,
           Distinct(Configured, LAMBDA t : t.id)
    PROVE  ~RP!RefuseSource /\ ~RP!NewCatalogFails
<1>1. /\ sources \in Seq(AllClients) /\ Len(sources) = Len(Configured)
      /\ \A i \in DOMAIN sources : \E n \in DOMAIN Configured :
            Accepted(Configured[n]) /\ sources[i] = Client(Configured[n])
      /\ \A i, j \in DOMAIN sources : sources[i].id = sources[j].id => i = j
  BY SourceFacts
<1>2. Len(sources) \in Nat /\ DOMAIN sources = 1 .. Len(sources)
  BY <1>1
<1>3. /\ next \in 1 .. Len(sources) + 1
      /\ targets \in Seq(RP!Elements(sources)) /\ Len(targets) = next - 1
      /\ \A i \in 1 .. next - 1 : targets[i] = sources[i]
  BY DEF RP!IInv, RP!WalkInv, RP!Entered
<1>4. ~RP!RefuseSource
  <2> SUFFICES ASSUME RP!RefuseSource PROVE FALSE
    OBVIOUS
  <2>1. next \in DOMAIN sources
    BY <1>2, <1>3 DEF RP!RefuseSource
  <2>2. PICK n \in DOMAIN Configured : sources[next] = Client(Configured[n])
    BY <1>1, <2>1
  <2>3. sources[next].nil = FALSE /\ sources[next].kind = sources[next].family
    <3>1. /\ Client(Configured[n]).nil = FALSE
          /\ Client(Configured[n]).kind = Configured[n].kind
          /\ Client(Configured[n]).family = Configured[n].kind
      BY DEF Client
    <3> QED
      BY <2>2, <3>1, Zenon
  <2> QED
    BY <2>3, Zenon DEF RP!RefuseSource
<1>5. ~RP!NewCatalogFails
  <2> SUFFICES ASSUME RP!NewCatalogFails PROVE RP!NewCatalogAccepts
    BY DEF RP!NewCatalogFails
  <2>1. next = Len(sources) + 1 /\ Len(targets) = Len(sources)
    BY <1>2, <1>3 DEF RP!NewCatalogFails
  <2>2. /\ DOMAIN targets = DOMAIN sources
        /\ \A i \in DOMAIN targets : targets[i] = sources[i]
    BY <1>2, <1>3, <2>1
  <2>3. Len(targets) <= MaxTargets
    BY <1>1, <2>1
  <2>4. \A i \in DOMAIN targets : RP!validateTarget(targets[i])
    BY <1>1, <2>2, BuiltIsValid
  <2>5. \A i, j \in DOMAIN targets : i # j => targets[i].id # targets[j].id
    BY <1>1, <2>2
  <2> QED
    BY <2>3, <2>4, <2>5 DEF RP!NewCatalogAccepts
<1> QED
  BY <1>4, <1>5

-----------------------------------------------------------------------------
(* The steps. *)

(* What concerns the process, without the probe. *)
LoadInv == ProcessInv /\ BuildInv /\ RegisterInv /\ RefusedOnlyForDuplicates

Started ==
    /\ args \in Arguments /\ file \in Files /\ loaded = 0 /\ pc = "off"
    /\ built = [k \in Kinds |-> <<>>]
    /\ sources = <<>> /\ next = 1 /\ byID = [cap \in R!Caps |-> <<>>]
    /\ targets = <<>> /\ catalog = <<>> /\ server = "building"

(* A process that starts has loaded nothing. *)
LEMMA StartedLoad == Started => LoadInv
<1> SUFFICES ASSUME Started PROVE LoadInv
  OBVIOUS
<1> USE DEF Started
<1>1. ProcessInv
  BY ConfiguredSeq DEF ProcessInv
<1>2. BuildInv
  <2>1. built \in [Kinds -> Seq(AllClients)] /\ \A k \in Kinds : built[k] = <<>>
    OBVIOUS
  <2>2. Len(built["kubernetes"]) = 0 /\ Len(built["monitoring"]) = 0
        /\ Len(built["flux"]) = 0
    BY <2>1 DEF Kinds
  <2>3. BuiltOnly /\ BuiltAll /\ BuiltOnce
    BY <2>1 DEF BuiltOnly, BuiltAll, BuiltOnce
  <2> QED
    <3>1. Len(built["kubernetes"]) + Len(built["monitoring"])
             + Len(built["flux"]) = loaded
      <4>1. 0 + 0 + 0 = 0 /\ loaded = 0
        OBVIOUS
      <4> QED
        BY ONLY <2>2, <4>1, Zenon
    <3> QED
      BY <2>1, <2>3, <3>1 DEF BuildInv
<1>3. RP!Init
  BY DEF RP!Init, R!Caps, RP!Caps, R!KubernetesCaps, RP!KubernetesCaps,
     R!MonitoringCaps, RP!MonitoringCaps, R!FluxCaps, RP!FluxCaps
<1>4. RP!IInv
  BY <1>3, InitRegistry
<1>5. RegisterInv
  BY <1>3, <1>4 DEF RegisterInv, Serving
<1>6. RefusedOnlyForDuplicates
  BY DEF RefusedOnlyForDuplicates
<1> QED
  BY <1>1, <1>2, <1>5, <1>6 DEF LoadInv

(* The clients stay as they are while Load does not run. *)
LEMMA BuildFrame ==
    ASSUME BuildInv, UNCHANGED loadVars
    PROVE  BuildInv'
<1>1. args' = args /\ file' = file /\ loaded' = loaded /\ built' = built
  BY DEF loadVars
<1>2. Configured' = Configured
  BY <1>1 DEF Configured
<1>3. BuiltOnly'
  BY <1>1, <1>2 DEF BuildInv, BuiltOnly
<1>4. BuiltAll'
  BY <1>1, <1>2 DEF BuildInv, BuiltAll
<1>5. BuiltOnce'
  BY <1>1, <1>2 DEF BuildInv, BuiltOnce, Distinct
<1> QED
  BY <1>1, <1>3, <1>4, <1>5 DEF BuildInv

(* A step of the process that leaves its files, clients and maps alone. *)
LEMMA OtherStep ==
    ASSUME LoadInv, UNCHANGED loadVars, UNCHANGED registryVars,
           pc' \in {"build", "register"} => Len(Configured) <= MaxTargets,
           pc' \in {"off", "load", "build"} => pc \in {"off", "load", "build"},
           pc' \in Serving \cup {"register"} => pc \in Serving \cup {"register"},
           pc' \in Serving => pc \in Serving \/ server = "ready"
    PROVE  LoadInv'
<1>1. args' = args /\ file' = file /\ loaded' = loaded /\ built' = built
  BY DEF loadVars
<1>2. /\ sources' = sources /\ next' = next /\ byID' = byID
      /\ targets' = targets /\ catalog' = catalog /\ server' = server
  BY DEF registryVars
<1>3. Configured' = Configured /\ Collected' = Collected
  BY <1>1 DEF Configured, Collected
<1>4. ProcessInv'
  BY <1>1, <1>3 DEF LoadInv, ProcessInv
<1>5. BuildInv'
  BY BuildFrame DEF LoadInv
<1>6. RP!IInv'
  <2>1. UNCHANGED RP!vars
    BY <1>2 DEF RP!vars
  <2> QED
    BY <2>1, ClientsAreSources, RP!NextIInv DEF LoadInv, RegisterInv
<1>7. RP!Init => RP!Init'
  BY <1>2 DEF RP!Init
<1>8. RegisterInv'
  BY <1>1, <1>2, <1>3, <1>6, <1>7 DEF LoadInv, RegisterInv
<1>9. RefusedOnlyForDuplicates'
  BY <1>2, <1>3 DEF LoadInv, RefusedOnlyForDuplicates, Distinct
<1> QED
  BY <1>4, <1>5, <1>8, <1>9 DEF LoadInv

(* Load builds one client or exits. *)
LEMMA BuildTargetLoad ==
    ASSUME LoadInv, NEW readable \in BOOLEAN, BuildTarget(readable)
    PROVE  LoadInv'
<1> DEFINE t == Configured[loaded + 1]
<1>1. /\ pc = "build" /\ loaded < Len(Configured)
      /\ args' = args /\ file' = file /\ UNCHANGED registryVars
  BY DEF BuildTarget
<1>2. CASE TargetAccepted(t, readable)
  <2>1. /\ built' = [built EXCEPT ![t.kind] = Append(@, Client(t))]
        /\ loaded' = loaded + 1 /\ pc' = pc
    BY <1>2 DEF BuildTarget
  <2>2. Accepted(t)
    BY <1>2, AcceptedTarget
  <2>3. Configured' = Configured
    BY <1>1 DEF Configured
  <2>4. BuildInv'
    BY <1>1, <2>1, <2>2, <2>3, AppendClient DEF LoadInv
  <2>5. ProcessInv'
    <3>1. loaded \in 0 .. Len(Configured) /\ Len(Configured) \in Nat
      BY ConfiguredSeq DEF LoadInv, ProcessInv
    <3>2. loaded' \in 0 .. Len(Configured)
      BY <1>1, <2>1, <3>1
    <3> QED
      BY <1>1, <2>1, <2>3, <3>2 DEF LoadInv, ProcessInv
  <2>6. /\ sources' = sources /\ next' = next /\ byID' = byID
        /\ targets' = targets /\ catalog' = catalog /\ server' = server
    BY <1>1 DEF registryVars
  <2>7. RP!Init'
    BY <1>1, <2>6 DEF LoadInv, RegisterInv, RP!Init
  <2>8. RP!IInv'
    <3>1. UNCHANGED RP!vars
      BY <2>6 DEF RP!vars
    <3> QED
      BY <3>1, ClientsAreSources, RP!NextIInv DEF LoadInv, RegisterInv
  <2>9. RegisterInv'
    BY <1>1, <2>1, <2>6, <2>7, <2>8 DEF LoadInv, RegisterInv, Serving
  <2>10. RefusedOnlyForDuplicates'
    BY <2>3, <2>6 DEF LoadInv, RefusedOnlyForDuplicates, Distinct
  <2> QED
    BY <2>4, <2>5, <2>9, <2>10 DEF LoadInv
<1>3. CASE ~TargetAccepted(t, readable)
  <2>1. pc' = "exited" /\ loaded' = loaded /\ built' = built
    BY <1>3 DEF BuildTarget, Exit
  <2>2. UNCHANGED loadVars
    BY <1>1, <2>1 DEF loadVars
  <2> QED
    BY <1>1, <2>1, <2>2, OtherStep DEF Serving
<1> QED
  BY <1>2, <1>3

(* The clients are handed to the server. *)
LEMMA CollectSourcesLoad ==
    ASSUME LoadInv, CollectSources
    PROVE  LoadInv'
<1>1. /\ pc = "build" /\ pc' = "register" /\ loaded = Len(Configured)
      /\ sources' = Collected /\ UNCHANGED loadVars
      /\ next' = next /\ byID' = byID /\ targets' = targets
      /\ catalog' = catalog /\ server' = server
  BY DEF CollectSources
<1>2. args' = args /\ file' = file /\ loaded' = loaded /\ built' = built
  BY <1>1 DEF loadVars
<1>3. Configured' = Configured /\ Collected' = Collected
  BY <1>2 DEF Configured, Collected
<1>4. ProcessInv'
  BY <1>1, <1>2, <1>3 DEF LoadInv, ProcessInv
<1>5. BuildInv'
  BY <1>1, BuildFrame DEF LoadInv
<1>6. RP!Init /\ Collected \in Seq(AllClients)
  <2>1. /\ built["kubernetes"] \in Seq(AllClients)
        /\ built["monitoring"] \in Seq(AllClients)
        /\ built["flux"] \in Seq(AllClients)
    BY DEF LoadInv, BuildInv, Kinds
  <2> QED
    BY <1>1, <2>1, ThreeLists DEF LoadInv, RegisterInv, Collected
<1>7. RP!Init'
  BY <1>1, <1>3, <1>6 DEF RP!Init
<1>8. RP!IInv'
  <2>1. (RP!Init => RP!IInv)'
    BY InitRegistry, PTL
  <2> QED
    BY <1>7, <2>1
<1>9. RegisterInv'
  BY <1>1, <1>2, <1>3, <1>8 DEF LoadInv, RegisterInv, Serving
<1>10. RefusedOnlyForDuplicates'
  BY <1>1, <1>3 DEF LoadInv, RefusedOnlyForDuplicates, Distinct
<1> QED
  BY <1>4, <1>5, <1>9, <1>10 DEF LoadInv

(* NewWithSourceSet takes a step. *)
LEMMA RegisterLoad ==
    ASSUME LoadInv, Register
    PROVE  LoadInv'
<1>1. pc = "register" /\ pc' = "register" /\ server = "building" /\ R!Next
      /\ UNCHANGED loadVars
  BY DEF Register
<1>2. args' = args /\ file' = file /\ loaded' = loaded /\ built' = built
  BY <1>1 DEF loadVars
<1>3. Configured' = Configured /\ Collected' = Collected
  BY <1>2 DEF Configured, Collected
<1>4. ProcessInv'
  BY <1>1, <1>2, <1>3 DEF LoadInv, ProcessInv
<1>5. BuildInv'
  BY <1>1, BuildFrame DEF LoadInv
<1>6. RP!IInv'
  BY <1>1, RegistryStep DEF LoadInv, RegisterInv
<1>7. sources' = sources /\ server' \in {"building", "failed", "ready"}
  BY <1>1 DEF R!Next, R!RefuseSource, R!AddSource, R!NewCatalogFails,
     R!NewCatalogSucceeds, R!Constructed
<1>8. RegisterInv'
  BY <1>1, <1>2, <1>3, <1>6, <1>7 DEF LoadInv, RegisterInv, Serving
<1>9. RefusedOnlyForDuplicates'
  <2> SUFFICES ASSUME server' = "failed", Distinct(Configured, LAMBDA t : t.id)
               PROVE  FALSE
    BY <1>3 DEF RefusedOnlyForDuplicates, Distinct
  <2>1. RP!RefuseSource \/ RP!NewCatalogFails
    BY <1>1, SameSteps DEF R!Next, R!AddSource, R!NewCatalogSucceeds, R!Constructed
  <2>2. sources = Collected /\ loaded = Len(Configured)
        /\ Len(Configured) <= MaxTargets
    BY <1>1 DEF LoadInv, RegisterInv, ProcessInv
  <2> QED
    BY <2>1, <2>2, FailsForDuplicates DEF LoadInv, RegisterInv
<1> QED
  BY <1>4, <1>5, <1>8, <1>9 DEF LoadInv

(* The process is started again. *)
LEMMA RestartLoad ==
    ASSUME LoadInv, NEW a \in Arguments, NEW f \in Files, Restart(a, f)
    PROVE  LoadInv'
<1>1. Started'
  BY DEF Restart, Started, R!Caps, R!KubernetesCaps, R!MonitoringCaps, R!FluxCaps
<1>2. (Started => LoadInv)'
  BY StartedLoad, PTL
<1> QED
  BY <1>1, <1>2

(* Every step keeps what Load and the construction have established. *)
LEMMA NextLoad ==
    ASSUME LoadInv, [Next]_vars
    PROVE  LoadInv'
<1>1. CASE ParseArguments
  BY <1>1, OtherStep DEF ParseArguments, Exit, Serving
<1>2. CASE ReadConfig
  <2>1. pc' = "build" => Len(Configured) <= MaxTargets
    <3>1. pc' = "build" => ~args.config \/ DecodeAccepts
      BY <1>2 DEF ReadConfig, Exit
    <3>2. ~args.config => Len(Configured) = 0
      BY DEF Configured
    <3>3. args.config /\ DecodeAccepts => Len(Configured) <= MaxTargets
      BY DEF Configured, DecodeAccepts
    <3> QED
      BY <3>1, <3>2, <3>3, StartupAssumption
  <2>2. /\ UNCHANGED loadVars /\ UNCHANGED registryVars /\ pc = "load"
        /\ pc' \in {"build", "exited"}
    BY <1>2 DEF ReadConfig, Exit
  <2> QED
    BY <2>1, <2>2, OtherStep DEF Serving
<1>3. CASE \E readable \in BOOLEAN : BuildTarget(readable)
  BY <1>3, BuildTargetLoad
<1>4. CASE CollectSources
  BY <1>4, CollectSourcesLoad
<1>5. CASE Register
  BY <1>5, RegisterLoad
<1>6. CASE FinishLoad
  <2>1. /\ pc = "register" /\ UNCHANGED loadVars /\ UNCHANGED registryVars
        /\ pc' \in {"exited", "stdio", "listen"}
        /\ server = "failed" => pc' = "exited"
        /\ server # "building"
    BY <1>6 DEF FinishLoad, Exit
  <2>2. server \in {"building", "failed", "ready"}
    BY DEF LoadInv, RegisterInv
  <2> QED
    BY <2>1, <2>2, OtherStep DEF Serving
<1>7. CASE Listen \/ Accept \/ Shutdown \/ ServeReturns \/ ServerFails \/ Signal
  <2>1. /\ UNCHANGED loadVars /\ UNCHANGED registryVars
        /\ \/ pc \in Serving /\ pc' \in Serving \cup {"exited"}
           \/ pc' = pc
    BY <1>7 DEF Listen, Accept, Shutdown, ServeReturns, ServerFails, Signal,
       Exit, Serving
  <2> QED
    BY <2>1, OtherStep DEF Serving, LoadInv, ProcessInv
<1>8. CASE \E a \in Arguments, f \in Files : Restart(a, f)
  BY <1>8, RestartLoad
<1>9. CASE \/ \E valid \in BOOLEAN : RunProbe(valid)
           \/ Connect \/ ServerAcceptsProbe \/ HealthAnswer \/ ConnectionReset
           \/ \E answer \in ForeignAnswers : ForeignAnswer(answer)
           \/ ProbeTimeout \/ ProbeReturns \/ UNCHANGED vars
  <2>1. UNCHANGED loadVars /\ UNCHANGED registryVars /\ pc' = pc
    BY <1>9 DEF RunProbe, Connect, ServerAcceptsProbe, HealthAnswer,
       ConnectionReset, ForeignAnswer, ProbeTimeout, ProbeReturns, serverVars, vars
  <2> QED
    BY <2>1, OtherStep DEF LoadInv, ProcessInv
<1> QED
  BY <1>1, <1>2, <1>3, <1>4, <1>5, <1>6, <1>7, <1>8, <1>9 DEF Next, ServerStep

-----------------------------------------------------------------------------
(* The theorems. *)

(* A client answers for every capability of its kind. *)
LEMMA ClientRegisters ==
    ASSUME NEW t, t.kind \in Kinds, NEW cap \in R!Elements(Capabilities(t.kind))
    PROVE  cap \in RP!Caps /\ RP!Registers(Client(t), cap)
<1>1. Client(t).family = t.kind /\ Client(t).caps = Capabilities(t.kind)
  BY DEF Client
<1>2. cap \in RP!Elements(Capabilities(t.kind))
  BY DEF R!Elements, RP!Elements
<1>3. \/ t.kind = "kubernetes" /\ cap \in RP!KubernetesCaps
      \/ t.kind = "monitoring" /\ cap \in RP!MonitoringCaps
      \/ t.kind = "flux" /\ cap \in RP!FluxCaps
  BY <1>2 DEF Kinds, Capabilities, RP!Elements, RP!KubernetesCaps,
     RP!MonitoringCaps, RP!FluxCaps
<1> QED
  BY <1>1, <1>2, <1>3 DEF RP!Registers, RP!Caps

(* A process that serves has entered each client under its own identifier.  *)
LEMMA ServesFollows == LoadInv => ServesWhatIsConfigured
<1> SUFFICES ASSUME LoadInv, pc \in Serving
             PROVE  /\ \A i \in DOMAIN Configured :
                          \A cap \in R!Elements(Capabilities(Configured[i].kind)) :
                             /\ Configured[i].id \in DOMAIN byID[cap]
                             /\ sources[byID[cap][Configured[i].id]]
                                   = Client(Configured[i])
                    /\ \A cap \in R!Caps : \A id \in DOMAIN byID[cap] :
                          \E i \in DOMAIN Configured : Configured[i].id = id
                    /\ \A i \in DOMAIN sources :
                          sources[i].timeout \in 1 .. MaxRequestTimeout
  BY DEF ServesWhatIsConfigured, Serving
<1>1. sources = Collected /\ loaded = Len(Configured) /\ server = "ready"
  BY DEF LoadInv, RegisterInv
<1>2. /\ sources \in Seq(AllClients)
      /\ \A i \in DOMAIN sources : \E n \in DOMAIN Configured :
            Accepted(Configured[n]) /\ sources[i] = Client(Configured[n])
      /\ \A n \in DOMAIN Configured :
            /\ Accepted(Configured[n])
            /\ \E i \in DOMAIN sources : sources[i] = Client(Configured[n])
  BY <1>1, SourceFacts DEF LoadInv
<1>3. RP!IInv /\ next = Len(sources) + 1 /\ RP!NewCatalogAccepts
  BY <1>1 DEF LoadInv, RegisterInv, RP!IInv, RP!ReadyInv
<1>4. RP!Entered = DOMAIN sources
  BY <1>2, <1>3 DEF RP!Entered
<1>5. \A i, j \in DOMAIN sources : i # j => sources[i].id # sources[j].id
  <2>1. /\ targets \in Seq(RP!Elements(sources)) /\ Len(targets) = next - 1
        /\ \A i \in RP!Entered : targets[i] = sources[i]
    BY <1>3 DEF RP!IInv, RP!WalkInv
  <2>2. DOMAIN targets = DOMAIN sources
    BY <1>2, <1>3, <2>1
  <2> QED
    BY <1>3, <1>4, <2>1, <2>2 DEF RP!NewCatalogAccepts
<1>6. \A cap \in RP!Caps : RP!MapInv(cap)
  BY <1>3 DEF RP!IInv
<1>7. ASSUME NEW n \in DOMAIN Configured,
             NEW cap \in R!Elements(Capabilities(Configured[n].kind))
      PROVE  /\ Configured[n].id \in DOMAIN byID[cap]
             /\ sources[byID[cap][Configured[n].id]] = Client(Configured[n])
  <2> DEFINE t == Configured[n]
  <2>1. t.kind \in Kinds /\ Client(t).id = t.id
    BY <1>2, ClientFields DEF Accepted
  <2>2. cap \in RP!Caps /\ RP!Registers(Client(t), cap)
    BY <2>1, ClientRegisters
  <2>3. PICK i \in DOMAIN sources : sources[i] = Client(t)
    BY <1>2
  <2>4. t.id \in DOMAIN byID[cap]
    BY <1>4, <1>6, <2>1, <2>2, <2>3 DEF RP!MapInv
  <2>5. byID[cap][t.id] \in DOMAIN sources /\ sources[byID[cap][t.id]].id = t.id
    BY <1>4, <1>6, <2>2, <2>4 DEF RP!MapInv
  <2>6. byID[cap][t.id] = i
    BY <1>5, <2>1, <2>3, <2>5
  <2> QED
    BY <2>3, <2>4, <2>6
<1>8. ASSUME NEW cap \in R!Caps, NEW id \in DOMAIN byID[cap]
      PROVE  \E n \in DOMAIN Configured : Configured[n].id = id
  <2>1. cap \in RP!Caps
    BY DEF R!Caps, RP!Caps, R!KubernetesCaps, RP!KubernetesCaps,
       R!MonitoringCaps, RP!MonitoringCaps, R!FluxCaps, RP!FluxCaps
  <2>2. PICK i \in DOMAIN sources : sources[i].id = id
    BY <1>4, <1>6, <2>1 DEF RP!MapInv
  <2>3. PICK n \in DOMAIN Configured : sources[i] = Client(Configured[n])
    BY <1>2, <2>2
  <2>4. Client(Configured[n]).id = Configured[n].id
    BY ClientFields
  <2> QED
    BY <2>2, <2>3, <2>4
<1>9. ASSUME NEW i \in DOMAIN sources
      PROVE  sources[i].timeout \in 1 .. MaxRequestTimeout
  <2>1. PICK n \in DOMAIN Configured :
            Accepted(Configured[n]) /\ sources[i] = Client(Configured[n])
    BY <1>2
  <2> QED
    BY <2>1, ClientFields DEF Accepted, TimeoutAccepted
<1> QED
  BY <1>7, <1>8, <1>9

(* IInv is an inductive invariant of the process, its restarts and a probe  *)
(* beside it, for every command line, file and bound: what Load has built,  *)
(* what the construction has entered, and whom the probe has reached.       *)
THEOREM Invariance == Spec => []IInv
<1>1. Init => IInv
  <2>1. Init => Started
    BY DEF Init, Started
  <2> QED
    BY <2>1, StartedLoad, InitProbe DEF IInv, LoadInv
<1>2. IInv /\ [Next]_vars => IInv'
  <2> SUFFICES ASSUME IInv, [Next]_vars PROVE IInv'
    OBVIOUS
  <2>1. LoadInv'
    BY NextLoad DEF IInv, LoadInv
  <2>2. ProbeInv'
    BY NextProbe DEF IInv
  <2> QED
    BY <2>1, <2>2 DEF IInv, LoadInv
<1> QED
  BY <1>1, <1>2, PTL DEF Spec

(* Startup fails closed (run, loadServer and Load): whatever the file, a    *)
(* process that has bound its port or serves stdio leads every configured   *)
(* target to its own client, and serves nothing else.                       *)
THEOREM FailsClosed == Spec => []ServesWhatIsConfigured
<1>1. IInv => ServesWhatIsConfigured
  BY ServesFollows DEF IInv, LoadInv
<1> QED
  BY <1>1, Invariance, PTL

(* NewWithSourceSet refuses what Load has accepted only over an identifier  *)
(* that is configured twice.                                                *)
THEOREM OnlyDuplicatesRefused == Spec => []RefusedOnlyForDuplicates
<1>1. IInv => RefusedOnlyForDuplicates
  BY DEF IInv
<1> QED
  BY <1>1, Invariance, PTL

(* Probe ends with 0 only after a process that was accepting connections    *)
(* has answered it, through any number of restarts and other programs on    *)
(* the port that do not answer exactly as it does.                          *)
THEOREM ProbesTrue == Spec => []ProbeTruthful
<1>1. IInv => ProbeTruthful
  BY DEF IInv, ProbeInv, ProbeTruthful
<1> QED
  BY <1>1, Invariance, PTL

=============================================================================
