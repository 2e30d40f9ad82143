---------------------- MODULE MonitoringObserveProofs ----------------------
(***************************************************************************)
(* The alerts that are kept and the join of samples with configured        *)
(* series, for any configuration that NewClient accepts, any responses and *)
(* any limits.                                                             *)
(***************************************************************************)
EXTENDS MonitoringObserve, FiniteSetTheorems, SequenceTheorems,
        WellFoundedInduction, TLAPS

(* The client keeps the configuration that NewClient accepted. *)
ClientInv == client \in Configs /\ NewClientAccepts(client)

(* A call whose input was accepted has a limit of at least one. *)
CallInv ==
    /\ call = NoCall => output = NoOutput
    /\ call # NoCall /\ output = NoOutput => call.limit \in 1 .. MaxListLimit

(* The output is a function of the body that arrived, up to the order of    *)
(* alerts that compareAlerts leaves open; without a body there is none, or  *)
(* an error other than that of the encoder.                                 *)
OfAlerts ==
    /\ call.limit \in 1 .. MaxListLimit
    /\ \E raw \in AlertBodies :
          /\ body = [kind |-> "alerts", alerts |-> raw]
          /\ \E sorted \in Sortings(ActiveAlerts(raw)) :
                output = AlertsResult(sorted, call.limit)
OfVector ==
    \E samples \in SampleBodies, w \in BOOLEAN :
        /\ body = [kind |-> "vector", samples |-> samples, warnings |-> w]
        /\ output = VectorResult(samples, w)
OfNoBody ==
    /\ body = NoBody
    /\ \/ output = NoOutput
       \/ output.kind = "error" /\ output.err # "encode_observation"
OutputInv == OfNoBody \/ OfAlerts \/ OfVector

IInv == ClientInv /\ CallInv /\ OutputInv

-----------------------------------------------------------------------------
(* The steps. *)

(* What the operators read of the state is the configuration of the client. *)
LEMMA SameClient ==
    ASSUME client' = client
    PROVE  /\ \A raw : ActiveAlerts(raw)' = ActiveAlerts(raw)
           /\ \A samples, w :
                 VectorResult(samples, w)' = VectorResult(samples, w)
<1>1. \A raw : ActiveAlert(raw)' = ActiveAlert(raw)
  BY DEF ActiveAlert, Component
<1>2. \A samples : VectorRefused(samples)' = VectorRefused(samples)
  BY DEF VectorRefused, Configured
<1>3. \A samples : Scrapes(samples)' = Scrapes(samples)
  BY DEF Scrapes
<1> QED
  BY <1>1, <1>2, <1>3 DEF ActiveAlerts, VectorResult

(* No call is running in an initial state. *)
LEMMA InitIInv == Init => IInv
BY DEF Init, IInv, ClientInv, CallInv, OutputInv, OfNoBody

(* A limit that Normalize accepts is between one and the maximum. *)
LEMMA NormalizedLimit ==
    ASSUME NEW limit, normalizeListLimit(limit) # 0
    PROVE  normalizeListLimit(limit) \in 1 .. MaxListLimit
BY LimitAssumption DEF normalizeListLimit

(* A response always gives a result. *)
LEMMA ResultKinds ==
    /\ \A sorted, limit : /\ AlertsResult(sorted, limit) # NoOutput
                          /\ AlertsResult(sorted, limit).kind # "scrapes"
    /\ \A samples, w : /\ VectorResult(samples, w) # NoOutput
                       /\ VectorResult(samples, w).kind # "alerts"
<1>1. \A sorted, limit :
         AlertsResult(sorted, limit).kind \in {"error", "alerts"}
  BY DEF AlertsResult, Error
<1>2. \A samples, w : VectorResult(samples, w).kind \in {"error", "scrapes"}
  BY DEF VectorResult, Error
<1> QED
  BY <1>1, <1>2 DEF NoOutput

(* A new call is refused, or it has a limit. *)
LEMMA CallIInv ==
    ASSUME IInv, NEW op \in {"ListActiveAlerts", "GetScrapeHealth"},
           NEW target, NEW limit, Call(op, target, limit)
    PROVE  IInv'
<1>1. ClientInv'
  BY DEF IInv, ClientInv, Call
<1>2. body' = NoBody
  <2>1. body = NoBody
    BY ResultKinds DEF IInv, CallInv, OutputInv, OfNoBody, OfAlerts, OfVector,
       Call
  <2> QED
    BY <2>1 DEF Call
<1>3. \/ output' = NoOutput /\ normalizeListLimit(limit) # 0
      \/ output'.kind = "error" /\ output'.err # "encode_observation"
  BY DEF Call, Error
<1>4. call' # NoCall /\ call'.limit = normalizeListLimit(limit)
  BY DEF Call, NoCall
<1>5. OutputInv'
  BY <1>2, <1>3 DEF OutputInv, OfNoBody
<1>6. CallInv'
  <2>1. output' = NoOutput => normalizeListLimit(limit) # 0
    BY <1>3 DEF NoOutput
  <2>2. output' = NoOutput => call'.limit \in 1 .. MaxListLimit
    BY <1>4, <2>1, NormalizedLimit
  <2> QED
    BY <1>4, <2>2 DEF CallInv
<1> QED
  BY <1>1, <1>5, <1>6 DEF IInv

(* The responses of the sources decide the result. *)
LEMMA AlertsArriveIInv ==
    ASSUME IInv, NEW raw \in AlertBodies, AlertsArrive(raw)
    PROVE  IInv'
<1>1. ClientInv' /\ client' = client
  BY DEF IInv, ClientInv, AlertsArrive
<1>2. call # NoCall /\ output = NoOutput /\ call' = call
  BY DEF AlertsArrive, Waiting, NoCall
<1>3. call'.limit \in 1 .. MaxListLimit
  BY <1>2 DEF IInv, CallInv
<1>4. CallInv'
  BY <1>2, <1>3 DEF CallInv
<1>5. \E sorted \in Sortings(ActiveAlerts(raw)') :
         output' = AlertsResult(sorted, call'.limit)
  BY <1>1, <1>2, SameClient DEF AlertsArrive
<1>6. OfAlerts'
  BY <1>3, <1>5 DEF OfAlerts, AlertsArrive
<1> QED
  BY <1>1, <1>4, <1>6 DEF IInv, OutputInv

(* Likewise for the instant vector. *)
LEMMA VectorArrivesIInv ==
    ASSUME IInv, NEW samples \in SampleBodies, NEW w \in BOOLEAN,
           VectorArrives(samples, w)
    PROVE  IInv'
<1>1. ClientInv' /\ client' = client
  BY DEF IInv, ClientInv, VectorArrives
<1>2. call # NoCall /\ output = NoOutput /\ call' = call
  BY DEF VectorArrives, Waiting, NoCall
<1>3. CallInv'
  BY <1>2 DEF IInv, CallInv
<1>4. output' = VectorResult(samples, w)'
  BY <1>1, SameClient DEF VectorArrives
<1>5. OfVector'
  BY <1>4 DEF OfVector, VectorArrives
<1> QED
  BY <1>1, <1>3, <1>5 DEF IInv, OutputInv

(* A step that leaves everything alone keeps the invariant. *)
LEMMA StutterIInv ==
    ASSUME IInv, UNCHANGED vars
    PROVE  IInv'
<1>1. UNCHANGED <<client, call, body, output>>
  BY DEF vars
<1>2. ClientInv' /\ CallInv'
  BY <1>1 DEF IInv, ClientInv, CallInv
<1>3. CASE OfNoBody
  BY <1>1, <1>2, <1>3 DEF IInv, OutputInv, OfNoBody
<1>4. CASE OfAlerts
  <2>1. PICK raw \in AlertBodies :
           /\ body = [kind |-> "alerts", alerts |-> raw]
           /\ \E sorted \in Sortings(ActiveAlerts(raw)) :
                 output = AlertsResult(sorted, call.limit)
    BY <1>4 DEF OfAlerts
  <2>2. \E sorted \in Sortings(ActiveAlerts(raw)') :
           output' = AlertsResult(sorted, call'.limit)
    BY <1>1, <2>1, SameClient
  <2>3. OfAlerts'
    BY <1>1, <1>4, <2>1, <2>2 DEF OfAlerts
  <2> QED
    BY <1>2, <2>3 DEF IInv, OutputInv
<1>5. CASE OfVector
  <2>1. PICK samples \in SampleBodies, w \in BOOLEAN :
           /\ body = [kind |-> "vector", samples |-> samples, warnings |-> w]
           /\ output = VectorResult(samples, w)
    BY <1>5 DEF OfVector
  <2>2. output' = VectorResult(samples, w)'
    BY <1>1, <2>1, SameClient
  <2>3. OfVector'
    BY <1>1, <2>1, <2>2 DEF OfVector
  <2> QED
    BY <1>2, <2>3 DEF IInv, OutputInv
<1> QED
  BY <1>3, <1>4, <1>5 DEF IInv, OutputInv

(* Without a body the result is an error that is not the encoder's; the     *)
(* client forgets a result together with its body.                          *)
LEMMA OtherIInv ==
    ASSUME IInv, RequestFails \/ Return
    PROVE  IInv'
<1>1. ClientInv'
  BY DEF IInv, ClientInv, RequestFails, Return
<1>2. CASE RequestFails
  <2>1. body = NoBody
    BY <1>2, ResultKinds DEF IInv, OutputInv, OfNoBody, OfAlerts, OfVector,
       RequestFails
  <2>2. output'.kind = "error" /\ output'.err # "encode_observation"
    <3>1. PICK e \in {"source", "ErrInvalidSourceResponse"} : output' = Error(e)
      BY <1>2 DEF RequestFails
    <3> QED
      BY <3>1 DEF Error
  <2>3. OutputInv'
    BY <1>2, <2>1, <2>2 DEF OutputInv, OfNoBody, RequestFails
  <2>4. CallInv'
    BY <1>2 DEF IInv, CallInv, RequestFails
  <2> QED
    BY <1>1, <2>3, <2>4 DEF IInv
<1>3. CASE Return
  BY <1>1, <1>3 DEF IInv, CallInv, OutputInv, OfNoBody, Return
<1> QED
  BY <1>2, <1>3

(* Every step of the system preserves the inductive invariant. *)
LEMMA NextIInv == IInv /\ [Next]_vars => IInv'
<1> SUFFICES ASSUME IInv, [Next]_vars PROVE IInv'
  OBVIOUS
<1>1. ASSUME NEW target, NEW limit,
             \/ Call("ListActiveAlerts", target, limit)
             \/ Call("GetScrapeHealth", target, 0)
      PROVE  IInv'
  BY <1>1, CallIInv
<1>2. CASE RequestFails \/ Return
  BY <1>2, OtherIInv
<1>3. ASSUME NEW raw \in AlertBodies, AlertsArrive(raw) PROVE IInv'
  BY <1>3, AlertsArriveIInv
<1>4. ASSUME NEW samples \in SampleBodies, NEW w \in BOOLEAN,
             VectorArrives(samples, w)
      PROVE  IInv'
  BY <1>4, VectorArrivesIInv
<1>5. CASE UNCHANGED vars
  BY <1>5, StutterIInv
<1> QED
  BY <1>1, <1>2, <1>3, <1>4, <1>5 DEF Next

-----------------------------------------------------------------------------
(* Series and their keys. *)

(* What NewClient has checked of the configured series. *)
LEMMA ScrapeFacts ==
    ASSUME ClientInv
    PROVE  /\ client.scrapes \in Seq(ScrapeIdentity)
           /\ \A s \in Elements(client.scrapes) :
                 /\ s.job \in LabelValue /\ s.instance \in LabelValue
                 /\ NUL \notin Elements(s.job)
                 /\ NUL \notin Elements(s.instance)
           /\ \A i, j \in DOMAIN client.scrapes :
                 client.scrapes[i].id = client.scrapes[j].id => i = j
<1>1. client.scrapes \in Seq(ScrapeIdentity)
  BY MonitoringAssumption DEF ClientInv
<1>2. ASSUME NEW s \in Elements(client.scrapes)
      PROVE  s.job \in LabelValue /\ s.instance \in LabelValue
  <2>1. PICK i \in DOMAIN client.scrapes : s = client.scrapes[i]
    BY <1>2 DEF Elements
  <2>2. s \in ScrapeIdentity
    BY <1>1, <2>1
  <2> QED
    BY <2>2 DEF ScrapeIdentity
<1>3. \A s \in Elements(client.scrapes) :
         /\ validLabelValue(s.job)
         /\ s.instance # <<>> => validLabelValue(s.instance)
  BY DEF ClientInv, NewClientAccepts
<1>4. NUL \notin Elements(<<>>)
  BY DEF Elements
<1>5. \A s \in Elements(client.scrapes) :
         NUL \notin Elements(s.job) /\ NUL \notin Elements(s.instance)
  BY <1>3, <1>4 DEF validLabelValue
<1>6. \A i, j \in DOMAIN client.scrapes :
         client.scrapes[i].id = client.scrapes[j].id => i = j
  BY DEF ClientInv, NewClientAccepts, Injective
<1> QED
  BY <1>1, <1>2, <1>5, <1>6

(* The characters of a key: those of job, a NUL, and those of instance. *)
Characters(k, job, instance) ==
    /\ Len(k) = Len(job) + 1 + Len(instance)
    /\ \A i \in 1 .. Len(job) : k[i] = job[i]
    /\ k[Len(job) + 1] = NUL
    /\ \A i \in 1 .. Len(instance) : k[Len(job) + 1 + i] = instance[i]

(* seriesKey puts them together. *)
LEMMA KeyCharacters ==
    ASSUME NEW job \in Seq(Nat), NEW instance \in Seq(Nat)
    PROVE  Characters(seriesKey(job, instance), job, instance)
BY DEF Characters, seriesKey, NUL

(* No other labels have the key of labels without NUL: the first NUL of the *)
(* key is the one that seriesKey puts between them.                         *)
LEMMA KeyInjective ==
    ASSUME NEW a \in Seq(Nat), NEW b \in Seq(Nat),
           NEW c \in Seq(Nat), NEW d \in Seq(Nat),
           NUL \notin Elements(a), NUL \notin Elements(b)
    PROVE  seriesKey(a, b) = seriesKey(c, d) <=> a = c /\ b = d
<1> SUFFICES ASSUME seriesKey(a, b) = seriesKey(c, d) PROVE a = c /\ b = d
  OBVIOUS
<1> DEFINE k == seriesKey(a, b)
<1>1. Characters(k, a, b) /\ Characters(k, c, d)
  BY KeyCharacters
<1> HIDE DEF k
<1>2. Len(a) \in Nat /\ Len(b) \in Nat /\ Len(c) \in Nat /\ Len(d) \in Nat
  OBVIOUS
<1>3. /\ \A i \in 1 .. Len(a) : a[i] # NUL
      /\ \A i \in 1 .. Len(b) : b[i] # NUL
  BY DEF Elements
<1>4. ~(Len(c) < Len(a))
  <2> SUFFICES ASSUME Len(c) + 1 \in 1 .. Len(a) PROVE FALSE
    BY <1>2
  <2> QED
    BY <1>1, <1>3 DEF Characters
<1>5. ~(Len(a) < Len(c))
  <2> SUFFICES ASSUME Len(a) < Len(c) PROVE FALSE
    OBVIOUS
  <2> DEFINE i == Len(c) - Len(a)
  <2>1. i \in 1 .. Len(b) /\ Len(a) + 1 + i = Len(c) + 1
    BY <1>1, <1>2 DEF Characters
  <2> HIDE DEF i
  <2>2. k[Len(a) + 1 + i] = b[i]
    BY <1>1, <2>1 DEF Characters
  <2>3. k[Len(a) + 1 + i] = NUL
    BY <1>1, <2>1 DEF Characters
  <2> QED
    BY <1>3, <2>1, <2>2, <2>3
<1>6. Len(a) = Len(c) /\ Len(b) = Len(d)
  <2>1. Len(a) + 1 + Len(b) = Len(c) + 1 + Len(d)
    BY <1>1 DEF Characters
  <2> QED
    BY <1>2, <1>4, <1>5, <2>1
<1>7. \A i \in 1 .. Len(a) : a[i] = c[i]
  BY <1>1, <1>6 DEF Characters
<1>8. \A i \in 1 .. Len(b) : b[i] = d[i]
  BY <1>1, <1>6 DEF Characters
<1> QED
  BY <1>6, <1>7, <1>8, SeqEqual

(* A sample has the key of a configured series exactly if it has its labels. *)
LEMMA KeyExact ==
    ASSUME ClientInv, NEW s \in Elements(client.scrapes),
           NEW x \in prometheusSample
    PROVE  Key(x) = Key(s) <=> x.job = s.job /\ x.instance = s.instance
<1>1. x.job \in Seq(Nat) /\ x.instance \in Seq(Nat)
  BY DEF prometheusSample, LabelValue
<1>2. /\ s.job \in Seq(Nat) /\ s.instance \in Seq(Nat)
      /\ NUL \notin Elements(s.job) /\ NUL \notin Elements(s.instance)
  BY ScrapeFacts DEF LabelValue
<1>3. Key(s) = Key(x) <=> s.job = x.job /\ s.instance = x.instance
  BY <1>1, <1>2, KeyInjective DEF Key
<1> QED
  BY <1>3

(* The samples with the labels of a configured series. *)
Mine(s, samples) ==
    {i \in DOMAIN samples :
        samples[i].job = s.job /\ samples[i].instance = s.instance}

(* They are those with its key. *)
LEMMA MineByKey ==
    ASSUME ClientInv, NEW s \in Elements(client.scrapes),
           NEW samples \in Seq(prometheusSample)
    PROVE  Mine(s, samples) = {i \in DOMAIN samples : Key(samples[i]) = Key(s)}
<1>1. ASSUME NEW i \in DOMAIN samples
      PROVE  Key(samples[i]) = Key(s) <=>
                 samples[i].job = s.job /\ samples[i].instance = s.instance
  <2>1. samples[i] \in prometheusSample
    OBVIOUS
  <2> QED
    BY <2>1, KeyExact
<1> QED
  BY <1>1 DEF Mine

(* In an accepted vector each configured series has at most one sample, and *)
(* it is reported with what that sample says.                               *)
LEMMA AcceptedVector ==
    ASSUME ClientInv, NEW s \in Elements(client.scrapes),
           NEW samples \in Seq(prometheusSample), ~VectorRefused(samples)
    PROVE  /\ \A i, j \in Mine(s, samples) : i = j
           /\ Mine(s, samples) = {} =>
                 Scrape(s, samples) =
                     [id |-> s.id, state |-> "missing", at |-> Nil]
           /\ \A i \in Mine(s, samples) :
                 /\ parsePrometheusValue(samples[i]) # "error"
                 /\ Scrape(s, samples) =
                       [id |-> s.id, state |-> parsePrometheusValue(samples[i]),
                        at |-> Epoch + samples[i].at]
<1> DEFINE mine == {i \in DOMAIN samples : Key(samples[i]) = Key(s)}
<1>1. Mine(s, samples) = mine
  BY MineByKey
<1>2. \A i \in mine : i \in Configured(samples)
  BY DEF Configured
<1>3. /\ \A i, j \in mine : i = j
      /\ \A i \in mine : parsePrometheusValue(samples[i]) # "error"
  BY <1>2 DEF VectorRefused
<1>4. mine = {} =>
         Scrape(s, samples) = [id |-> s.id, state |-> "missing", at |-> Nil]
  BY DEF Scrape
<1>5. ASSUME NEW i \in mine
      PROVE  Scrape(s, samples) =
                [id |-> s.id, state |-> parsePrometheusValue(samples[i]),
                 at |-> Epoch + samples[i].at]
  <2>1. mine # {} /\ (CHOOSE j \in mine : TRUE) = i
    BY <1>3, <1>5
  <2> QED
    BY <2>1 DEF Scrape
<1> HIDE DEF mine
<1> QED
  BY <1>1, <1>3, <1>4, <1>5

(* What parsePrometheusValue makes of a sample that it accepts. *)
LEMMA ParsedValue ==
    ASSUME NEW x \in prometheusSample, parsePrometheusValue(x) # "error"
    PROVE  /\ parsePrometheusValue(x) \in {"up", "down"}
           /\ parsePrometheusValue(x) = "up" <=> x.value \in {"1", "1.0"}
           /\ x.at \in 0 .. MaxTimestamp
<1>1. validTimestamp(x.at)
  BY DEF parsePrometheusValue
<1>2. x.at \in Int
  BY DEF prometheusSample
<1>3. x.at \in 0 .. MaxTimestamp
  BY <1>1, <1>2, MonitoringAssumption DEF validTimestamp
<1>4. CASE x.value \in {"0", "-0"}
  BY <1>1, <1>3, <1>4 DEF parsePrometheusValue
<1>5. CASE x.value \in {"1", "1.0"}
  BY <1>1, <1>3, <1>5 DEF parsePrometheusValue
<1>6. CASE x.value \notin {"0", "-0", "1", "1.0"}
  BY <1>1, <1>6 DEF parsePrometheusValue
<1> QED
  BY <1>4, <1>5, <1>6

(* So an accepted vector can be encoded. *)
LEMMA AcceptedTimes ==
    ASSUME ClientInv, NEW samples \in Seq(prometheusSample),
           ~VectorRefused(samples)
    PROVE  \A r \in Scrapes(samples) : Encodable(r.at)
<1> SUFFICES ASSUME NEW s \in Elements(client.scrapes)
             PROVE  Encodable(Scrape(s, samples).at)
  BY MonitoringAssumption DEF Scrapes
<1>1. CASE Mine(s, samples) = {}
  BY <1>1, AcceptedVector DEF Nil, Encodable
<1>2. ASSUME NEW i \in Mine(s, samples)
      PROVE  Encodable(Scrape(s, samples).at)
  <2>1. samples[i] \in prometheusSample
    BY DEF Mine
  <2>2. /\ parsePrometheusValue(samples[i]) # "error"
        /\ Scrape(s, samples).at = Epoch + samples[i].at
    BY AcceptedVector
  <2>3. samples[i].at \in 0 .. MaxTimestamp
    BY <2>1, <2>2, ParsedValue
  <2> QED
    BY <2>2, <2>3, MonitoringAssumption DEF Encodable
<1> QED
  BY <1>1, <1>2

(* The identifiers of the results are those of the configured series. *)
LEMMA ScrapeId ==
    \A s, samples : Scrape(s, samples).id = s.id
BY DEF Scrape

(* Each series gives a result of its own, which its identifier names. *)
LEMMA ScrapesById ==
    ASSUME ClientInv, NEW samples
    PROVE  /\ Cardinality(Scrapes(samples)) = Len(client.scrapes)
           /\ \A s \in Elements(client.scrapes) :
                 (CHOOSE r \in Scrapes(samples) : r.id = s.id) =
                     Scrape(s, samples)
<1> DEFINE n == Len(client.scrapes)
           f == [i \in 1 .. n |-> Scrape(client.scrapes[i], samples)]
           R == Scrapes(samples)
<1>1. n \in Nat /\ DOMAIN client.scrapes = 1 .. n
  BY ScrapeFacts
<1>2. R = {Scrape(client.scrapes[i], samples) : i \in 1 .. n}
  BY <1>1 DEF Scrapes, Elements
<1>3. \A i, j \in 1 .. n :
         client.scrapes[i].id = client.scrapes[j].id => i = j
  BY <1>1, ScrapeFacts
<1> HIDE DEF n, R
<1>4. /\ f \in [1 .. n -> R]
      /\ \A r \in R : \E i \in 1 .. n : f[i] = r
  BY <1>2
<1>5. \A i \in 1 .. n : f[i].id = client.scrapes[i].id
  BY ScrapeId
<1>6. \A i, j \in 1 .. n : f[i] = f[j] => i = j
  BY <1>3, <1>5
<1> HIDE DEF f
<1>7. f \in Bijection(1 .. n, R)
  BY <1>4, <1>6 DEF Bijection, Injection, Surjection, IsInjective
<1>8. Cardinality(R) = n
  <2>1. IsFiniteSet(1 .. n) /\ Cardinality(1 .. n) = n
    BY <1>1, FS_Interval
  <2>2. ExistsBijection(1 .. n, R)
    BY <1>7 DEF ExistsBijection
  <2> QED
    BY <2>1, <2>2, FS_Bijection
<1>9. ASSUME NEW s \in Elements(client.scrapes)
      PROVE  (CHOOSE r \in R : r.id = s.id) = Scrape(s, samples)
  <2>1. PICK i \in 1 .. n : s = client.scrapes[i]
    BY <1>1, <1>9 DEF Elements
  <2>2. f[i] = Scrape(s, samples) /\ f[i] \in R /\ f[i].id = s.id
    BY <1>4, <1>5, <2>1 DEF f
  <2>3. ASSUME NEW r \in R, r.id = s.id PROVE r = f[i]
    BY <1>3, <1>4, <1>5, <2>1, <2>3
  <2> QED
    BY <2>2, <2>3
<1> QED
  BY <1>8, <1>9 DEF n, R

(* A scrape result comes from a vector that was not refused. *)
LEMMA ScrapesOutput ==
    ASSUME IInv, output.kind = "scrapes"
    PROVE  \E samples \in Seq(prometheusSample) :
              /\ body.samples = samples /\ ~VectorRefused(samples)
              /\ output.scrapes = Scrapes(samples)
<1>1. output # NoOutput
  BY DEF NoOutput
<1>2. ~OfNoBody
  BY <1>1 DEF OfNoBody
<1>3. ~OfAlerts
  BY ResultKinds DEF OfAlerts
<1>4. PICK samples \in SampleBodies, w \in BOOLEAN :
         /\ body = [kind |-> "vector", samples |-> samples, warnings |-> w]
         /\ output = VectorResult(samples, w)
  BY <1>2, <1>3 DEF IInv, OutputInv, OfVector
<1>5. samples \in Seq(prometheusSample)
  BY MonitoringAssumption
<1>6. ~VectorRefused(samples) /\ output.scrapes = Scrapes(samples)
  BY <1>4 DEF VectorResult, Error
<1> QED
  BY <1>4, <1>5, <1>6

-----------------------------------------------------------------------------
(* The theorems about GetScrapeHealth. *)

(* The inductive invariant holds of every behaviour: a result is one that   *)
(* the accepted configuration and the response that arrived determine.      *)
THEOREM Invariance == Spec => []IInv
BY InitIInv, NextIInv, PTL DEF Spec

(* GetScrapeHealth reports every configured identity once, and up, down or  *)
(* missing after the samples with exactly its labels: the key that          *)
(* seriesKey joins with NUL cannot be met by other labels, since            *)
(* validLabelValue keeps NUL out of the configured ones.                    *)
THEOREM ScrapesAreExact == Spec => []ScrapesExact
<1>1. IInv => ScrapesExact
  <2> SUFFICES ASSUME IInv, output.kind = "scrapes" PROVE ScrapesExact
    BY DEF ScrapesExact
  <2>1. PICK samples \in Seq(prometheusSample) :
           /\ body.samples = samples /\ ~VectorRefused(samples)
           /\ output.scrapes = Scrapes(samples)
    BY ScrapesOutput
  <2>2. ClientInv
    BY DEF IInv
  <2>3. Cardinality(output.scrapes) = Len(client.scrapes)
    BY <2>1, <2>2, ScrapesById
  <2>4. ASSUME NEW s \in Elements(client.scrapes)
        PROVE  LET mine == {i \in DOMAIN body.samples :
                               /\ body.samples[i].job = s.job
                               /\ body.samples[i].instance = s.instance}
                   r == CHOOSE r \in output.scrapes : r.id = s.id
               IN
               /\ Cardinality(mine) <= 1
               /\ r.state = "missing" <=> mine = {}
               /\ \A i \in mine :
                     r.state = "up" <=> body.samples[i].value \in {"1", "1.0"}
    <3> DEFINE r == CHOOSE r \in output.scrapes : r.id = s.id
               mine == Mine(s, samples)
    <3>1. r = Scrape(s, samples)
      BY <2>1, <2>2, ScrapesById
    <3> HIDE DEF r, mine
    <3>2. \A i, j \in mine : i = j
      BY <2>1, <2>2, AcceptedVector DEF mine
    <3>3. Cardinality(mine) <= 1
      <4>1. CASE mine = {}
        BY <4>1, FS_EmptySet
      <4>2. ASSUME NEW i \in mine PROVE Cardinality(mine) <= 1
        <5>1. mine = {i}
          BY <3>2, <4>2
        <5>2. Cardinality({i}) = 1
          BY FS_Singleton
        <5> QED
          BY <5>1, <5>2
      <4> QED
        BY <4>1, <4>2
    <3>4. mine = {} => r.state = "missing"
      BY <2>1, <2>2, <3>1, AcceptedVector DEF mine
    <3>5. ASSUME NEW i \in mine
          PROVE  /\ r.state \in {"up", "down"}
                 /\ r.state = "up" <=> samples[i].value \in {"1", "1.0"}
      <4>1. samples[i] \in prometheusSample
        BY DEF mine, Mine
      <4>2. /\ parsePrometheusValue(samples[i]) # "error"
            /\ r.state = parsePrometheusValue(samples[i])
        BY <2>1, <2>2, <3>1, AcceptedVector DEF mine
      <4> QED
        BY <4>1, <4>2, ParsedValue
    <3>6. r.state = "missing" <=> mine = {}
      BY <3>4, <3>5
    <3> QED
      BY <2>1, <3>3, <3>5, <3>6 DEF r, mine, Mine
  <2> QED
    BY <2>3, <2>4 DEF ScrapesExact
<1> QED
  BY <1>1, Invariance, PTL

(* The samples of configured series are those that the join looks at. *)
LEMMA OwnSamples ==
    ASSUME ClientInv, NEW samples \in Seq(prometheusSample),
           NEW own, own = {i \in DOMAIN samples :
                              \E s \in Elements(client.scrapes) :
                                  /\ s.job = samples[i].job
                                  /\ s.instance = samples[i].instance}
    PROVE  own = Configured(samples)
<1>1. ASSUME NEW i \in DOMAIN samples, NEW s \in Elements(client.scrapes)
      PROVE  Key(s) = Key(samples[i]) <=>
                 s.job = samples[i].job /\ s.instance = samples[i].instance
  <2>1. samples[i] \in prometheusSample
    OBVIOUS
  <2> QED
    BY <2>1, KeyExact
<1> QED
  BY <1>1 DEF Configured

(* What the join computes depends on these samples only. *)
LEMMA JoinReadsConfigured ==
    ASSUME NEW samples, NEW w, NEW rest,
           rest = [i \in Configured(samples) |-> samples[i]]
    PROVE  VectorResult(rest, w) = VectorResult(samples, w)
<1> DEFINE C == Configured(samples)
<1>1. /\ DOMAIN rest = C /\ \A i \in C : rest[i] = samples[i]
      /\ \A i \in C : i \in DOMAIN samples
  BY DEF Configured
<1>2. Configured(rest) = C
  BY <1>1 DEF Configured
<1>3. \A i \in DOMAIN samples : \A s \in Elements(client.scrapes) :
         Key(samples[i]) = Key(s) => i \in C
  BY DEF Configured
<1>4. VectorRefused(rest) <=> VectorRefused(samples)
  <2> HIDE DEF C
  <2> QED
    BY <1>1, <1>2 DEF VectorRefused, C
<1>5. ASSUME NEW s \in Elements(client.scrapes)
      PROVE  Scrape(s, rest) = Scrape(s, samples)
  <2> DEFINE mine == {i \in DOMAIN samples : Key(samples[i]) = Key(s)}
             i == CHOOSE i \in mine : TRUE
  <2>1. {j \in DOMAIN rest : Key(rest[j]) = Key(s)} = mine
    <3> HIDE DEF C
    <3> QED
      BY <1>1, <1>3
  <2>2. mine # {} => i \in mine
    OBVIOUS
  <2>3. mine # {} => rest[i] = samples[i]
    <3>1. mine # {} => i \in C
      BY <1>3, <2>2
    <3> HIDE DEF C, mine, i
    <3> QED
      BY <1>1, <3>1
  <2>4. Scrape(s, samples) =
           IF mine = {} THEN [id |-> s.id, state |-> "missing", at |-> Nil]
           ELSE [id |-> s.id, state |-> parsePrometheusValue(samples[i]),
                 at |-> Epoch + samples[i].at]
    BY DEF Scrape
  <2>5. Scrape(s, rest) =
           IF mine = {} THEN [id |-> s.id, state |-> "missing", at |-> Nil]
           ELSE [id |-> s.id, state |-> parsePrometheusValue(rest[i]),
                 at |-> Epoch + rest[i].at]
    BY <2>1 DEF Scrape
  <2> HIDE DEF mine, i
  <2> QED
    BY <2>3, <2>4, <2>5
<1>6. Scrapes(rest) = Scrapes(samples)
  BY <1>5 DEF Scrapes
<1> QED
  BY <1>4, <1>6 DEF VectorResult

(* GetScrapeHealth passes over the series that are not configured before it *)
(* looks at their values or for duplicates, so that they cannot change its  *)
(* result nor make it fail.                                                 *)
THEOREM ForeignSeriesAreHarmless == Spec => []ForeignSeriesHarmless
<1>1. IInv => ForeignSeriesHarmless
  <2> SUFFICES ASSUME IInv, body.kind = "vector", output # NoOutput
               PROVE  ForeignSeriesHarmless
    BY DEF ForeignSeriesHarmless
  <2>1. ~OfNoBody /\ ~OfAlerts
    <3>1. body # NoBody
      BY DEF NoBody
    <3>2. ~OfAlerts
      BY DEF OfAlerts
    <3> QED
      BY <3>1, <3>2 DEF OfNoBody
  <2>2. PICK samples \in SampleBodies, w \in BOOLEAN :
           /\ body = [kind |-> "vector", samples |-> samples, warnings |-> w]
           /\ output = VectorResult(samples, w)
    BY <2>1 DEF IInv, OutputInv, OfVector
  <2>3. samples \in Seq(prometheusSample) /\ ClientInv
    BY MonitoringAssumption DEF IInv
  <2> DEFINE own == {i \in DOMAIN samples :
                        \E s \in Elements(client.scrapes) :
                            /\ s.job = samples[i].job
                            /\ s.instance = samples[i].instance}
  <2>4. own = Configured(samples)
    BY <2>3, OwnSamples
  <2>5. VectorResult([i \in own |-> samples[i]], w) = VectorResult(samples, w)
    <3> HIDE DEF own
    <3> QED
      BY <2>4, JoinReadsConfigured
  <2>6. body.samples = samples /\ body.warnings = w
    BY <2>2
  <2> QED
    BY <2>2, <2>5, <2>6 DEF ForeignSeriesHarmless
<1> QED
  BY <1>1, Invariance, PTL

-----------------------------------------------------------------------------
(* Alerts and their order. *)

(* The alerts of a result, before they are sorted. *)
LEMMA ActiveAlertFacts ==
    ASSUME NEW raw \in Seq(alertmanagerAlert)
    PROVE  /\ Len(raw) \in Nat
           /\ DOMAIN raw = 1 .. Len(raw)
           /\ DOMAIN ActiveAlerts(raw) = 1 .. Len(raw)
           /\ \A i \in 1 .. Len(raw) :
                 LET a == ActiveAlert(raw[i]) IN
                 /\ raw[i].name \in Nat
                 /\ ActiveAlerts(raw)[i] = a
                 /\ a.name \in Nat /\ a.startedAt \in Nat
                 /\ a.startedAt = raw[i].startsAt
<1>1. /\ Len(raw) \in Nat
      /\ DOMAIN raw = 1 .. Len(raw) /\ DOMAIN ActiveAlerts(raw) = 1 .. Len(raw)
  BY DEF ActiveAlerts
<1>2. ASSUME NEW i \in 1 .. Len(raw)
      PROVE  LET a == ActiveAlert(raw[i]) IN
             /\ raw[i].name \in Nat
             /\ ActiveAlerts(raw)[i] = a
             /\ a.name \in Nat /\ a.startedAt \in Nat
             /\ a.startedAt = raw[i].startsAt
  <2>1. raw[i] \in alertmanagerAlert
    OBVIOUS
  <2>2. raw[i].name \in Nat /\ raw[i].startsAt \in Nat
    BY <2>1 DEF alertmanagerAlert
  <2>3. /\ ActiveAlert(raw[i]).name =
               (IF raw[i].name = 0 THEN UnknownName ELSE raw[i].name)
        /\ ActiveAlert(raw[i]).startedAt = raw[i].startsAt
    BY DEF ActiveAlert
  <2>4. ActiveAlerts(raw)[i] = ActiveAlert(raw[i])
    BY <1>1 DEF ActiveAlerts
  <2> QED
    BY <2>2, <2>3, <2>4, MonitoringAssumption
<1> QED
  BY <1>1, <1>2

(* slices.SortFunc returns the alerts of the response, each as often as     *)
(* there: its result is a permutation, in the order of compareAlerts.       *)
LEMMA SortingFacts ==
    ASSUME NEW raw \in Seq(alertmanagerAlert),
           NEW sorted \in Sortings(ActiveAlerts(raw))
    PROVE  \E p \in Bijection(1 .. Len(raw), 1 .. Len(raw)) :
              /\ sorted = [i \in 1 .. Len(raw) |-> ActiveAlerts(raw)[p[i]]]
              /\ \A i, j \in 1 .. Len(raw) :
                    i < j => compareAlerts(sorted[i], sorted[j]) <= 0
<1> DEFINE D == 1 .. Len(raw)
           all == ActiveAlerts(raw)
<1>1. DOMAIN all = D /\ Len(raw) \in Nat
  BY ActiveAlertFacts
<1>2. PICK p \in [D -> D] :
         /\ Injective(p, LAMBDA x : x)
         /\ sorted = [i \in D |-> all[p[i]]]
         /\ \A i, j \in DOMAIN sorted :
               i < j => compareAlerts(sorted[i], sorted[j]) <= 0
  <2> HIDE DEF D, all
  <2>1. sorted \in Sortings(all)
    BY DEF all
  <2> QED
    BY <1>1, <2>1 DEF Sortings
<1>3. p \in Injection(D, D)
  BY <1>2 DEF Injective, Injection, IsInjective
<1>4. IsFiniteSet(D)
  BY <1>1, FS_Interval
<1> HIDE DEF D, all
<1>5. p \in Bijection(D, D)
  BY <1>3, <1>4, FS_Injection DEF Bijection
<1> QED
  BY <1>2, <1>5 DEF D, all

KeptLength(n, limit) == IF n > limit THEN limit ELSE n

(* What is kept of a sorted list is its beginning, as far as the limit. *)
LEMMA CutFacts ==
    ASSUME NEW n \in Nat, NEW sorted, sorted = [i \in 1 .. n |-> sorted[i]],
           NEW limit \in Nat
    PROVE  /\ Len(sorted) = n
           /\ Len(Cut(sorted, limit)) = KeptLength(n, limit)
           /\ DOMAIN Cut(sorted, limit) = 1 .. KeptLength(n, limit)
           /\ \A i \in 1 .. KeptLength(n, limit) :
                 Cut(sorted, limit)[i] = sorted[i]
<1>1. Len(sorted) = n
  OBVIOUS
<1>2. sorted \in Seq({sorted[i] : i \in 1 .. n})
  OBVIOUS
<1>3. CASE n > limit
  BY <1>1, <1>2, <1>3 DEF Cut, KeptLength
<1>4. CASE ~(n > limit)
  BY <1>1, <1>4 DEF Cut, KeptLength
<1> QED
  BY <1>1, <1>3, <1>4

(* An alert list, or its failure, comes from a list that arrived. *)
LEMMA AlertsOutput ==
    ASSUME IInv, body.kind = "alerts"
    PROVE  /\ call.limit \in 1 .. MaxListLimit
           /\ \E raw \in Seq(alertmanagerAlert) :
                 /\ body.alerts = raw
                 /\ \E sorted \in Sortings(ActiveAlerts(raw)) :
                       output = AlertsResult(sorted, call.limit)
<1>1. body # NoBody
  BY DEF NoBody
<1>2. ~OfNoBody
  BY <1>1 DEF OfNoBody
<1>3. ~OfVector
  BY DEF OfVector
<1>4. OfAlerts
  BY <1>2, <1>3 DEF IInv, OutputInv
<1>5. PICK raw \in AlertBodies :
         /\ body = [kind |-> "alerts", alerts |-> raw]
         /\ \E sorted \in Sortings(ActiveAlerts(raw)) :
               output = AlertsResult(sorted, call.limit)
  BY <1>4 DEF OfAlerts
<1>6. raw \in Seq(alertmanagerAlert) /\ body.alerts = raw
  BY <1>5, MonitoringAssumption
<1> QED
  BY <1>4, <1>5, <1>6 DEF OfAlerts

(* The list itself is the beginning of a permutation p of what arrived. *)
LEMMA AlertsKept ==
    ASSUME IInv, output.kind = "alerts"
    PROVE  /\ body.alerts \in Seq(alertmanagerAlert)
           /\ call.limit \in Nat \ {0}
           /\ \E sorted \in Sortings(ActiveAlerts(body.alerts)) :
                 /\ output.alerts = Cut(sorted, call.limit)
                 /\ output.truncated <=> Len(sorted) > call.limit
<1>1. output # NoOutput
  BY DEF NoOutput
<1>2. ~OfNoBody
  BY <1>1 DEF OfNoBody
<1>3. ~OfVector
  BY ResultKinds DEF OfVector
<1>4. body.kind = "alerts"
  BY <1>2, <1>3 DEF IInv, OutputInv, OfAlerts
<1>5. PICK raw \in Seq(alertmanagerAlert) :
         /\ body.alerts = raw
         /\ \E sorted \in Sortings(ActiveAlerts(raw)) :
               output = AlertsResult(sorted, call.limit)
  BY <1>4, AlertsOutput
<1>6. PICK sorted \in Sortings(ActiveAlerts(raw)) :
         output = AlertsResult(sorted, call.limit)
  BY <1>5
<1>7. /\ output.alerts = Cut(sorted, call.limit)
      /\ output.truncated <=> Len(sorted) > call.limit
  <2>1. output = [kind |-> "alerts", alerts |-> Cut(sorted, call.limit),
                  truncated |-> Len(sorted) > call.limit]
    BY <1>6 DEF AlertsResult, Error
  <2> QED
    BY <2>1
<1>8. call.limit \in Nat \ {0}
  BY <1>4, AlertsOutput, LimitAssumption
<1> QED
  BY <1>5, <1>6, <1>7, <1>8

(* What AtLeast counts. *)
Urgent(sev, name, start, a) ==
    \/ severityRank(a.severity) < sev
    \/ severityRank(a.severity) = sev /\ a.name < name
    \/ /\ severityRank(a.severity) = sev /\ a.name = name
       /\ a.startedAt \in IF start = Nil THEN Nat ELSE 1 .. start

(* Severities have ranks. *)
LEMMA RankType == \A severity : severityRank(severity) \in 0 .. 3
BY DEF severityRank

(* What comes no later in the order of compareAlerts is no less urgent; a   *)
(* start that is missing comes last.                                        *)
LEMMA UrgentFirst ==
    ASSUME NEW a, NEW b, a.name \in Nat, b.name \in Nat,
           a.startedAt \in Nat, b.startedAt \in Nat,
           NEW sev \in Nat, NEW name \in Nat, NEW start \in Nat,
           compareAlerts(a, b) <= 0, Urgent(sev, name, start, b)
    PROVE  Urgent(sev, name, start, a)
<1> DEFINE ra == severityRank(a.severity)
           rb == severityRank(b.severity)
<1>1. ra \in Nat /\ rb \in Nat
  BY RankType
<1>2. \/ ra < rb
      \/ ra = rb /\ a.name < b.name
      \/ /\ ra = rb /\ a.name = b.name
         /\ \/ b.startedAt = Nil
            \/ a.startedAt # Nil /\ a.startedAt <= b.startedAt
  <2>1. CASE ra # rb
    BY <1>1, <2>1 DEF compareAlerts
  <2>2. CASE ra = rb /\ a.name # b.name
    BY <1>1, <2>2 DEF compareAlerts
  <2>3. CASE ra = rb /\ a.name = b.name
    BY <1>1, <2>3 DEF compareAlerts, Nil
  <2> QED
    BY <2>1, <2>2, <2>3
<1> HIDE DEF ra, rb
<1>3. \/ rb < sev
      \/ rb = sev /\ b.name < name
      \/ /\ rb = sev /\ b.name = name
         /\ b.startedAt \in IF start = Nil THEN Nat ELSE 1 .. start
  BY DEF Urgent, ra, rb
<1>4. \/ ra < sev
      \/ ra = sev /\ a.name < name
      \/ /\ ra = sev /\ a.name = name
         /\ a.startedAt \in IF start = Nil THEN Nat ELSE 1 .. start
  BY <1>1, <1>2, <1>3 DEF Nil
<1> QED
  BY <1>4 DEF Urgent, ra

(* A set of positions that are the first of a list has a last one. *)
LEMMA InitialSegment ==
    ASSUME NEW n \in Nat, NEW S \in SUBSET (1 .. n),
           \A i, j \in 1 .. n : i < j /\ j \in S => i \in S
    PROVE  \E m \in 0 .. n : S = 1 .. m
<1> DEFINE T == {k \in 1 .. n + 1 : k \notin S}
<1>1. T \in SUBSET Nat /\ n + 1 \in T
  OBVIOUS
<1> HIDE DEF T
<1>2. PICK k \in T : \A j \in T : ~(<<j, k>> \in OpToRel(<, Nat))
  BY <1>1, NatLessThanWellFounded, WFMin
<1>3. k \in 1 .. n + 1 /\ k \notin S
  BY DEF T
<1>4. ASSUME NEW i \in 1 .. k - 1 PROVE i \in S
  <2>1. i \in Nat /\ k \in Nat /\ i < k /\ i \in 1 .. n + 1
    BY <1>3
  <2>2. i \notin T
    BY <1>2, <2>1 DEF OpToRel
  <2> QED
    BY <2>1, <2>2 DEF T
<1>5. ASSUME NEW i \in S PROVE i \in 1 .. k - 1
  <2>1. i \in 1 .. n /\ i # k
    BY <1>3
  <2>2. ~(k < i)
    BY <1>3, <2>1
  <2> QED
    BY <1>3, <2>1, <2>2
<1>6. S = 1 .. k - 1
  BY <1>4, <1>5, Zenon
<1>7. k - 1 \in 0 .. n
  BY <1>3
<1> QED
  BY <1>6, <1>7

(* A permutation keeps the number of elements with a property. *)
LEMMA PermutedCount ==
    ASSUME NEW n \in Nat, NEW p \in Bijection(1 .. n, 1 .. n),
           NEW A \in SUBSET (1 .. n), NEW B, B = {i \in 1 .. n : p[i] \in A}
    PROVE  IsFiniteSet(A) /\ Cardinality(A) = Cardinality(B)
<1> DEFINE q == [i \in B |-> p[i]]
<1>1. /\ p \in [1 .. n -> 1 .. n]
      /\ \A i, j \in 1 .. n : p[i] = p[j] => i = j
      /\ \A k \in 1 .. n : \E i \in 1 .. n : p[i] = k
  BY DEF Bijection, Injection, Surjection, IsInjective
<1>2. /\ q \in [B -> A] /\ \A i, j \in B : q[i] = q[j] => i = j
      /\ \A k \in A : \E i \in B : q[i] = k
  BY <1>1
<1> HIDE DEF q
<1>3. ExistsBijection(B, A)
  BY <1>2 DEF ExistsBijection, Bijection, Injection, Surjection, IsInjective
<1>4. IsFiniteSet(1 .. n)
  BY FS_Interval
<1>5. B \in SUBSET (1 .. n)
  OBVIOUS
<1>6. IsFiniteSet(B) /\ IsFiniteSet(A)
  BY <1>4, <1>5, FS_Subset
<1> QED
  BY <1>3, <1>6, FS_Bijection

-----------------------------------------------------------------------------
(* The theorems about ListActiveAlerts. *)

(* ListActiveAlerts keeps the most urgent alerts and says when it has left  *)
(* some out: whatever order slices.SortFunc gives to equal alerts, the cut  *)
(* at the limit leaves as many of each urgency as there can be.             *)
THEOREM MostUrgentAreKept == Spec => []MostUrgentKept
<1>1. IInv => MostUrgentKept
  <2> SUFFICES ASSUME IInv, output.kind = "alerts" PROVE MostUrgentKept
    BY DEF MostUrgentKept
  <2> DEFINE raw == body.alerts
             all == ActiveAlerts(raw)
             n == Len(raw)
             limit == call.limit
             kept == output.alerts
             m == KeptLength(n, limit)
             least(a, b) == IF a < b THEN a ELSE b
  <2>1. raw \in Seq(alertmanagerAlert) /\ limit \in Nat \ {0}
    BY AlertsKept
  <2>2. PICK sorted \in Sortings(all) :
           /\ kept = Cut(sorted, limit)
           /\ output.truncated <=> Len(sorted) > limit
    BY AlertsKept
  <2>3. PICK p \in Bijection(1 .. n, 1 .. n) :
           /\ sorted = [i \in 1 .. n |-> all[p[i]]]
           /\ \A i, j \in 1 .. n :
                 i < j => compareAlerts(sorted[i], sorted[j]) <= 0
    BY <2>1, <2>2, SortingFacts
  <2>4. /\ n \in Nat /\ DOMAIN all = 1 .. n
        /\ \A i \in 1 .. n : all[i].name \in Nat /\ all[i].startedAt \in Nat
    BY <2>1, ActiveAlertFacts
  <2>5. Len(all) = n
    BY <2>4 DEF ActiveAlerts
  <2>6. p \in [1 .. n -> 1 .. n]
    BY DEF Bijection, Injection
  <2> HIDE DEF raw, all, n, limit, kept
  <2>7. /\ Len(sorted) = n /\ Len(kept) = m /\ DOMAIN kept = 1 .. m
        /\ \A i \in 1 .. m : kept[i] = sorted[i]
    <3>1. sorted = [i \in 1 .. n |-> sorted[i]]
      BY <2>3
    <3>2. limit \in Nat
      BY <2>1
    <3> QED
      BY <2>2, <2>4, <3>1, <3>2, CutFacts
  <2>8. output.truncated <=> Len(all) > Len(kept)
    BY <2>1, <2>2, <2>4, <2>5, <2>7 DEF KeptLength
  <2>9. ASSUME NEW sev \in Nat, NEW name \in Nat, NEW start \in Nat
        PROVE  AtLeast(sev, name, start, kept) =
                   least(AtLeast(sev, name, start, all), limit)
    <3> DEFINE A == {i \in 1 .. n : Urgent(sev, name, start, all[i])}
               B == {i \in 1 .. n : Urgent(sev, name, start, sorted[i])}
               K == {i \in 1 .. m : Urgent(sev, name, start, kept[i])}
    <3>1. /\ AtLeast(sev, name, start, all) = Cardinality(A)
          /\ AtLeast(sev, name, start, kept) = Cardinality(K)
      BY <2>4, <2>7 DEF AtLeast, Urgent
    <3>2. B = {i \in 1 .. n : p[i] \in A}
      BY <2>3, <2>6
    <3>3. ASSUME NEW i \in 1 .. n, NEW j \in 1 .. n, i < j, j \in B
          PROVE  i \in B
      <4>1. sorted[i] = all[p[i]] /\ sorted[j] = all[p[j]]
        BY <2>3
      <4>2. p[i] \in 1 .. n /\ p[j] \in 1 .. n
        BY <2>6
      <4>3. /\ sorted[i].name \in Nat /\ sorted[i].startedAt \in Nat
            /\ sorted[j].name \in Nat /\ sorted[j].startedAt \in Nat
        BY <2>4, <4>1, <4>2
      <4>4. Urgent(sev, name, start, sorted[j])
        BY <3>3
      <4>5. compareAlerts(sorted[i], sorted[j]) <= 0
        BY <2>3, <3>3
      <4>6. Urgent(sev, name, start, sorted[i])
        BY <4>3, <4>4, <4>5, UrgentFirst
      <4> QED
        BY <4>6
    <3>4. K = {i \in 1 .. m : i \in B}
      BY <2>1, <2>4, <2>7 DEF KeptLength
    <3>5. A \in SUBSET (1 .. n) /\ B \in SUBSET (1 .. n)
      OBVIOUS
    <3> HIDE DEF A, B, K
    <3>6. PICK u \in 0 .. n : B = 1 .. u
      BY <2>4, <3>3, <3>5, InitialSegment
    <3>7. K = 1 .. least(u, limit)
      BY <2>1, <2>4, <3>4, <3>6 DEF KeptLength
    <3>8. Cardinality(A) = Cardinality(B)
      BY <2>4, <3>2, <3>5, PermutedCount
    <3>9. Cardinality(B) = u
      BY <2>4, <3>6, FS_Interval
    <3>10. least(u, limit) \in Nat
      BY <2>1, <2>4
    <3>11. Cardinality(K) = least(u, limit)
      <4> HIDE DEF least
      <4> QED
        BY <3>7, <3>10, FS_Interval
    <3> QED
      BY <3>1, <3>8, <3>9, <3>11
  <2>10. ASSUME NEW a \in Elements(all)
         PROVE  AtLeast(severityRank(a.severity), a.name, a.startedAt, kept) =
                    least(AtLeast(severityRank(a.severity), a.name,
                                  a.startedAt, all), limit)
    <3>1. a.name \in Nat /\ a.startedAt \in Nat
      BY <2>4, <2>10 DEF Elements
    <3>2. severityRank(a.severity) \in Nat
      BY RankType
    <3> HIDE DEF least
    <3> QED
      BY <2>9, <3>1, <3>2
  <2> QED
    BY <2>8, <2>10 DEF MostUrgentKept, raw, all, limit, kept
<1> QED
  BY <1>1, Invariance, PTL

(* A component that is not empty is one that the name is mapped to. *)
LEMMA ComponentMapped ==
    ASSUME NEW x, ActiveAlert(x).component # ""
    PROVE  \E d \in Elements(client.components) :
              d.alert = x.name /\ d.component = ActiveAlert(x).component
<1> DEFINE mapped == {c \in Elements(client.components) : c.alert = x.name}
           d == CHOOSE c \in mapped : TRUE
<1>1. ActiveAlert(x).component = IF x.name = 0 THEN "" ELSE Component(x.name)
  BY DEF ActiveAlert
<1>2. ActiveAlert(x).component = Component(x.name)
  BY <1>1
<1>3. Component(x.name) = IF mapped = {} THEN "" ELSE d.component
  BY DEF Component
<1>4. mapped # {} /\ ActiveAlert(x).component = d.component
  BY <1>2, <1>3
<1>5. d \in mapped
  BY <1>4
<1> QED
  BY <1>4, <1>5

(* ListActiveAlerts reports a component only for alerts that the source     *)
(* named and the configuration maps: it looks the component up by the name  *)
(* that the source sent, before "unknown" takes the place of a bad one, and *)
(* identifiers of components are not empty.                                 *)
THEOREM ComponentsAreDeserved == Spec => []ComponentsDeserved
<1>1. IInv => ComponentsDeserved
  <2> SUFFICES ASSUME IInv, output.kind = "alerts",
                      NEW c \in Elements(client.components)
               PROVE  Cardinality({i \in DOMAIN output.alerts :
                          output.alerts[i].component = c.component}) <=
                      Cardinality({i \in DOMAIN body.alerts :
                          \E d \in Elements(client.components) :
                              /\ d.alert = body.alerts[i].name
                              /\ d.component = c.component})
    BY DEF ComponentsDeserved
  <2> DEFINE raw == body.alerts
             n == Len(raw)
             kept == output.alerts
             m == KeptLength(n, call.limit)
             K == {i \in DOMAIN kept : kept[i].component = c.component}
             R == {i \in DOMAIN raw :
                      \E d \in Elements(client.components) :
                          d.alert = raw[i].name /\ d.component = c.component}
  <2>1. raw \in Seq(alertmanagerAlert) /\ call.limit \in Nat
    BY AlertsKept
  <2>2. PICK sorted \in Sortings(ActiveAlerts(raw)) :
           kept = Cut(sorted, call.limit)
    BY AlertsKept
  <2>3. PICK p \in Bijection(1 .. n, 1 .. n) :
           sorted = [i \in 1 .. n |-> ActiveAlerts(raw)[p[i]]]
    BY <2>1, <2>2, SortingFacts
  <2>4. /\ n \in Nat /\ DOMAIN raw = 1 .. n
        /\ \A i \in 1 .. n : ActiveAlerts(raw)[i] = ActiveAlert(raw[i])
    BY <2>1, ActiveAlertFacts
  <2>5. /\ p \in [1 .. n -> 1 .. n]
        /\ \A i, j \in 1 .. n : p[i] = p[j] => i = j
    BY DEF Bijection, Injection, IsInjective
  <2>6. c.component # ""
    BY DEF IInv, ClientInv, NewClientAccepts, ValidateIdentifier
  <2> HIDE DEF raw, n, kept
  <2>7. /\ DOMAIN kept = 1 .. m
        /\ \A i \in 1 .. m : kept[i] = sorted[i]
    <3>1. sorted = [i \in 1 .. n |-> sorted[i]]
      BY <2>3
    <3> QED
      BY <2>1, <2>2, <2>4, <3>1, CutFacts
  <2>8. \A i \in 1 .. m : i \in 1 .. n
    BY <2>1, <2>4 DEF KeptLength
  <2>9. ASSUME NEW i \in K PROVE i \in 1 .. n /\ p[i] \in R
    <3>1. i \in 1 .. n /\ kept[i] = sorted[i] /\ kept[i].component = c.component
      BY <2>7, <2>8
    <3>2. p[i] \in 1 .. n
      BY <2>5, <3>1
    <3>3. kept[i] = ActiveAlert(raw[p[i]])
      BY <2>3, <2>4, <3>1, <3>2
    <3>4. \E d \in Elements(client.components) :
             d.alert = raw[p[i]].name /\ d.component = c.component
      BY <2>6, <3>1, <3>3, ComponentMapped
    <3> QED
      BY <2>4, <3>1, <3>2, <3>4
  <2> DEFINE f == [i \in K |-> p[i]]
  <2>10. IsFiniteSet(R)
    <3>1. IsFiniteSet(1 .. n)
      BY <2>4, FS_Interval
    <3>2. R \in SUBSET (1 .. n)
      BY <2>4
    <3> HIDE DEF R
    <3> QED
      BY <3>1, <3>2, FS_Subset
  <2> HIDE DEF K, R
  <2>11. f \in [K -> R] /\ \A i, j \in K : f[i] = f[j] => i = j
    BY <2>5, <2>9
  <2> HIDE DEF f
  <2>12. f \in Injection(K, R)
    BY <2>11 DEF Injection, IsInjective
  <2>13. Cardinality(K) <= Cardinality(R)
    BY <2>10, <2>12, FS_Injection
  <2> QED
    BY <2>13 DEF K, R, kept, raw
<1> QED
  BY <1>1, Invariance, PTL

(* The encoder fails only for a time that Alertmanager sent: the times of a *)
(* scrape result are those that parsePrometheusValue has checked.           *)
THEOREM AcceptedIsEncoded == Spec => []EncodesWhatItAccepts
<1>1. IInv => EncodesWhatItAccepts
  <2> SUFFICES ASSUME IInv, output.kind = "error",
                      output.err = "encode_observation"
               PROVE  /\ body.kind = "alerts"
                      /\ \E i \in DOMAIN body.alerts :
                            ~Encodable(body.alerts[i].startsAt)
    BY DEF EncodesWhatItAccepts, Error
  <2>1. ~OfNoBody
    BY DEF OfNoBody, NoOutput
  <2>2. ~OfVector
    <3> SUFFICES ASSUME NEW samples \in SampleBodies, NEW w \in BOOLEAN,
                        output = VectorResult(samples, w)
                 PROVE  FALSE
      BY DEF OfVector
    <3>1. samples \in Seq(prometheusSample) /\ ClientInv
      BY MonitoringAssumption DEF IInv
    <3>2. output # Error("ErrInvalidSourceResponse")
      BY DEF Error
    <3>3. ~VectorRefused(samples)
      BY <3>2 DEF VectorResult
    <3>4. ~ \E r \in Scrapes(samples) : ~Encodable(r.at)
      BY <3>1, <3>3, AcceptedTimes
    <3>5. output.kind = "scrapes"
      BY <3>3, <3>4 DEF VectorResult
    <3> QED
      BY <3>5
  <2>3. body.kind = "alerts"
    BY <2>1, <2>2 DEF IInv, OutputInv, OfAlerts
  <2>4. PICK raw \in Seq(alertmanagerAlert) :
           /\ body.alerts = raw
           /\ \E sorted \in Sortings(ActiveAlerts(raw)) :
                 output = AlertsResult(sorted, call.limit)
    BY <2>3, AlertsOutput
  <2>5. PICK sorted \in Sortings(ActiveAlerts(raw)) :
           output = AlertsResult(sorted, call.limit)
    BY <2>4
  <2> DEFINE n == Len(raw)
             kept == Cut(sorted, call.limit)
  <2>6. PICK a \in Elements(kept) : ~Encodable(a.startedAt)
    BY <2>5 DEF AlertsResult
  <2>7. call.limit \in Nat /\ n \in Nat
    BY <2>3, AlertsOutput, LimitAssumption
  <2>8. PICK p \in Bijection(1 .. n, 1 .. n) :
           sorted = [i \in 1 .. n |-> ActiveAlerts(raw)[p[i]]]
    BY SortingFacts
  <2>9. PICK i \in 1 .. n : a = sorted[i]
    <3>1. sorted = [i \in 1 .. n |-> sorted[i]]
      BY <2>8
    <3>2. kept = Cut(sorted, call.limit)
      OBVIOUS
    <3> HIDE DEF n, kept
    <3>3. /\ DOMAIN kept = 1 .. KeptLength(n, call.limit)
          /\ \A i \in 1 .. KeptLength(n, call.limit) : kept[i] = sorted[i]
      BY <2>7, <3>1, <3>2, CutFacts
    <3>4. \A i \in 1 .. KeptLength(n, call.limit) : i \in 1 .. n
      BY <2>7 DEF KeptLength
    <3> QED
      BY <2>6, <3>3, <3>4 DEF Elements
  <2>10. p[i] \in 1 .. n /\ a = ActiveAlerts(raw)[p[i]]
    BY <2>8, <2>9 DEF Bijection, Injection
  <2>11. p[i] \in DOMAIN raw /\ a.startedAt = raw[p[i]].startsAt
    BY <2>10, ActiveAlertFacts
  <2> QED
    BY <2>3, <2>4, <2>6, <2>11
<1> QED
  BY <1>1, Invariance, PTL

=============================================================================
