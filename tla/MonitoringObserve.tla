------------------------- MODULE MonitoringObserve -------------------------
(***************************************************************************)
(* The monitoring client: what NewClient accepts (internal/monitoring/     *)
(* client.go), and the two observations (internal/monitoring/observe.go),  *)
(* each one request whose response is sorted and cut, or joined with the   *)
(* configured series.                                                      *)
(*                                                                         *)
(* Alert names are numbers in the order of the strings, 0 being any name   *)
(* that alertNamePattern rejects.  A time is a positive number, of which   *)
(* JSON can encode FirstTime to LastTime (the years 0 to 9999 in UTC); Nil *)
(* is no time.  Prometheus counts from Epoch.  Label values are sequences  *)
(* of characters, of which NUL is 0.                                       *)
(***************************************************************************)
EXTENDS InputPolicy, FiniteSets, Sequences

CONSTANTS
    Target,       \* c.targetID
    Configs,      \* values of Config: scrapes and components
    AlertBodies,  \* alert lists that Alertmanager may send
    SampleBodies, \* instant vectors that Prometheus may send
    RawLimits,    \* values of input.Limit before Normalize
    UnknownName,  \* the number of the name "unknown"
    MaxLabelLength,
    FirstTime, LastTime,  \* the times that JSON can encode
    Epoch,                \* 1970
    MaxTimestamp          \* 253402300799, the largest that is accepted

(* The fields that are decoded, of whatever configuration and response. *)
LabelValue == Seq(Nat)
ScrapeIdentity == [id : STRING, job : LabelValue, instance : LabelValue]
AlertComponent == [alert : Nat, component : STRING]
alertmanagerAlert == [name : Nat, severity : STRING, startsAt : Nat]
prometheusSample ==
    [job : LabelValue, instance : LabelValue, at : Int, value : STRING]

ASSUME MonitoringAssumption ==
    /\ UnknownName \in Nat \ {0}
    /\ MaxLabelLength \in Nat
    /\ {FirstTime, LastTime, Epoch, MaxTimestamp} \subseteq Nat
    /\ 0 < FirstTime /\ FirstTime <= Epoch /\ Epoch + MaxTimestamp <= LastTime
    /\ \A c \in Configs : /\ c.scrapes \in Seq(ScrapeIdentity)
                          /\ c.components \in Seq(AlertComponent)
    /\ AlertBodies \subseteq Seq(alertmanagerAlert)
    /\ SampleBodies \subseteq Seq(prometheusSample)

Nil == 0
NUL == 0
Elements(s) == {s[i] : i \in DOMAIN s}
Injective(s, key(_)) ==
    \A i, j \in DOMAIN s : key(s[i]) = key(s[j]) => i = j

-----------------------------------------------------------------------------
(* Configuration. *)

(* Mutant of validLabelValue: control characters are accepted. *)
validLabelValueAny(value) == value # <<>> /\ Len(value) <= MaxLabelLength

validLabelValue(value) ==
    value # <<>> /\ Len(value) <= MaxLabelLength /\ NUL \notin Elements(value)

seriesKey(job, instance) == job \o <<NUL>> \o instance

Key(s) == seriesKey(s.job, s.instance)

(* NewClient, apart from the service coordinates and the request client. *)
NewClientAccepts(config) ==
    /\ Len(config.scrapes) \in 1 .. MaxListLimit
    /\ \A s \in Elements(config.scrapes) :
          /\ ValidateIdentifier(s.id) /\ validLabelValue(s.job)
          /\ s.instance # <<>> => validLabelValue(s.instance)
    /\ Injective(config.scrapes, LAMBDA s : s.id)
    /\ Injective(config.scrapes, Key)
    /\ Len(config.components) <= MaxListLimit
    /\ \A c \in Elements(config.components) :
          c.alert # 0 /\ ValidateIdentifier(c.component)
    /\ Injective(config.components, LAMBDA c : c.alert)

VARIABLES
    client,   \* the accepted configuration
    call,     \* the running observation and its input, or NoCall
    body,     \* the source's response, once it arrived
    output    \* the result, once there is one

vars == <<client, call, body, output>>

NoCall == [op |-> "none"]
NoBody == [kind |-> "none"]
NoOutput == [kind |-> "none"]
Error(e) == [kind |-> "error", err |-> e]

Init ==
    /\ client \in {c \in Configs : NewClientAccepts(c)}
    /\ call = NoCall /\ body = NoBody /\ output = NoOutput

Call(op, target, limit) ==
    /\ call = NoCall
    /\ call' = [op |-> op, limit |-> normalizeListLimit(limit)]
    /\ output' =
        IF ~ValidateIdentifier(target) \/ normalizeListLimit(limit) = 0
        THEN Error("ValidationError")
        ELSE IF target # Target THEN Error("target is not configured")
        ELSE NoOutput
    /\ UNCHANGED <<client, body>>

Waiting(op) == call.op = op /\ output = NoOutput

(* Get fails, or the body is not JSON of the expected shape. *)
RequestFails ==
    /\ call # NoCall /\ output = NoOutput
    /\ \E e \in {"source", "ErrInvalidSourceResponse"} : output' = Error(e)
    /\ UNCHANGED <<client, call, body>>

-----------------------------------------------------------------------------
(* ListActiveAlerts. *)

Component(name) ==
    LET mapped == {c \in Elements(client.components) : c.alert = name} IN
    IF mapped = {} THEN "" ELSE (CHOOSE c \in mapped : TRUE).component

(* Mutant of ActiveAlert: the component is looked up after the name was     *)
(* replaced.                                                                *)
ActiveAlertLateLookup(raw) ==
    LET name == IF raw.name = 0 THEN UnknownName ELSE raw.name IN
    [name |-> name, severity |-> NormalizeAlertSeverity(raw.severity),
     component |-> Component(name), startedAt |-> raw.startsAt]

(* One alert of the response, redacted.  startsAt is Nil if unparsable. *)
ActiveAlert(raw) ==
    [name |-> IF raw.name = 0 THEN UnknownName ELSE raw.name,
     severity |-> NormalizeAlertSeverity(raw.severity),
     component |-> IF raw.name = 0 THEN "" ELSE Component(raw.name),
     startedAt |-> raw.startsAt]

severityRank(severity) ==
    CASE severity = "critical" -> 0 [] severity = "warning" -> 1
      [] severity = "info" -> 2 [] OTHER -> 3

(* Mutant of compareAlerts: an alert without a start comes first. *)
compareAlertsNilFirst(a, b) ==
    LET rank == severityRank(a.severity) - severityRank(b.severity) IN
    IF rank # 0 THEN rank
    ELSE IF a.name # b.name THEN a.name - b.name
    ELSE a.startedAt - b.startedAt

compareAlerts(a, b) ==
    LET rank == severityRank(a.severity) - severityRank(b.severity) IN
    IF rank # 0 THEN rank
    ELSE IF a.name # b.name THEN a.name - b.name
    ELSE IF a.startedAt = Nil /\ b.startedAt # Nil THEN 1
    ELSE IF a.startedAt # Nil /\ b.startedAt = Nil THEN -1
    ELSE a.startedAt - b.startedAt

(* slices.SortFunc is not stable: any order that compareAlerts allows. *)
Sortings(s) ==
    {t \in {[i \in DOMAIN s |-> s[p[i]]] :
               p \in {q \in [DOMAIN s -> DOMAIN s] : Injective(q, LAMBDA x : x)}} :
        \A i, j \in DOMAIN t : i < j => compareAlerts(t[i], t[j]) <= 0}

Cut(s, limit) == IF Len(s) > limit THEN SubSeq(s, 1, limit) ELSE s

ActiveAlerts(raw) == [i \in DOMAIN raw |-> ActiveAlert(raw[i])]

(* time.Time's MarshalJSON: a time may be missing, or is in a year that the *)
(* encoder has digits for.                                                  *)
Encodable(time) == time = Nil \/ time \in FirstTime .. LastTime

(* CheckResultSize encodes the result: a year it cannot encode fails it. *)
AlertsResult(sorted, limit) ==
    LET kept == Cut(sorted, limit) IN
    IF \E a \in Elements(kept) : ~Encodable(a.startedAt)
    THEN Error("encode_observation")
    ELSE [kind |-> "alerts", alerts |-> kept, truncated |-> Len(sorted) > limit]

AlertsArrive(raw) ==
    /\ Waiting("ListActiveAlerts")
    /\ body' = [kind |-> "alerts", alerts |-> raw]
    /\ \E sorted \in Sortings(ActiveAlerts(raw)) :
          output' = AlertsResult(sorted, call.limit)
    /\ UNCHANGED <<client, call>>

-----------------------------------------------------------------------------
(* GetScrapeHealth. *)

(* Mutant of validTimestamp: the bound is the first second of year 10000. *)
validTimestampNextYear(at) == at >= 0 /\ at <= MaxTimestamp + 1

(* Prometheus sends a number of seconds; 253402300799 is year 9999's last. *)
validTimestamp(at) == at >= 0 /\ at <= MaxTimestamp

(* parsePrometheusValue.  "-0" is zero; NaN and other values are refused. *)
parsePrometheusValue(sample) ==
    IF ~validTimestamp(sample.at) THEN "error"
    ELSE CASE sample.value \in {"0", "-0"} -> "down"
           [] sample.value \in {"1", "1.0"} -> "up"
           [] OTHER -> "error"

Configured(samples) ==
    {i \in DOMAIN samples :
        \E s \in Elements(client.scrapes) : Key(s) = Key(samples[i])}

(* Mutant of VectorRefused: unconfigured series are validated as well. *)
VectorRefusedAll(samples) ==
    \/ \E i, j \in DOMAIN samples :
          i # j /\ Key(samples[i]) = Key(samples[j])
    \/ \E i \in DOMAIN samples : parsePrometheusValue(samples[i]) = "error"

(* Two samples of a configured series, or one with a bad value. *)
VectorRefused(samples) ==
    LET mine == Configured(samples) IN
    \/ \E i, j \in mine : i # j /\ Key(samples[i]) = Key(samples[j])
    \/ \E i \in mine : parsePrometheusValue(samples[i]) = "error"

(* The state and the sample time of one configured series. *)
Scrape(s, samples) ==
    LET mine == {i \in DOMAIN samples : Key(samples[i]) = Key(s)}
        i == CHOOSE i \in mine : TRUE
    IN IF mine = {} THEN [id |-> s.id, state |-> "missing", at |-> Nil]
       ELSE [id |-> s.id, state |-> parsePrometheusValue(samples[i]),
             at |-> Epoch + samples[i].at]

(* The result is sorted by identifier, which is unique: a set stands for it. *)
Scrapes(samples) == {Scrape(s, samples) : s \in Elements(client.scrapes)}

VectorResult(samples, warnings) ==
    IF VectorRefused(samples) THEN Error("ErrInvalidSourceResponse")
    ELSE IF \E s \in Scrapes(samples) : ~Encodable(s.at)
    THEN Error("encode_observation")
    ELSE [kind |-> "scrapes", scrapes |-> Scrapes(samples), partial |-> warnings]

VectorArrives(samples, warnings) ==
    /\ Waiting("GetScrapeHealth")
    /\ body' = [kind |-> "vector", samples |-> samples, warnings |-> warnings]
    /\ output' = VectorResult(samples, warnings)
    /\ UNCHANGED <<client, call>>

Return ==
    /\ output # NoOutput
    /\ call' = NoCall /\ body' = NoBody /\ output' = NoOutput
    /\ UNCHANGED client

Next ==
    \/ \E target \in {Target, "other", "invalid"} :
        \/ \E limit \in RawLimits : Call("ListActiveAlerts", target, limit)
        \/ Call("GetScrapeHealth", target, 0)
    \/ RequestFails
    \/ \E raw \in AlertBodies : AlertsArrive(raw)
    \/ \E samples \in SampleBodies, w \in BOOLEAN : VectorArrives(samples, w)
    \/ Return

Spec == Init /\ [][Next]_vars

-----------------------------------------------------------------------------
(* Properties. *)

(* Among the first alerts of a list there are as many of each urgency as    *)
(* the source and the limit allow: severity first, then name, then start,   *)
(* and a start that is missing is the least urgent.  The list calls itself  *)
(* truncated exactly when an alert of the source is not in it.              *)
AtLeast(sev, name, start, s) ==
    Cardinality({i \in DOMAIN s :
        LET a == s[i] IN
        \/ severityRank(a.severity) < sev
        \/ severityRank(a.severity) = sev /\ a.name < name
        \/ /\ severityRank(a.severity) = sev /\ a.name = name
           /\ a.startedAt \in IF start = Nil THEN Nat ELSE 1 .. start})
MostUrgentKept ==
    output.kind = "alerts" =>
        LET all == ActiveAlerts(body.alerts)
            least(a, b) == IF a < b THEN a ELSE b
        IN
        /\ output.truncated <=> Len(all) > Len(output.alerts)
        /\ \A a \in Elements(all) :
              LET n(s) == AtLeast(severityRank(a.severity), a.name,
                                  a.startedAt, s)
              IN n(output.alerts) = least(n(all), call.limit)

(* A component is reported for an alert only as often as the source named   *)
(* an alert mapped to it; in particular an alert with an unacceptable name  *)
(* has none, whatever the name "unknown" is mapped to.                      *)
ComponentsDeserved ==
    output.kind = "alerts" =>
        \A c \in Elements(client.components) :
            Cardinality({i \in DOMAIN output.alerts :
                            output.alerts[i].component = c.component}) <=
            Cardinality({i \in DOMAIN body.alerts :
                \E d \in Elements(client.components) :
                    /\ d.alert = body.alerts[i].name
                    /\ d.component = c.component})

(* Every configured identity is reported once.  It is up or down exactly if *)
(* one sample has its labels, character by character, and missing exactly   *)
(* if none has them: no other series can pass for it.                       *)
ScrapesExact ==
    output.kind = "scrapes" =>
        /\ Cardinality(output.scrapes) = Len(client.scrapes)
        /\ \A s \in Elements(client.scrapes) :
              LET mine == {i \in DOMAIN body.samples :
                             /\ body.samples[i].job = s.job
                             /\ body.samples[i].instance = s.instance}
                  r == CHOOSE r \in output.scrapes : r.id = s.id
              IN
              /\ Cardinality(mine) <= 1
              /\ r.state = "missing" <=> mine = {}
              /\ \A i \in mine :
                    r.state = "up" <=> body.samples[i].value \in {"1", "1.0"}

(* Series of other identities do not matter: without them the source would  *)
(* have given the same result.                                              *)
ForeignSeriesHarmless ==
    body.kind = "vector" /\ output # NoOutput =>
        LET own == {i \in DOMAIN body.samples :
                       \E s \in Elements(client.scrapes) :
                           /\ s.job = body.samples[i].job
                           /\ s.instance = body.samples[i].instance}
        IN output = VectorResult([i \in own |-> body.samples[i]], body.warnings)

(* A scrape result that passed the checks on its samples can be encoded; an *)
(* alert list fails to be encoded only for a time of one of its alerts.     *)
EncodesWhatItAccepts ==
    output = Error("encode_observation") =>
        /\ body.kind = "alerts"
        /\ \E i \in DOMAIN body.alerts : ~Encodable(body.alerts[i].startsAt)

=============================================================================
