------------------------------ MODULE Startup ------------------------------
(***************************************************************************)
(* The life of the server process as its operator sees it: run of          *)
(* cmd/cluster-observer-mcp with its flags, config.Load and the source     *)
(* constructors, the construction of the server (the actions of Registry), *)
(* Listen and Serve, and exit codes; restarts of the process; and a probe  *)
(* command that runs beside it, against this port, at any moment.          *)
(*                                                                         *)
(* Serve is reduced to what startup and probes see of it; HTTPTransport    *)
(* models it.  Another program may hold the port.                          *)
(***************************************************************************)
EXTENDS Integers, FiniteSets, Sequences

CONSTANTS
    Arguments,   \* command lines: mode, valid, version, config
    Files,       \* contents of the configuration file: form and targets
    ForeignAnswers, \* answers of another program on the port: status, body
    MaxTargets,
    DefaultRequestTimeout, MaxRequestTimeout, \* in milliseconds
    MaxStarts    \* bound: times the process is started

Kinds == {"kubernetes", "monitoring", "flux"}
OK == <<"o", "k", "\n">>

(* Targets are a list, and no other program answers as the server does. *)
ASSUME StartupAssumption ==
    /\ MaxTargets \in Nat /\ MaxStarts \in Nat
    /\ MaxRequestTimeout \in Nat
    /\ DefaultRequestTimeout \in 1 .. MaxRequestTimeout
    /\ \A f \in Files :
          f.targets \in Seq({f.targets[i] : i \in DOMAIN f.targets})
    /\ \A answer \in ForeignAnswers :
          /\ answer.body \in Seq({answer.body[i] : i \in DOMAIN answer.body})
          /\ ~(answer.status = 200 /\ answer.body = OK)

VARIABLES
    pc,        \* where the process is
    args,      \* its arguments
    file,      \* the configuration file
    loaded,    \* number of targets that Load has walked
    built,     \* kind -> the clients that Load has built, in the order of the file
    port,      \* holder of the port: "free", "ours" or "other"
    signalled, \* has a signal cancelled ctx?
    exit,      \* exit code of the last run, or "none"
    starts,    \* number of the running process
    probe,     \* the probe command: where it is, and whom it reached
    up         \* history: processes that accepted connections

VARIABLES sources, next, byID, targets, catalog, server
R == INSTANCE Registry WITH SourceSets <- {}

registryVars == <<sources, next, byID, targets, catalog, server>>
loadVars == <<args, file, loaded, built>>
vars == <<pc, loadVars, port, signalled, exit, starts, probe, up, registryVars>>

Foreign == 0
NoProbe == [at |-> "none", to |-> Foreign]

Init ==
    /\ pc = "off" /\ args \in Arguments /\ file \in Files
    /\ loaded = 0 /\ built = [k \in Kinds |-> <<>>]
    /\ port \in {"free", "other"} /\ signalled = FALSE
    /\ exit = "none" /\ starts = 1
    /\ probe = NoProbe /\ up = {}
    /\ sources = <<>> /\ next = 1 /\ byID = [cap \in R!Caps |-> <<>>]
    /\ targets = <<>> /\ catalog = <<>> /\ server = "building"

(* os.Exit releases the port. *)
Exit(code) ==
    /\ pc' = "exited" /\ exit' = code
    /\ port' = IF port = "ours" THEN "free" ELSE port

-----------------------------------------------------------------------------
(* Arguments and the configuration file. *)

UsageError ==
    \/ ~args.valid
    \/ args.mode = "serve-http" /\ ~args.config

ParseArguments ==
    /\ pc = "off"
    /\ IF UsageError THEN Exit("2")
       ELSE IF args.mode = "stdio" /\ args.version THEN Exit("0")
       ELSE pc' = "load" /\ UNCHANGED <<port, exit>>
    /\ UNCHANGED <<loadVars, signalled, starts, probe, up, registryVars>>

(* Mutant of DecodeAccepts: the number of targets is not checked. *)
DecodeAcceptsAnyNumber == file.form = "one object"

(* Bounded file, known fields, one JSON object, not too many targets. *)
DecodeAccepts ==
    file.form = "one object" /\ Len(file.targets) <= MaxTargets

(* A server without a configuration has no targets. *)
Configured == IF args.config THEN file.targets ELSE <<>>

ReadConfig ==
    /\ pc = "load"
    /\ IF args.config /\ ~DecodeAccepts THEN Exit("1")
       ELSE pc' = "build" /\ UNCHANGED <<port, exit>>
    /\ UNCHANGED <<loadVars, signalled, starts, probe, up, registryVars>>

-----------------------------------------------------------------------------
(* One target of the file.  Unset is an absent timeout. *)

Unset == -1000
Unparsable == -1001

Distinct(s, key(_)) == \A i, j \in DOMAIN s : key(s[i]) = key(s[j]) => i = j
ValidIdentifier(id) == id # "bad"

(* fileCredentialSource reads the token and throws it away; a CA bundle     *)
(* must parse.                                                              *)
fileCredentialSource(t, tokenReadable) == t.token => tokenReadable
secureHTTPClient(t) == t.ca \in {"none", "valid"}
buildSharedTarget(t, tokenReadable) ==
    /\ fileCredentialSource(t, tokenReadable) /\ secureHTTPClient(t)
    /\ t.timeout # Unparsable

(* The request boundary that every client gets. *)
RequestTimeout(t) ==
    IF t.timeout \in {Unset, 0} THEN DefaultRequestTimeout ELSE t.timeout

TimeoutAccepted(t) == RequestTimeout(t) \in 1 .. MaxRequestTimeout

NewAccepts(t) == t.httpsOrigin /\ TimeoutAccepted(t)

(* kubernetes.NewClient and flux.NewClient. *)
ScopesAccepted(scopes) ==
    /\ Len(scopes) \in 1 .. MaxTargets
    /\ \A i \in DOMAIN scopes :
          ValidIdentifier(scopes[i].id) /\ scopes[i].namespace # "bad"
    /\ Distinct(scopes, LAMBDA s : s.id)
    /\ Distinct(scopes, LAMBDA s : s.namespace)

NewClientAccepts(t) ==
    ValidIdentifier(t.id) /\ ScopesAccepted(t.scopes) /\ NewAccepts(t)

(* t.series: there are no scrapes and no components ("none"), or some that  *)
(* pass the checks of MonitoringObserve ("valid"), or not ("invalid").      *)
MonitoringFields(t) == t.services # {} \/ t.series # "none"

buildKubernetesTarget(t, tokenReadable) ==
    ~MonitoringFields(t) /\ buildSharedTarget(t, tokenReadable) /\ NewClientAccepts(t)

buildMonitoringTarget(t, tokenReadable) ==
    /\ t.scopes = <<>> /\ t.services = {"prometheus", "alertmanager"}
    /\ buildSharedTarget(t, tokenReadable)
    /\ ValidIdentifier(t.id) /\ t.series = "valid" /\ NewAccepts(t)

buildFluxTarget(t, tokenReadable) ==
    ~MonitoringFields(t) /\ buildSharedTarget(t, tokenReadable) /\ NewClientAccepts(t)

TargetAccepted(t, tokenReadable) ==
    CASE t.kind = "kubernetes" -> buildKubernetesTarget(t, tokenReadable)
      [] t.kind = "monitoring" -> buildMonitoringTarget(t, tokenReadable)
      [] t.kind = "flux" -> buildFluxTarget(t, tokenReadable)
      [] OTHER -> FALSE

(* Target(): each adapter describes itself by all its capabilities. *)
Capabilities(kind) ==
    CASE kind = "kubernetes" ->
            <<"kubernetes.cluster-health", "kubernetes.unhealthy-workloads">>
      [] kind = "monitoring" ->
            <<"monitoring.active-alerts", "monitoring.scrape-health">>
      [] kind = "flux" -> <<"flux.unhealthy-reconciliations">>
Client(t) ==
    [family |-> t.kind, nil |-> FALSE, id |-> t.id, kind |-> t.kind,
     caps |-> Capabilities(t.kind), timeout |-> RequestTimeout(t)]

(* loadServer passes the clients by family to NewWithSourceSet. *)
Collected == built["kubernetes"] \o built["monitoring"] \o built["flux"]

(* Mutant of BuildTarget: a refused target ends the loop, and the clients   *)
(* built before it are served.                                              *)
BuildTargetBreaks(tokenReadable) ==
    LET t == Configured[loaded + 1] IN
    /\ pc = "build" /\ loaded < Len(Configured)
    /\ IF TargetAccepted(t, tokenReadable)
       THEN /\ built' = [built EXCEPT ![t.kind] = Append(@, Client(t))]
            /\ loaded' = loaded + 1 /\ UNCHANGED <<pc, sources>>
       ELSE pc' = "register" /\ sources' = Collected /\ UNCHANGED <<loaded, built>>
    /\ UNCHANGED <<args, file, port, exit, signalled, starts, probe, up,
                   next, byID, targets, catalog, server>>

(* The token file may be unreadable at this moment. *)
BuildTarget(tokenReadable) ==
    LET t == Configured[loaded + 1] IN
    /\ pc = "build" /\ loaded < Len(Configured)
    /\ IF TargetAccepted(t, tokenReadable)
       THEN /\ built' = [built EXCEPT ![t.kind] = Append(@, Client(t))]
            /\ loaded' = loaded + 1 /\ UNCHANGED <<pc, port, exit>>
       ELSE Exit("1") /\ UNCHANGED <<loaded, built>>
    /\ UNCHANGED <<args, file, signalled, starts, probe, up, registryVars>>

-----------------------------------------------------------------------------
(* loadServer. *)

CollectSources ==
    /\ pc = "build" /\ loaded = Len(Configured)
    /\ pc' = "register" /\ sources' = Collected
    /\ UNCHANGED <<loadVars, port, signalled, exit, starts, probe, up,
                   next, byID, targets, catalog, server>>

Register ==
    /\ pc = "register" /\ server = "building"
    /\ R!Next
    /\ UNCHANGED <<pc, loadVars, port, signalled, exit, starts, probe, up>>

FinishLoad ==
    /\ pc = "register" /\ server # "building"
    /\ IF server = "failed" THEN Exit("1")
       ELSE pc' = (IF args.mode = "stdio" THEN "stdio" ELSE "listen")
            /\ UNCHANGED <<port, exit>>
    /\ UNCHANGED <<loadVars, signalled, starts, probe, up, registryVars>>

(* Binding fails when the port is taken, and may be refused otherwise. *)
Listen ==
    /\ pc = "listen"
    /\ \/ port = "free" /\ port' = "ours" /\ pc' = "serve" /\ UNCHANGED exit
       \/ Exit("1")
    /\ UNCHANGED <<loadVars, signalled, starts, probe, up, registryVars>>

(* validateListener accepts what Listen made, and the accept loop starts. *)
Accept ==
    /\ pc = "serve"
    /\ pc' = "accepting" /\ up' = up \cup {starts}
    /\ UNCHANGED <<loadVars, port, signalled, exit, starts, probe, registryVars>>

(* Mutant of Shutdown: Serve does not wait for ctx. *)
ShutdownNever == FALSE

(* A signal, perhaps of long ago and before the accept loop has started:    *)
(* the listener is closed first.                                            *)
Shutdown ==
    /\ pc \in {"serve", "accepting"} /\ signalled
    /\ pc' = "draining" /\ port' = "free"
    /\ UNCHANGED <<loadVars, signalled, exit, starts, probe, up, registryVars>>

(* Serve returns: drained or out of time. *)
ServeReturns ==
    /\ pc = "draining"
    /\ \E code \in {"0", "1"} : Exit(code)
    /\ UNCHANGED <<loadVars, signalled, starts, probe, up, registryVars>>

(* The accept loop fails, or the stdio client goes away. *)
ServerFails ==
    /\ \/ pc = "accepting" /\ Exit("1")
       \/ pc = "stdio" /\ \E code \in {"0", "1"} : Exit(code)
    /\ UNCHANGED <<loadVars, signalled, starts, probe, up, registryVars>>

Signal ==
    /\ pc # "exited" /\ ~signalled
    /\ signalled' = TRUE
    /\ UNCHANGED <<pc, loadVars, port, exit, starts, probe, up, registryVars>>

(* The process is started again, perhaps with another file. *)
Restart(a, f) ==
    /\ pc = "exited" /\ starts < MaxStarts
    /\ pc' = "off" /\ args' = a /\ file' = f
    /\ loaded' = 0 /\ built' = [k \in Kinds |-> <<>>]
    /\ signalled' = FALSE /\ starts' = starts + 1
    /\ sources' = <<>> /\ next' = 1 /\ byID' = [cap \in R!Caps |-> <<>>]
    /\ targets' = <<>> /\ catalog' = <<>> /\ server' = "building"
    /\ UNCHANGED <<port, exit, probe, up>>

-----------------------------------------------------------------------------
(* The probe command. *)

serverVars == <<pc, loadVars, port, signalled, exit, starts, up, registryVars>>
InFlight == {"dial", "queued", "accepted", "foreign"}

RunProbe(valid) ==
    /\ probe = NoProbe
    /\ probe' = [at |-> IF valid THEN "dial" ELSE "2", to |-> Foreign]
    /\ UNCHANGED serverVars

(* The kernel completes connections before the server accepts them. *)
Connect ==
    /\ probe.at = "dial"
    /\ probe' = CASE port = "ours" -> [at |-> "queued", to |-> starts]
                  [] port = "other" -> [at |-> "foreign", to |-> Foreign]
                  [] port = "free" -> [at |-> "1", to |-> Foreign]
    /\ UNCHANGED serverVars

Alive == probe.to = starts /\ pc # "exited"

ServerAcceptsProbe ==
    /\ probe.at = "queued" /\ Alive /\ pc = "accepting"
    /\ probe' = [probe EXCEPT !.at = "accepted"]
    /\ UNCHANGED serverVars

Prefix(body, n) == SubSeq(body, 1, IF Len(body) < n THEN Len(body) ELSE n)

(* Mutant of LimitedRead: only as many bytes are read as are expected. *)
LimitedReadThree(body) == Prefix(body, 3)

LimitedRead(body) == Prefix(body, 4)

ProbeVerdict(status, body) ==
    IF status = 200 /\ LimitedRead(body) = OK THEN "0" ELSE "1"

(* healthHandler answers, also while the server drains. *)
HealthAnswer ==
    /\ probe.at = "accepted" /\ Alive
    /\ probe' = [probe EXCEPT !.at = ProbeVerdict(200, OK)]
    /\ UNCHANGED serverVars

ForeignAnswer(answer) ==
    /\ probe.at = "foreign"
    /\ probe' = [probe EXCEPT !.at = ProbeVerdict(answer.status, answer.body)]
    /\ UNCHANGED serverVars

(* The listener or the process went away under the connection. *)
ConnectionReset ==
    /\ \/ probe.at = "queued" /\ (~Alive \/ port # "ours")
       \/ probe.at = "accepted" /\ ~Alive
    /\ probe' = [probe EXCEPT !.at = "1"]
    /\ UNCHANGED serverVars

(* Mutant of ProbeTimeout: the client has no timeout. *)
ProbeTimeoutNever == FALSE

ProbeTimeout ==
    /\ probe.at \in InFlight
    /\ probe' = [probe EXCEPT !.at = "1"]
    /\ UNCHANGED serverVars

ProbeReturns ==
    /\ probe.at \in {"0", "1", "2"}
    /\ probe' = NoProbe
    /\ UNCHANGED serverVars

-----------------------------------------------------------------------------
ServerStep ==
    \/ ParseArguments \/ ReadConfig
    \/ \E readable \in BOOLEAN : BuildTarget(readable)
    \/ CollectSources \/ Register \/ FinishLoad
    \/ Listen \/ Accept \/ Shutdown \/ ServeReturns

Next ==
    \/ ServerStep \/ ServerFails \/ Signal
    \/ \E a \in Arguments, f \in Files : Restart(a, f)
    \/ \E valid \in BOOLEAN : RunProbe(valid)
    \/ Connect \/ ServerAcceptsProbe \/ HealthAnswer \/ ConnectionReset
    \/ \E answer \in ForeignAnswers : ForeignAnswer(answer)
    \/ ProbeTimeout \/ ProbeReturns

(* The process runs; a stdio server ends on a signal; Serve ends once it    *)
(* drains (HTTPTransport).  Timers fire.                                    *)
Fairness ==
    /\ WF_vars(ServerStep)
    /\ WF_vars(signalled /\ pc = "stdio" /\ ServerFails)
    /\ WF_vars(ProbeTimeout)

Spec == Init /\ [][Next]_vars /\ Fairness

-----------------------------------------------------------------------------
(* Properties. *)

(* Startup fails closed: while the port is bound or stdio is served, every  *)
(* target of the file leads, under its own identifier, to a client of its   *)
(* own kind through every tool of that kind, and nothing else is served;    *)
(* and every client has a request timeout in the documented range.          *)
ServesWhatIsConfigured ==
    pc \in {"listen", "serve", "accepting", "draining", "stdio"} =>
        /\ \A i \in DOMAIN Configured :
              LET t == Configured[i] IN
              \A cap \in R!Elements(Capabilities(t.kind)) :
                 /\ t.id \in DOMAIN byID[cap]
                 /\ sources[byID[cap][t.id]] = Client(t)
        /\ \A cap \in R!Caps : \A id \in DOMAIN byID[cap] :
              \E i \in DOMAIN Configured : Configured[i].id = id
        /\ \A i \in DOMAIN sources : sources[i].timeout \in 1 .. MaxRequestTimeout

(* What Load accepts is refused by the server's construction for one reason *)
(* only: an identifier that is used twice.                                  *)
RefusedOnlyForDuplicates ==
    server = "failed" => ~Distinct(Configured, LAMBDA t : t.id)

(* A probe command that ends with 0 has reached a process that had loaded   *)
(* its configuration and was accepting connections: neither a process that  *)
(* is still starting nor another program on the port passes for it.         *)
ProbeTruthful == probe.at = "0" => probe.to \in up

(* A signal ends the process, also one that arrives during startup.         *)
SignalStops == signalled ~> pc = "exited"

(* A probe command ends, whatever the server does. *)
ProbeEnds == probe.at \in InFlight ~> probe.at \in {"0", "1", "2"}

=============================================================================
