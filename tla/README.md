# Cluster Observer MCP in TLA+

A verification project for `cluster-observer-mcp`, a small Go server that
answers read-only questions about Kubernetes clusters, Prometheus and
Alertmanager, and Flux over the Model Context Protocol. The modules model the
code under `internal/` and `cmd/`; TLC checks them on small instances, and
TLAPS proves the safety of every component for every instance.
`PROJECT.json` lists the runs, the source lines behind each definition, the
mutants that show each property can fail, the hazards, and the theorems.

## 1. The system

A process serves MCP over stdio or over a loopback HTTP listener. At startup it
loads a configuration, builds one client per target, registers the clients and
their tools, and then serves calls until a signal arrives.

| Component | State | Operations | Hard parts |
|---|---|---|---|
| source requests (`sourcehttp.Client.Get`, `kubernetes.Client.get`) | the `requestSlots` channel | one bounded GET | many goroutines share 4 slots; `select` between a slot and a context; contexts end between any two steps; token rotation; bounded bodies |
| Kubernetes observations (`kubernetes/observe.go`) | none between calls | `ClusterHealth`, `ListUnhealthyWorkloads` | many list requests against a changing cluster; pages; limits |
| monitoring observations (`monitoring/`) | none between calls | `ListActiveAlerts`, `GetScrapeHealth` | join with configured series, order, limits |
| Flux observations (`flux/`) | none between calls | `ListUnhealthyReconciliations` | as for Kubernetes |
| tools and audit (`mcpserver/`) | the audit encoder and its mutex | middleware, six handlers | cancellation races, redaction, classification, a shared encoder |
| construction (`mcpserver.NewWithSourceSet`, `observer.NewCatalog`) | dispatch maps, catalog | registration | maps are filled before they are validated |
| HTTP transport (`httptransport/server.go`) | `net/http` server, result channel | `Serve`, handlers, shutdown | signal against accept error; grace period against hanging calls; probes beside hanging calls |
| probe command (`httptransport/probe.go`) | none | `Probe` | short timeout against a starting server |
| configuration (`config/load.go`, `main.go`) | none after startup | `Load`, `run*` | fail-closed order of checks |
| policy (`observer/policy.go`) | none | validation, normalisation, result size | edges of limits |

A tool call enters through the transport or stdio, passes the audit middleware,
is dispatched by the maps of the registry to a client, which makes one or more
bounded requests; the result goes back through redaction, classification and
the audit log. The goroutines of concurrent calls meet in two places: the slots
of a client and the mutex of the audit log. Nothing is persisted, so there is
no crash recovery.

What makes each part correct: a client never exceeds its limit, never loses a
slot, never blocks a caller beyond its deadline and tells each caller the truth
about its context; an observation reports what was the case and says so when it
was cut; every call is audited once, as what it was, without foreign text, and
before it is answered; a tool finds a source exactly where the catalog says so;
a process serves all that its configuration names or nothing; a probe succeeds
only against a server that is up; exit code 0 means an orderly stop, and no
hanging source can keep the process from answering its probes or from stopping.
The one thing that can is a stderr that nobody reads: the message about a failed
`Serve` is written to it before the exit (`main.go:95`).

## 2. Modules

| Module | Models | Main state |
|---|---|---|
| `BoundedGet` | abstract promise of a client: a bounded queue that answers each call once | `phase`, `outcome` |
| `SourceRequest` | `Get`/`get`; `client` says which, and whether it has a credential | `pc`, `ctxErr`, `requestSlots`, `tokenFile`, `token`, `length`, `body`, `err`, `result` |
| `SourceRequestProofs` | theorems about `SourceRequest` | |
| `HTTPTransportProofs` | theorems about `HTTPTransport` and about `CallDeadline` | |
| `ToolCallProofs`, `KubernetesObserveProofs`, `MonitoringObserveProofs`, `FluxObserveProofs`, `RegistryProofs`, `StartupProofs` | theorems about the modules they are named after | |
| `ToolCall` | audit middleware and handlers | `pc`, `req`, `ctx`, `event`, `reply`, `mu`, `encoderErr` |
| `HTTPTransport` | `Serve`, the HTTP handlers, exit code | `serve`, `accept`, `serveResult`, `inShutdown`, `conn`, `request`, `received`, `status`, `stderr` |
| `BoundedList` | abstract promise of a list tool about objects that change | `condition`, `request`, `since`, `answer` |
| `KubernetesObserve` | both Kubernetes observations | `cluster`, `todo`, `found`, `partial`, `output` |
| `InputPolicy` | normalisation of limits, identifiers, severities, reasons | none |
| `FluxObserve` | the Flux observation with its input | `cluster`, `todo`, `found`, `partial`, `output` |
| `MonitoringObserve` | `monitoring.NewClient` and both monitoring observations | `client`, `call`, `body`, `output` |
| `Registry` | `NewWithSourceSet` and `NewCatalog` | `byID`, `targets`, `catalog` |
| `Startup` | `main.go`, `config.Load`, the constructors, `Listen`, restarts and the probe command; composes `Registry` | `pc`, `built`, `port`, `probe`, the state of `Registry` |
| `CallDeadline` | tool calls in time: bodies, slots, request timeouts and the write timeout of the connection | `at`, `left`, `timer`, `elapsed`, `body`, `reply` |
| `MC*` | instances for TLC | |

**SourceRequest.** One action per step of `Get` that another goroutine or the
environment can come between: `Call` (the deadline is attached before the wait),
the two cases of `select` (`AcquireSlot`, `GiveUp`), the credential
(`ReadCredential`, `CredentialFails`, `NoCredential`), the end of `Do`
(`DoReturns`, `DoFails`, and `DoErrorReturn`, because the code looks at the
context only afterwards), the body (`ReadByte`, `ReadEnds`, `ReadFails`) and the
return with its deferred calls. A body is a number of bytes, a token the version
of the file it was read from. `admittedAt` is a history variable.
`kubernetes.get` has the same steps; its inlined context classification gives
the values of `contextError`.

**ToolCall.** Requests are records over small sets: `"bad"` is any string that
is not an identifier, and three Booleans say whether the arguments decode, the
limit is in range and the schema is otherwise met. Errors are records of package,
sentinel and whether the text carries detail, so that redaction is visible.
`cause` is a history variable: what the handler came upon. The encoder's
memory of a write error is `encoderErr`. A write is two steps, `Encode` and
`EncodeReturns`, so that lines could mix and a failing write can leave a part of
its line; `line` and `mixed` say what the log looks like at its end.

**HTTPTransport.** `net/http` appears by what `Serve` relies on: the accept
loop puts one result in the channel, `Shutdown` stops it and waits until all
connections are closed, `Close` and the end of the process cut off the rest. 200
stands for any status the SDK writes. The wrappers that `NewHandler` puts around
the SDK are states of a handler, and `Inner` says which one calls which: a request
to `/mcp` goes through `crossOriginProtection`, `loopbackHostOnly` and the steps of
`boundedBody`, and each may answer it. HEAD stands for OPTIONS too, the other safe
method, and DELETE for all remaining methods. When `Serve` returns an error
(`serve` is `"failed"`), `PrintFailure` writes the message and exits with 1; it
waits while `stderr` is `"blocked"`, and handlers go on meanwhile, as in the code.

**KubernetesObserve.** A list request is atomic and returns a page of the
present state; between two requests the cluster may change. Objects are numbered
by the sort key of the result, so "sorted and cut" is "the smallest ones".
`ObjectCondition` states readiness without the code's `controllerHealth`.
`seen` records every condition an object had since the observation began.
`CheckResultSize` cannot fail here: 50 entries with names of at most 253 bytes
stay below 64 KiB.

**BoundedList.** An observation that lists objects names at most `limit` of
them, each unready at some moment since it was asked, and leaves out an object
that was unready all along only if it says that it is truncated; and it ends.
`FluxObserve` implements it, and `KubernetesObserve` its safety part, under a
mapping that forgets scopes, kinds, pages and requests. The fairness of the abstract specification is
the formula `Answered`, because an `ENABLED` under the mapping is beyond TLC.

**FluxObserve.** As `KubernetesObserve`, with another rule: the first Ready
condition of `status.conditions` decides. A version of an object is that
sequence of conditions, and an entry carries the state and the reason computed
from it. `ConditionOf` states readiness without the code's loop; the instance
has an object with two Ready conditions, of which the first counts. A transition time is kept only as "can it be
encoded": one whose UTC year is outside 0 to 9999 fails the whole
result in `CheckResultSize`.

**MonitoringObserve.** One request per observation, so the interest is in the
data: the initial states are all configurations that `NewClientAccepts`, and the
response is any short sequence of alerts or samples. Label values are sequences
of characters, because `seriesKey` joins two of them with NUL. `slices.SortFunc`
is not stable: `Sortings` are all orders that `compareAlerts` allows. Times run
from before `FirstTime` to after `LastTime`, the years that JSON can encode, so an
alert that cannot be encoded may come first or last in the order; Prometheus counts
from `Epoch`, and the bound of `validTimestamp`, `MaxTimestamp`, is a constant of
its own. Alerts with
equal severity, name and start may come in any order, so which of their
components is kept at the limit is left open, as in the code. The join reads a
vector by its positions only, so "without the foreign series" is said with the
samples at the remaining positions, not with a shorter sequence.

**Startup.** From the command line to the exit code. `Load` builds one client
per step in the order of the file, appends it to the list of its family and stops
at the first refusal; `CollectSources` hands over the lists, and `Register` takes the steps of
`Registry` on the result, so that nothing about the dispatch maps is stated
twice. The port is free, held by this process or held by another program. A
probe is a second process that may run at any moment: the kernel completes its
connection while the listener exists, before the server accepts it.
Constructors appear by their verdict on a target record with one field per
reason to refuse it. Scrapes and components are absent, valid or invalid, because
`Load` refuses a Kubernetes or Flux target that has any, whatever they say.

**CallDeadline.** Time passes in `Tick`; no call is given time beyond its own
request timeout. The clock of a connection, `elapsed`, starts at `ReadHeader`, where
`net/http` starts `ReadTimeout` and `WriteTimeout`; the client may then take up to
`ReadTimeout` to send the body that `boundedBody` reads (`"reading"`), and the call
begins with what is left of the write timeout. `body` notes the time of the body.
The module contains the order that decides how long a call takes:
`context.WithTimeout` before the wait for a slot, one timeout per request, the
first error ends the observation. A reply can be written until `WriteTimeout`
and is lost from then on.

**Registry.** Sources are walked in the order Kubernetes, monitoring, Flux.
A source has the family it was passed in and the kind it claims, so that wrong
kinds, duplicate identifiers and wrong capabilities can all occur.

Definitions called "Mutant of X" are plausible mistakes in the code X models.
No specification uses them; they are substituted one at a time to show that the
property named in `PROJECT.json` notices the mistake.

## 3. Runs

| Run | Bounds | Shows |
|---|---|---|
| `SourceRequest` | 3 callers, 1 slot, a `sourcehttp` client with a token file or a Kubernetes client without, limit of 1 byte with bodies of 0 to 3, 2 rotations | no leaked slot, fresh tokens, whole bodies, honest context errors, every call returns, refinement of `BoundedGet` |
| `ToolCallClassify` | 1 call, 840 requests (every tool, target, scope and defect) | classification, agreement of log and reply, redaction |
| `ToolCallConcurrent` | 3 calls that contend for the log, stderr that fails and recovers | a log of whole lines, audit before reply, every call returns |
| `Transport` | 2 connections, limit of 1 byte with bodies of 0 to 3, 4 methods, foreign or not | exit code, whole and bounded bodies, foreign requests refused unread, shutdown ends, probes are answered, accept errors are reported |
| `KubernetesObserve` | 4 controllers in 2 scopes, 2 nodes, page of 1, limits 1 and 2, 2 changes per observation, symmetry of nodes | truth of both observations under churn, safety part of the refinement of `BoundedList` |
| `FluxObserve` | 4 objects in 2 scopes, 4 states of each, page of 1, limits up to 3, 1 change, 11 inputs | truth of entries, order, refinement of `BoundedList` |
| `MonitoringObserve` | up to 3 scrapes or 2 components, responses of up to 3 alerts or samples, limits up to 2, labels of up to 3 characters | urgent alerts kept, components, exact join, encodable times |
| `Startup` | 6 command lines, 24 files (one per reason to refuse a target), 2 starts, 1 probe | fail-closed startup, honest probes, signals stop the process, probes end |
| `CallDeadline` | 2 calls, 1 slot, 1 or 3 requests of at most 2 units, bodies of up to 5 units, write timeout of 5 units | bound on a call, replies delivered, calls end |
| `Registry` | up to 3 sources of 19, catalog of at most 2 | dispatch agrees with the catalog |

Two callers more than slots are enough for a full channel with calls waiting
that compete for the slot, and for a slot that passes from one call to another;
the proofs hold for any number of both. A body limit of 1 has sizes below, at
and two above the limit. Two connections suffice for one that
hangs and one that probes. A page of one object with two controllers of a kind
makes pages incomplete; two changes let an object change back or two objects
change within one observation. In `CallDeadline` one slot for two calls makes
one wait behind the other; one request of 2 units ends before the write timeout
of 5 unless the body took 3 units, and three requests can outlast it. In `MonitoringObserve` a response of three alerts
with a limit of two has one alert to cut, and three characters suffice for a NUL
between two others. The cluster changes only while it is observed:
every state a change in between could lead to is an initial state.

Two runs show where the code departs from what the repository says:

* `AuditSurvivesWriteError`: `json.Encoder` keeps its first write error, so that
  one failed write silences the log; `docs/audit-events.md:3` promises one event
  "after every MCP tool call".
* `AuditOmitsInvalidNames`: a call that failed validation and was cancelled is
  audited as `canceled` with its target and scope; `docs/audit-events.md:24` says
  that they are omitted for input-validation failures.

`SourceRequest` also contains a looser point: a deadline that expires while the
body is read is reported as `ErrSourceUnavailable` (`ReadFails`), although it is
a timeout; `OutcomeMatchesContext` asks only for the converse.

## 4. Fairness

* `SourceRequest`: weak fairness of each goroutine's own steps and of the
  deadline timer, because Go schedules runnable goroutines and
  `context.WithTimeout` fires. Nothing is assumed of the source, the network,
  cancellation or token rotation. A failing `Do` or read after the context is
  done is a goroutine step, because `net/http` watches the request's context.
* `ToolCall`: weak fairness of the server's steps, strong fairness of `Lock`
  because `sync.Mutex` hands the lock to a waiter that starves. That a source
  returns is `SourceRequest!GetReturns` applied to each of the finitely many
  requests of an observation. Writes to stderr are assumed to return.
* `HTTPTransport`: weak fairness of `Serve`, of the handler steps that depend on
  the server only, of the end of the accept loop after `Shutdown` closed the
  listener, and of the grace timer. Clients, tool calls, signals and whoever
  reads stderr owe nothing, so `SignalEndsProcess` has one exception: `Serve` has
  failed and stderr is blocked. A call that hangs in the audit log because of that
  same stderr lets `Shutdown` run into its limit and then holds up the exit.
* `FluxObserve`: weak fairness of the steps of an observation, because each of its
  requests returns (`SourceRequest!GetReturns`). Which way a request ends is open.
* `Startup`: weak fairness of the steps of the process, of the return of a
  signalled stdio server, and of the probe's timer. That `Serve` returns once it
  drains is `SignalEndsProcess` of `HTTPTransport`; messages on stderr before an
  exit are assumed to return, the exception of that property. Nothing is assumed of
  clients, of a program on the port, or of the supervisor that restarts.
* `CallDeadline`: time passes, context timers fire and so does the read deadline
  of the connection. Clients, sources and slots owe nothing: a body need never be
  sent to its end, and a call that waits for a slot need never get it.

`KubernetesObserve`, `MonitoringObserve` and `Registry` state no fairness and are
checked for safety; an observation of Kubernetes ends as one of Flux does, after
finitely many requests.

`CallDeadline` shows in particular how a successful answer can be lost to the write
timeout (`SuccessDelivered`): only if the time of the body and the timeouts of the
requests add up to it, waiting for slots included in the latter. A tool that makes
one request loses its answer only to a client that took at least `WriteTimeout -
RequestTimeout` over its body: 5 s of the 35 s of the connection, with 30 s, the
largest request timeout (`Startup`'s `ServesWhatIsConfigured`). A tool that makes
several requests can lose it to slow sources alone.

## 5. Proofs

Every proof module defines an inductive invariant `IInv` (in `ToolCallProofs`
`LogInv` and `AuditInv`, for `CallDeadline` `CallsInv`), proves `Invariance`, and
derives the properties of the module's run from it. The invariants were checked by TLC on the instances of the
runs first, except `AuditInv` and `RegisterInv`, which quantify over sets that TLC
cannot enumerate. The only assumptions are the named ones on constants; TLC
evaluates them in the runs. The properties are seldom inductive by themselves;
what each needs in addition is the interesting part.

**SourceRequestProofs**, from `ConstantsAssumption` (a finite set of callers, at
least one slot, natural bounds, clients of one of two adapters): `TypeCorrect`,
`NoSlotLeak`, `ConcurrencyBound`, `TokenFreshness`, `BodyIntegrity`,
`ContextHonesty` and `Refinement` (`Spec` implements `BoundedGet`).
`BoundedConcurrency` speaks of open requests only; that they are at most the
capacity follows because each holds an element of the channel
(`SlotsMatchHolders`) and the channel is bounded (`TypeOK`). `TokenFresh` needs
that the version noted at admission is not in the future (`AdmittedInPast`).
`OutcomeMatchesContext` and the refinement need to know at which program counters
a result has been decided (`ResultDecided`): without it an admitted call could be
answered twice. Counting is reduced to two lemmas on adding and removing one
element of a finite set.

**HTTPTransportProofs**, for any connections and body limit: `OrderlyExit`,
`WholeBodies`, `ForeignBodiesUnread` and the action property `AcceptErrorReported`.
`ShutdownInv` ties the program counter of `Serve` to the rest: `Shutdown` has begun
only after a signal, once it has succeeded no connection can open again, and
the accept loop reports once. `ConnInv` says which wrappers a request has passed
at each point of its handler, that no byte is read before `boundedBody`, and that a
foreign request in `"respond"` was answered by one of the first two.
Its second half is about `CallDeadline`, the same connections in time, with
`CallsInv` as the invariant: from positive timeouts, slots and plans,
`CallTimeBound` and `SuccessIsDelivered`.
After its body a running call has spent at most a full timeout on each get that
returned and what its timer shows on the present one (`ActiveInv`); time and timer advance
together, so the bound does not depend on who holds the slots.

**ToolCallProofs**, for any number of calls, any inputs and configuration:
`WholeLines` from `LogInv` (the mutex belongs to the call that encodes or writes,
and only that call has an incomplete line), and `OutcomesTrue`,
`AuditMatchesReply`, `OnlyFixedTexts`, `OnlyValidatedNames` from `AuditInv`, which
keeps, for every call, that its reply is one a handler can give for what it came
upon (`HandlerAnswer`) and that its event is the one `complete` makes of it
(`Completed`). The properties are then facts about finitely many kinds of answer.
`OnlyValidatedNames` speaks of what the handler came upon, not of the outcome in the
event: an input that was refused is named only if the call was cancelled, which is
the case the run `AuditOmitsInvalidNames` shows.

**RegistryProofs**, for any sequence of sources: `CatalogTrue` and
`EverySourceReachable`. While the maps are filled an entry may have overwritten
another, so `MapInv` says only that an identifier leads to some source that has
it and registers for the capability; when the catalog has refused duplicates
there is only one.

**KubernetesObserveProofs** and **FluxObserveProofs**, for any cluster, scopes,
page size, limits and number of changes: `UnhealthyListed` and `StatusTrue`;
`EntriesTrue` and `FirstAreKept`; and in both `ListImplementsPromise`, the safety
part of the refinement of `BoundedList`. The central conjunct is `NotLost`:
whatever was unready all along has its list still to be read, or was found (or
counted), or the observation knows that it is partial. It needs an up-to-date
history (`SeenInv`), requests of selected scopes only, and, in Flux, that each
list is read once (`PlanInv`), so that no object has two entries. The lemmas on
sorting and cutting show that the first `limit` elements of a finite set are
`limit` many, and everything when there are no more. The assumptions are those
that `NewClient` enforces (a list of scopes, in Flux of different ones) and that
objects live in a configured scope; the others can never be listed.

**MonitoringObserveProofs**, for any configuration, responses and limits:
`ScrapesAreExact`, `ForeignSeriesAreHarmless`, `MostUrgentAreKept`,
`ComponentsAreDeserved` and `AcceptedIsEncoded`. The assumptions say only which
fields are decoded, and as what, and that 253402300799 s after 1970 is within the
years that can be encoded. One request makes an observation, so the
invariant is short: the configuration is one that `NewClientAccepts`, and the
output is one that it and the body determine (`OutputInv`), the order of equal
alerts left open. The work is in the operators. `KeyInjective`: labels without
NUL share their key with no other labels, because the only NUL of the key is the
one that `seriesKey` puts there; both theorems about scrapes rest on it, and the
mutant that lets NUL into a configured label breaks `ScrapesExact`. `SortingFacts`: what
`slices.SortFunc` returns is a permutation, an injection of a finite set of
positions into itself being onto. `UrgentFirst` and `InitialSegment`: in the
order of `compareAlerts` the positions of alerts at least as urgent as a given
one are the first of the list, so the cut at the limit keeps the lesser of their
number and the limit; the least position that is not among them comes from the
well-foundedness of the numbers, and no induction over the list is needed.

**StartupProofs**, for any command lines, files, bounds and number of starts:
`FailsClosed`, `OnlyDuplicatesRefused` and `ProbesTrue`. `BuildInv` relates the
lists that `Load` builds to the part of the file it has walked: all of it, nothing
else, and no identifier twice unless it is configured twice. What holds of the
construction is not proved again: `RegistryProofs` is instantiated for the lists
of clients that `Load` can build, which are shown to meet `RegistryAssumption`.
`ProbesTrue` assumes that no other program on the port answers with status 200 and
exactly the three bytes of the health handler, because the probe could not tell
it from the server.

Model-checked only:

* Liveness (`GetReturns`, `SignalStops`, and so on, and that a Flux observation
  ends, which is part of `ImplementsBoundedList`): outside what the prover supports.
* `EveryCallAudited` and `NoNamesOnInvalidInput`, which the code violates.

## 6. Not modelled

* The reasons, the counts and the conditions of an unhealthy workload
  (`NormalizeWorkloadReason` and the second half of `controllerHealth`): they are
  copied into the entry and decide nothing.
* Service coordinates, name patterns, URLs, JSON, PEM and TLS appear by the verdict
  their callers see. The MCP SDK and `net/http` are external.
* `ErrResultTooLarge` is reachable in `ToolCall`, whose sources are abstract; no
  real observation reaches it, because 50 entries of bounded fields are below
  64 KiB. The other failure of `CheckResultSize`, a time that cannot be encoded,
  is modelled in `FluxObserve` and `MonitoringObserve`.
* Time is abstract outside `CallDeadline`: a deadline may expire at any moment.
  `ReadHeaderTimeout` and `IdleTimeout` only close connections without a call.
* Timestamps and durations of audit events, and `observedAt`, carry no control.
* Target kinds other than the three, probe kinds and their paths: all three
  probes reach the same handler.

## 7. Plan

1. Done: all modules of section 2; the proofs of section 5, which state every
   invariant and every safety action property that a passing run checks.
2. Left to TLC: liveness, for the reason given in section 5.
