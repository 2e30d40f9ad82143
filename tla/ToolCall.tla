------------------------------ MODULE ToolCall ------------------------------
(***************************************************************************)
(* MCP tool calls (internal/mcpserver): the audit middleware around the    *)
(* six tool handlers, for any number of calls served concurrently.         *)
(*                                                                         *)
(* A call is decoded and validated, dispatched to the source of its target *)
(* (or answered from the catalog), its error is redacted, its outcome      *)
(* classified and written to stderr under the mutex of the audit logger,   *)
(* and only then answered.  Its context may be cancelled between any two   *)
(* of these steps.  Sources appear only by what their interface can        *)
(* return; SourceRequest models how they obtain it.                        *)
(***************************************************************************)
EXTENDS Integers, FiniteSets

CONSTANTS
    Calls,          \* goroutines that serve requests
    Inputs,         \* the tools/call requests clients may send
    Configured,     \* source family -> identifiers of its targets
    StderrMayFail   \* may a write of the audit log fail?

CONSTANT NoCall     \* value of the mutex when it is free

KubernetesTools == {"kubernetes_get_cluster_health",
                    "kubernetes_list_unhealthy_workloads"}
MonitoringTools == {"monitoring_list_active_alerts",
                    "monitoring_get_scrape_health"}
FluxTools == {"flux_list_unhealthy_reconciliations"}
SourceTools == KubernetesTools \cup MonitoringTools \cup FluxTools
Tools == SourceTools \cup {"observer_list_targets"}
Families == {"kubernetes", "monitoring", "flux"}

(* A request.  "bad" stands for every string that is not an identifier; ""  *)
(* for an omitted scope.  decodes: the arguments are a JSON object whose    *)
(* target and scope are strings; limitOK: limit is omitted or in 0..50;     *)
(* strict: nothing else breaks the input schema (an unknown member, a limit *)
(* of zero, a scope that is present and empty).                             *)
NoRequest == [tool |-> "unsupported", target |-> "", scope |-> "",
              decodes |-> FALSE, limitOK |-> FALSE, strict |-> FALSE]

ASSUME InputsAssumption ==
    /\ \A in \in Inputs :
        /\ DOMAIN in = DOMAIN NoRequest
        /\ in.tool \in Tools \cup {"unsupported"}
        /\ in.decodes \in BOOLEAN /\ in.limitOK \in BOOLEAN
        /\ in.strict \in BOOLEAN
    /\ DOMAIN Configured = Families
    /\ \A f \in Families : "bad" \notin Configured[f]
    /\ StderrMayFail \in BOOLEAN
    /\ NoCall \notin Calls

VARIABLES
    pc,         \* where each call is
    req,        \* its request
    ctx,        \* ctx.Err() of its context
    event,      \* its audit event
    reply,      \* what the handler returned
    cause,      \* history: what the handler came upon
    mu,         \* owner of auditLogger.mu
    encoderErr, \* has the json.Encoder recorded a write error?
    stderrOK,   \* do writes to stderr succeed at the moment?
    written,    \* what became of the call's event
    line,       \* the call whose event ends the log, incomplete, or NoCall
    mixed       \* history: was text added to another call's incomplete line?

logVars == <<encoderErr, stderrOK, written, line, mixed>>
vars == <<pc, req, ctx, event, reply, cause, mu, logVars>>

-----------------------------------------------------------------------------
(* Errors.  detail: the text says more than the sentinel (a status, the     *)
(* resource that was read, an arbitrary message).                           *)

Err(pkg, name) == [pkg |-> pkg, name |-> name, detail |-> FALSE]
Detailed(e) == [e EXCEPT !.detail = TRUE]

SourceSentinels == {"ErrSourceTimeout", "ErrSourceUnavailable",
    "ErrSourceRejected", "ErrCredentialUnavailable", "ErrInvalidSourceResponse"}
ContextCanceled == Err("context", "Canceled")
ErrResultTooLarge == Err("observer", "ErrResultTooLarge")
ValidationError == Err("observer", "ValidationError")
SDKError == Detailed(Err("sdk", "InvalidParams"))
errTargetNotConfigured == Err("mcpserver", "errTargetNotConfigured")
errObservationCanceled == Err("mcpserver", "errObservationCanceled")
errObservationFailed == Err("mcpserver", "errObservationFailed")
RawError == Detailed(Err("other", "raw"))

Family(tool) == CASE tool \in KubernetesTools -> "kubernetes"
                  [] tool \in MonitoringTools -> "monitoring"
                  [] OTHER -> "flux"
RequestPackage(tool) ==
    IF tool \in KubernetesTools THEN "kubernetes" ELSE "sourcehttp"
TakesScope(tool) == tool \in FluxTools \cup {"kubernetes_list_unhealthy_workloads"}
TakesLimit(tool) == TakesScope(tool) \/ tool = "monitoring_list_active_alerts"

(* The errors an adapter can return: those of the request boundary, wrapped *)
(* or not, an unknown scope, an oversized result, and anything else.        *)
SourceErrors(in) ==
    {Err(RequestPackage(in.tool), n) : n \in SourceSentinels}
    \cup {Detailed(Err(RequestPackage(in.tool), n)) : n \in SourceSentinels}
    \cup {ErrResultTooLarge, RawError}
    \cup IF TakesScope(in.tool) /\ in.scope # ""
         THEN {Err(Family(in.tool), "ErrUnknownScope")} ELSE {}

(* Mutant of safeToolError: the Flux scope error is missing from the list   *)
(* of safe errors.                                                          *)
safeToolErrorNoFluxScope(e) ==
    CASE e.name = "ValidationError" -> ValidationError
      [] e.pkg = "context" /\ e.name = "Canceled" -> errObservationCanceled
      [] e.name = "ErrResultTooLarge" -> ErrResultTooLarge
      [] e.pkg \in {"kubernetes", "sourcehttp"} /\ e.name \in SourceSentinels
            -> Err(e.pkg, e.name)
      [] e.pkg = "kubernetes" /\ e.name = "ErrUnknownScope" -> Err(e.pkg, e.name)
      [] OTHER -> errObservationFailed

(* Mutant of safeToolError: errors are returned as they are. *)
safeToolErrorIdentity(e) == e

safeToolError(e) ==
    CASE e.name = "ValidationError" -> ValidationError
      [] e.pkg = "context" /\ e.name = "Canceled" -> errObservationCanceled
      [] e.name = "ErrResultTooLarge" -> ErrResultTooLarge
      [] e.pkg \in {"kubernetes", "sourcehttp"} /\ e.name \in SourceSentinels
            -> Err(e.pkg, e.name)
      [] e.pkg \in {"kubernetes", "flux"} /\ e.name = "ErrUnknownScope"
            -> Err(e.pkg, e.name)
      [] OTHER -> errObservationFailed

-----------------------------------------------------------------------------
(* Results. *)

NoReply == [kind |-> "none"]
Outputs == [items : {0, 1}, flag : {"false", "true"}, tooLarge : BOOLEAN]
Success(output) == [kind |-> "result", output |-> output]
ToolError(e) == [kind |-> "toolError", err |-> e]   \* IsError, GetError() = e
CallError(e) == [kind |-> "callError", err |-> e]   \* JSON-RPC error

CheckResultSize(output) ==
    IF output.tooLarge THEN ToolError(safeToolError(ErrResultTooLarge))
                       ELSE Success(output)

ValidIdentifier(id) == id \notin {"bad", ""}

(* Validate / Normalize of the tool's input. *)
Validates(in) ==
    \/ in.tool = "observer_list_targets"
    \/ /\ ValidIdentifier(in.target)
       /\ TakesScope(in.tool) /\ in.scope # "" => ValidIdentifier(in.scope)
       /\ TakesLimit(in.tool) => in.limitOK

-----------------------------------------------------------------------------
(* The audit event. *)

Absent == -1
auditRequest(in) ==
    LET named == in.tool \in SourceTools /\ in.decodes IN
    [tool      |-> IF in.tool \in Tools THEN in.tool ELSE "unknown",
     target    |-> IF named /\ ValidIdentifier(in.target) THEN in.target ELSE "",
     scope     |-> IF named /\ ValidIdentifier(in.scope) THEN in.scope ELSE "",
     outcome   |-> "none",
     itemCount |-> Absent,
     flag      |-> "absent"]

sourceCategory ==
    [ErrSourceTimeout |-> "source_timeout",
     ErrSourceUnavailable |-> "source_unavailable",
     ErrSourceRejected |-> "source_rejected",
     ErrCredentialUnavailable |-> "credential_unavailable",
     ErrInvalidSourceResponse |-> "invalid_source_response"]

(* Mutant of auditOutcome: the error that the tool result carries is not    *)
(* looked at.                                                               *)
auditOutcomeIgnoresToolError(ctxErr, knownTool, r) ==
    CASE ctxErr # "nil" -> "canceled"
      [] ctxErr = "nil" /\ ~knownTool -> "unsupported_tool"
      [] ctxErr = "nil" /\ knownTool /\ r.kind = "callError" -> "internal_error"
      [] OTHER -> "success"

(* Mutant of auditOutcome: an error that is none of the known ones, as the  *)
(* SDK's are, is taken for an internal one.                                 *)
auditOutcomeUnknownInternal(ctxErr, knownTool, r) ==
    CASE ctxErr # "nil" -> "canceled"
      [] ctxErr = "nil" /\ ~knownTool -> "unsupported_tool"
      [] ctxErr = "nil" /\ knownTool /\ r.kind = "result" -> "success"
      [] ctxErr = "nil" /\ knownTool /\ r.kind = "toolError"
           /\ r.err = ValidationError -> "validation_error"
      [] OTHER -> "internal_error"

auditOutcome(ctxErr, knownTool, r) ==
    CASE ctxErr # "nil" -> "canceled"
      [] ctxErr = "nil" /\ ~knownTool -> "unsupported_tool"
      [] ctxErr = "nil" /\ knownTool /\ r.kind = "callError" -> "internal_error"
      [] ctxErr = "nil" /\ knownTool /\ r.kind = "result" -> "success"
      [] ctxErr = "nil" /\ knownTool /\ r.kind = "toolError" ->
         CASE r.err = ValidationError -> "validation_error"
           [] r.err = errTargetNotConfigured -> "target_not_configured"
           [] r.err.name = "ErrUnknownScope" -> "scope_not_configured"
           [] r.err.name \in SourceSentinels -> sourceCategory[r.err.name]
           [] r.err = ErrResultTooLarge -> "result_too_large"
           [] r.err = errObservationCanceled -> "canceled"
           [] r.err = errObservationFailed -> "internal_error"
           [] OTHER -> "validation_error"

(* Which metadata addAuditResult copies from the structured content. *)
CountsItems(tool) == tool # "kubernetes_get_cluster_health"
HasFlag(tool) == tool # "observer_list_targets"    \* partial or truncated
addAuditResult(ev, r) ==
    IF r.kind # "result" THEN ev    \* no structured content
    ELSE [ev EXCEPT
            !.itemCount = IF CountsItems(ev.tool) THEN r.output.items ELSE Absent,
            !.flag = IF HasFlag(ev.tool) THEN r.output.flag ELSE "absent"]

-----------------------------------------------------------------------------
Init ==
    /\ pc = [c \in Calls |-> "idle"]
    /\ req = [c \in Calls |-> NoRequest]
    /\ ctx = [c \in Calls |-> "nil"]
    /\ event = [c \in Calls |-> auditRequest(NoRequest)]
    /\ reply = [c \in Calls |-> NoReply]
    /\ cause = [c \in Calls |-> "none"]
    /\ mu = NoCall
    /\ encoderErr = FALSE
    /\ stderrOK = TRUE
    /\ written = [c \in Calls |-> "no"]
    /\ line = NoCall /\ mixed = FALSE

Goto(c, from, to) == pc[c] = from /\ pc' = [pc EXCEPT ![c] = to]
Answer(c, r, why) ==
    /\ reply' = [reply EXCEPT ![c] = r]
    /\ cause' = [cause EXCEPT ![c] = why]

(* The middleware receives a tools/call and starts its event. *)
Receive(c, in) ==
    /\ Goto(c, "idle", "decode")
    /\ req' = [req EXCEPT ![c] = in]
    /\ event' = [event EXCEPT ![c] = auditRequest(in)]
    /\ UNCHANGED <<ctx, reply, cause, mu, logVars>>

(* The SDK refuses a tool that was not registered. *)
RefuseTool(c) ==
    /\ Goto(c, "decode", "finish")
    /\ req[c].tool \notin Tools
    /\ Answer(c, CallError(SDKError), "unsupported")
    /\ UNCHANGED <<req, ctx, event, mu, logVars>>

(* The SDK refuses arguments that do not decode or break the input schema.  *)
(* The handlers do not rely on the second: it is possible, not certain.     *)
RefuseInput(c) ==
    /\ Goto(c, "decode", "finish")
    /\ req[c].tool \in Tools
    /\ ~req[c].decodes \/ ~Validates(req[c]) \/ ~req[c].strict
    /\ Answer(c, ToolError(SDKError), "validation")
    /\ UNCHANGED <<req, ctx, event, mu, logVars>>

Decoded(c) == req[c].tool \in Tools /\ req[c].decodes

(* The handler of observer_list_targets answers from the catalog. *)
ListTargets(c) ==
    /\ Goto(c, "decode", "finish")
    /\ Decoded(c) /\ req[c].tool = "observer_list_targets"
    /\ Answer(c, CheckResultSize([items |-> 1, flag |-> "false",
                                  tooLarge |-> FALSE]), "ok")
    /\ UNCHANGED <<req, ctx, event, mu, logVars>>

(* A source tool's handler: Validate or Normalize fails. *)
HandlerRejectsInput(c) ==
    /\ Goto(c, "decode", "finish")
    /\ Decoded(c) /\ ~Validates(req[c])
    /\ Answer(c, ToolError(safeToolError(ValidationError)), "validation")
    /\ UNCHANGED <<req, ctx, event, mu, logVars>>

KnownTarget(c) == req[c].target \in Configured[Family(req[c].tool)]

HandlerMissesTarget(c) ==
    /\ Goto(c, "decode", "finish")
    /\ Decoded(c) /\ req[c].tool \in SourceTools /\ Validates(req[c])
    /\ ~KnownTarget(c)
    /\ Answer(c, ToolError(errTargetNotConfigured), "target")
    /\ UNCHANGED <<req, ctx, event, mu, logVars>>

HandlerCallsSource(c) ==
    /\ Goto(c, "decode", "source")
    /\ Decoded(c) /\ req[c].tool \in SourceTools /\ Validates(req[c])
    /\ KnownTarget(c)
    /\ UNCHANGED <<req, ctx, event, reply, cause, mu, logVars>>

SourceSucceeds(c, output) ==
    /\ Goto(c, "source", "finish")
    /\ Answer(c, CheckResultSize(output),
              IF output.tooLarge THEN "ErrResultTooLarge" ELSE "ok")
    /\ UNCHANGED <<req, ctx, event, mu, logVars>>

SourceFails(c, e) ==
    /\ Goto(c, "source", "finish")
    /\ Answer(c, ToolError(safeToolError(e)), e.name)
    /\ UNCHANGED <<req, ctx, event, mu, logVars>>

(* next has returned: the middleware completes the event, looking at the    *)
(* context as it is by now.                                                 *)
FinishEvent(c) ==
    LET outcome == auditOutcome(ctx[c], req[c].tool \in Tools, reply[c])
        ev == [event[c] EXCEPT !.outcome = outcome]
    IN
    /\ Goto(c, "finish", "lock")
    /\ event' = [event EXCEPT ![c] =
          CASE outcome \in {"validation_error", "unsupported_tool"} ->
                 [ev EXCEPT !.target = "", !.scope = ""]
            [] outcome = "success" -> addAuditResult(ev, reply[c])
            [] OTHER -> ev]
    /\ UNCHANGED <<req, ctx, reply, cause, mu, logVars>>

(* Mutant of Lock: write does not lock. *)
LockNothing(c) ==
    /\ Goto(c, "lock", "encode")
    /\ UNCHANGED <<req, ctx, event, reply, cause, mu, logVars>>

(* write: l.mu.Lock() *)
Lock(c) ==
    /\ Goto(c, "lock", "encode")
    /\ mu = NoCall
    /\ mu' = c
    /\ UNCHANGED <<req, ctx, event, reply, cause, logVars>>

(* l.encoder.Encode(event) begins to write its line, unless the encoder     *)
(* remembers an error.                                                      *)
Encode(c) ==
    /\ Goto(c, "encode", "write")
    /\ IF encoderErr THEN UNCHANGED <<written, line, mixed>>
       ELSE /\ written' = [written EXCEPT ![c] = "partly"]
            /\ line' = c
            /\ mixed' = (mixed \/ line # NoCall)
    /\ UNCHANGED <<req, ctx, event, reply, cause, mu, encoderErr, stderrOK>>

(* What becomes of the event when Encode returns. *)
EventFate(c) ==
    IF ~stderrOK THEN "failed"
    ELSE IF written[c] = "partly" THEN "yes" ELSE "suppressed"

(* Mutant of EncodeReturns: write forgets to unlock. *)
EncodeReturnsLocked(c) ==
    /\ Goto(c, "write", "reply")
    /\ written' = [written EXCEPT ![c] = "yes"] /\ line' = NoCall
    /\ UNCHANGED <<req, ctx, event, reply, cause, mu, encoderErr, stderrOK, mixed>>

(* Encode returns, its error is dropped, and the deferred Unlock runs.  A   *)
(* write that fails may leave a part of its line behind.                    *)
EncodeReturns(c) ==
    /\ Goto(c, "write", "reply")
    /\ written' = [written EXCEPT ![c] = EventFate(c)]
    /\ IF written[c] # "partly" THEN UNCHANGED <<encoderErr, line>>
       ELSE /\ encoderErr' = ~stderrOK
            /\ line' \in IF stderrOK THEN {NoCall} ELSE {NoCall, c}
    /\ mu' = NoCall
    /\ UNCHANGED <<req, ctx, event, reply, cause, stderrOK, mixed>>

(* The middleware returns the handler's result, which the SDK sends. *)
Reply(c) ==
    /\ Goto(c, "reply", "idle")
    /\ ctx' = [ctx EXCEPT ![c] = "nil"]
    /\ reply' = [reply EXCEPT ![c] = NoReply]
    /\ cause' = [cause EXCEPT ![c] = "none"]
    /\ written' = [written EXCEPT ![c] = "no"]
    /\ req' = [req EXCEPT ![c] = NoRequest]
    /\ event' = [event EXCEPT ![c] = auditRequest(NoRequest)]
    /\ UNCHANGED <<mu, encoderErr, stderrOK, line, mixed>>

-----------------------------------------------------------------------------
(* The client cancels the call or goes away. *)
Cancel(c) ==
    /\ pc[c] # "idle" /\ ctx[c] = "nil"
    /\ ctx' = [ctx EXCEPT ![c] = "Canceled"]
    /\ UNCHANGED <<pc, req, event, reply, cause, mu, logVars>>

(* stderr starts or stops failing (a full disk behind a redirection). *)
StderrChanges ==
    /\ StderrMayFail
    /\ stderrOK' = ~stderrOK
    /\ UNCHANGED <<pc, req, ctx, event, reply, cause, mu, encoderErr, written,
                   line, mixed>>

SourceReturns(c) ==
    \/ \E output \in Outputs : SourceSucceeds(c, output)
    \/ \E e \in SourceErrors(req[c]) : SourceFails(c, e)
    \/ /\ ctx[c] = "Canceled"
       /\ \E e \in {ContextCanceled, Detailed(ContextCanceled)} : SourceFails(c, e)

ServerStep(c) ==
    \/ RefuseTool(c) \/ RefuseInput(c) \/ ListTargets(c)
    \/ HandlerRejectsInput(c) \/ HandlerMissesTarget(c) \/ HandlerCallsSource(c)
    \/ SourceReturns(c)
    \/ FinishEvent(c) \/ Encode(c) \/ EncodeReturns(c) \/ Reply(c)

Next ==
    \/ \E c \in Calls :
        \/ \E in \in Inputs : Receive(c, in)
        \/ ServerStep(c)
        \/ Lock(c)
        \/ Cancel(c)
    \/ StderrChanges

(* Goroutines run; a source answers, because each of its requests returns   *)
(* (SourceRequest!GetReturns); writes to stderr return; sync.Mutex does not *)
(* starve a waiter.                                                         *)
Fairness == \A c \in Calls : WF_vars(ServerStep(c)) /\ SF_vars(Lock(c))

Spec == Init /\ [][Next]_vars /\ Fairness

-----------------------------------------------------------------------------
(* Properties. *)

Audited(c) == pc[c] \in {"lock", "encode", "write", "reply"}

(* The category that docs/audit-events.md gives to what a handler met. *)
CategoryOf(why) ==
    CASE why = "ok" -> "success"
      [] why = "validation" -> "validation_error"
      [] why = "unsupported" -> "unsupported_tool"
      [] why = "target" -> "target_not_configured"
      [] why = "ErrUnknownScope" -> "scope_not_configured"
      [] why = "ErrResultTooLarge" -> "result_too_large"
      [] why = "Canceled" -> "canceled"
      [] why = "raw" -> "internal_error"
      [] OTHER -> sourceCategory[why]

(* The audited outcome is the category of what really happened in the       *)
(* handler, through redaction and classification of three error families,   *)
(* except that a cancelled call may be audited as canceled.                 *)
CausesClassified ==
    \A c \in Calls : Audited(c) =>
        \/ event[c].outcome = CategoryOf(cause[c])
        \/ event[c].outcome = "canceled" /\ ctx[c] = "Canceled"

(* The audit log and the client are told the same: success is logged only   *)
(* with the result and the metadata that the client gets, and a result is   *)
(* never logged as a failure of the call.                                   *)
AuditAgreesWithReply ==
    \A c \in Calls : Audited(c) =>
        LET ev == event[c]
            r == reply[c]
        IN
        /\ ev.outcome = "success" =>
            /\ r.kind = "result"
            /\ ev.itemCount \in {Absent, r.output.items}
            /\ ev.flag \in {"absent", r.output.flag}
        /\ r.kind = "result" => ev.outcome \in {"success", "canceled"}
        /\ ev.outcome # "success" => ev.itemCount = Absent /\ ev.flag = "absent"

(* The client of a tool sees only fixed error texts: no status code, path   *)
(* or raw message of a source gets through a handler.                       *)
RepliesRedacted ==
    \A c \in Calls : reply[c].kind = "toolError" /\ reply[c].err # SDKError =>
        ~reply[c].err.detail /\ reply[c].err.pkg # "other"

(* No caller-controlled string reaches the log: names are identifiers, a    *)
(* tool name is one of six or "unknown", and only tools that take a target  *)
(* have one in their event.  A call whose input was refused, by the handler *)
(* or by the SDK, names its target or scope only if it was cancelled.       *)
AuditNamesValidated ==
    \A c \in Calls :
        LET ev == event[c]
            unnamed == ev.target = "" /\ ev.scope = ""
        IN
        /\ ev.target # "" => ValidIdentifier(ev.target)
        /\ ev.scope # "" => ValidIdentifier(ev.scope)
        /\ ev.tool \in Tools \cup {"unknown"}
        /\ req[c].tool \notin SourceTools => unnamed
        /\ Audited(c) /\ cause[c] = "validation" => unnamed \/ ctx[c] = "Canceled"

(* docs/audit-events.md: target and scope "are omitted for input-validation *)
(* failures and unsupported tool names".                                    *)
NoNamesOnInvalidInput ==
    \A c \in Calls : Audited(c) /\ cause[c] \in {"validation", "unsupported"} =>
        event[c].target = "" /\ event[c].scope = ""

(* docs/audit-events.md: "one compact JSON event to stderr after every MCP  *)
(* tool call": a call whose own write stderr would accept has its event.    *)
EveryCallAudited == \A c \in Calls : written[c] # "suppressed"

(* The log is a sequence of whole lines, whichever calls run at once and    *)
(* whichever writes fail: no event begins inside the line of another call,  *)
(* what a failed write left behind is never continued, because nothing is   *)
(* written after it, and until then no client gets an answer before the     *)
(* line of its call is complete.                                            *)
LogLinesWhole ==
    /\ ~mixed
    /\ line # NoCall => encoderErr \/ (pc[line] = "write" /\ mu = line)
    /\ \A c \in Calls : pc[c] = "reply" => written[c] = "yes" \/ encoderErr

(* Every call is answered, also when others contend for the audit log. *)
CallReturns == \A c \in Calls : pc[c] # "idle" ~> pc[c] = "idle"

=============================================================================
