--------------------------- MODULE ToolCallProofs ---------------------------
(***************************************************************************)
(* The audit log stays a sequence of whole lines, and says of every call   *)
(* what happened to it, for any number of concurrent calls, any requests   *)
(* and any configuration.                                                  *)
(***************************************************************************)
EXTENDS ToolCall, TLAPS

-----------------------------------------------------------------------------
(* The log. *)

(* The types that the proofs about the log need. *)
LogTypes ==
    /\ pc \in [Calls -> {"idle", "decode", "source", "finish", "lock",
                         "encode", "write", "reply"}]
    /\ written \in [Calls -> {"no", "partly", "yes", "failed", "suppressed"}]
    /\ mu \in Calls \cup {NoCall}
    /\ line \in Calls \cup {NoCall}

(* What is known of a call by where it is: the mutex belongs to the call    *)
(* that encodes or writes, only the call that writes has an incomplete      *)
(* line, and only while no write has failed; it writes or the encoder has   *)
(* already given up; once it answers, its line is complete or a write has   *)
(* failed.                                                                  *)
CallLog(c) ==
    /\ pc[c] \in {"encode", "write"} <=> mu = c
    /\ written[c] = "partly" => pc[c] = "write" /\ ~encoderErr
    /\ pc[c] = "write" => written[c] = "partly" \/ encoderErr
    /\ pc[c] = "reply" => written[c] = "yes" \/ encoderErr
    /\ line = c => written[c] = "partly" \/ encoderErr

LogInv ==
    /\ LogTypes
    /\ ~mixed
    /\ \A c \in Calls : CallLog(c)

(* The invariant says more than the property. *)
LEMMA LogInvSuffices == LogInv => LogLinesWhole
BY DEF LogInv, LogTypes, CallLog, LogLinesWhole

(* The log is empty and its mutex free in an initial state. *)
LEMMA InitLogInv == Init => LogInv
BY InputsAssumption DEF Init, LogInv, LogTypes, CallLog

(* Steps outside write leave the log as it is and the mutex to its owner. *)
LEMMA OutsideWrite ==
    ASSUME LogInv, NEW c \in Calls, NEW to,
           to \in {"idle", "decode", "source", "finish", "lock"},
           pc[c] \notin {"encode", "write"}, pc' = [pc EXCEPT ![c] = to],
           written' = written \/ written' = [written EXCEPT ![c] = "no"],
           UNCHANGED <<mu, encoderErr, line, mixed>>
    PROVE  LogInv'
<1>1. LogTypes'
  BY DEF LogInv, LogTypes
<1>2. \A d \in Calls \ {c} : pc'[d] = pc[d] /\ written'[d] = written[d]
  BY DEF LogInv, LogTypes
<1>3. pc'[c] = to /\ written'[c] \in {written[c], "no"}
  BY DEF LogInv, LogTypes
<1>4. CallLog(c)'
  BY <1>3 DEF LogInv, CallLog
<1>5. \A d \in Calls \ {c} : CallLog(d)'
  BY <1>2 DEF LogInv, CallLog
<1> QED
  BY <1>1, <1>4, <1>5 DEF LogInv

(* The mutex is free when it is taken, so no other call is in write. *)
LEMMA LockLogInv ==
    ASSUME LogInv, NEW c \in Calls, Lock(c)
    PROVE  LogInv'
<1>1. LogTypes'
  BY DEF LogInv, LogTypes, Lock, Goto, logVars
<1>2. /\ pc[c] = "lock" /\ pc'[c] = "encode" /\ mu = NoCall /\ mu' = c
      /\ UNCHANGED <<encoderErr, written, line, mixed>>
      /\ \A d \in Calls \ {c} : pc'[d] = pc[d]
  BY DEF LogInv, LogTypes, Lock, Goto, logVars
<1>3. CallLog(c)'
  BY <1>2 DEF LogInv, CallLog
<1>4. \A d \in Calls \ {c} : CallLog(d)'
  BY <1>2, InputsAssumption DEF LogInv, CallLog
<1> QED
  BY <1>1, <1>2, <1>3, <1>4 DEF LogInv

(* A line begins only where the last one ends: an incomplete line belongs   *)
(* to the owner of the mutex, which is about to begin its own, or the       *)
(* encoder has given up.                                                    *)
LEMMA EncodeLogInv ==
    ASSUME LogInv, NEW c \in Calls, Encode(c)
    PROVE  LogInv'
<1>1. LogTypes'
  BY DEF LogInv, LogTypes, Encode, Goto
<1>2. /\ pc[c] = "encode" /\ pc'[c] = "write" /\ mu = c
      /\ UNCHANGED <<encoderErr, mu>>
      /\ \A d \in Calls \ {c} : pc'[d] = pc[d] /\ written'[d] = written[d]
  BY DEF LogInv, LogTypes, CallLog, Encode, Goto
<1>3. CASE encoderErr
  <2>1. UNCHANGED <<written, line, mixed>>
    BY <1>3 DEF Encode
  <2> QED
    BY <1>1, <1>2, <1>3, <2>1 DEF LogInv, CallLog
<1>4. CASE ~encoderErr
  <2>1. line = NoCall
    BY <1>2, <1>4 DEF LogInv, LogTypes, CallLog
  <2>2. written'[c] = "partly" /\ line' = c /\ mixed' = (mixed \/ line # NoCall)
    BY <1>4 DEF Encode, LogInv, LogTypes
  <2>3. ~mixed'
    BY <2>1, <2>2 DEF LogInv
  <2>4. CallLog(c)'
    BY <1>2, <1>4, <2>2 DEF CallLog
  <2>5. \A d \in Calls \ {c} : CallLog(d)'
    BY <1>2, <1>4, <2>2 DEF LogInv, CallLog
  <2> QED
    BY <1>1, <2>3, <2>4, <2>5 DEF LogInv
<1> QED
  BY <1>3, <1>4

(* A write that fails makes the encoder give up before the mutex is free. *)
LEMMA EncodeReturnsLogInv ==
    ASSUME LogInv, NEW c \in Calls, EncodeReturns(c)
    PROVE  LogInv'
<1>1. LogTypes'
  BY DEF LogInv, LogTypes, EncodeReturns, EventFate, Goto
<1>2. /\ pc[c] = "write" /\ pc'[c] = "reply" /\ mu = c /\ mu' = NoCall
      /\ mixed' = mixed
      /\ \A d \in Calls \ {c} : pc'[d] = pc[d] /\ written'[d] = written[d]
  BY DEF LogInv, LogTypes, CallLog, EncodeReturns, Goto
<1>3. written'[c] = EventFate(c)
  BY DEF LogInv, LogTypes, EncodeReturns
<1>4. CASE written[c] # "partly"
  <2>1. encoderErr /\ UNCHANGED <<encoderErr, line>>
    BY <1>2, <1>4 DEF LogInv, CallLog, EncodeReturns
  <2>2. written'[c] # "partly"
    BY <1>3, <1>4 DEF EventFate
  <2>3. \A d \in Calls : CallLog(d)'
    BY <1>2, <2>1, <2>2, InputsAssumption DEF LogInv, CallLog
  <2> QED
    BY <1>1, <1>2, <2>3 DEF LogInv
<1>5. CASE written[c] = "partly" /\ stderrOK
  <2>1. written'[c] = "yes" /\ ~encoderErr' /\ ~encoderErr /\ line' = NoCall
    BY <1>3, <1>5 DEF LogInv, CallLog, EncodeReturns, EventFate
  <2>2. \A d \in Calls : CallLog(d)'
    BY <1>2, <2>1, InputsAssumption DEF LogInv, CallLog
  <2> QED
    BY <1>1, <1>2, <2>2 DEF LogInv
<1>6. CASE written[c] = "partly" /\ ~stderrOK
  <2>1. written'[c] = "failed" /\ encoderErr'
    BY <1>3, <1>6 DEF EncodeReturns, EventFate
  <2>2. \A d \in Calls \ {c} : written[d] # "partly"
    BY <1>2 DEF LogInv, CallLog
  <2>3. \A d \in Calls : CallLog(d)'
    BY <1>2, <2>1, <2>2, InputsAssumption DEF LogInv, CallLog
  <2> QED
    BY <1>1, <1>2, <2>3 DEF LogInv
<1> QED
  BY <1>4, <1>5, <1>6

(* Every step of the specification preserves the invariant of the log. *)
LEMMA NextLogInv == LogInv /\ [Next]_vars => LogInv'
<1> SUFFICES ASSUME LogInv, [Next]_vars PROVE LogInv'
  OBVIOUS
<1>1. ASSUME NEW c \in Calls, NEW in \in Inputs, Receive(c, in) PROVE LogInv'
  BY <1>1, OutsideWrite DEF Receive, Goto, logVars
<1>2. ASSUME NEW c \in Calls, RefuseTool(c) \/ RefuseInput(c) \/ ListTargets(c)
             \/ HandlerRejectsInput(c) \/ HandlerMissesTarget(c)
             \/ HandlerCallsSource(c)
      PROVE LogInv'
  BY <1>2, OutsideWrite DEF RefuseTool, RefuseInput, ListTargets,
     HandlerRejectsInput, HandlerMissesTarget, HandlerCallsSource, Goto, logVars
<1>3. ASSUME NEW c \in Calls, SourceReturns(c) PROVE LogInv'
  BY <1>3, OutsideWrite DEF SourceReturns, SourceSucceeds, SourceFails, Goto,
     logVars
<1>4. ASSUME NEW c \in Calls, FinishEvent(c) PROVE LogInv'
  BY <1>4, OutsideWrite DEF FinishEvent, Goto, logVars
<1>5. ASSUME NEW c \in Calls, Reply(c) PROVE LogInv'
  BY <1>5, OutsideWrite DEF Reply, Goto
<1>6. ASSUME NEW c \in Calls, Cancel(c) PROVE LogInv'
  BY <1>6 DEF Cancel, logVars, LogInv, LogTypes, CallLog
<1>7. CASE StderrChanges \/ UNCHANGED vars
  BY <1>7 DEF StderrChanges, vars, logVars, LogInv, LogTypes, CallLog
<1> QED
  BY <1>1, <1>2, <1>3, <1>4, <1>5, <1>6, <1>7, LockLogInv, EncodeLogInv,
     EncodeReturnsLogInv DEF Next, ServerStep

(* LogLinesWhole holds of every behaviour: events of concurrent calls never *)
(* mix, and nothing is written behind what a failed write left.             *)
THEOREM WholeLines == Spec => []LogLinesWhole
<1>1. Init => LogInv
  BY InitLogInv
<1>2. LogInv /\ [Next]_vars => LogInv'
  BY NextLogInv
<1>3. LogInv => LogLinesWhole
  BY LogInvSuffices
<1> QED
  BY <1>1, <1>2, <1>3, PTL DEF Spec

-----------------------------------------------------------------------------
(* What a handler answers, and what the audit event says of it. *)

(* The errors that redaction lets through from a source, with the name of   *)
(* what the handler had met.                                                *)
RedactedSourceError(e, why) ==
    \/ /\ why \in SourceSentinels
       /\ \E pkg \in {"kubernetes", "sourcehttp"} : e = Err(pkg, why)
    \/ /\ why = "ErrUnknownScope"
       /\ \E pkg \in {"kubernetes", "flux"} : e = Err(pkg, why)
    \/ why = "ErrResultTooLarge" /\ e = ErrResultTooLarge
    \/ why = "Canceled" /\ e = errObservationCanceled
    \/ why = "raw" /\ e = errObservationFailed

(* Every answer that a call to tool can get, with what the handler had met. *)
HandlerAnswer(tool, r, why) ==
    \/ tool \notin Tools /\ r = CallError(SDKError) /\ why = "unsupported"
    \/ /\ tool \in Tools
       /\ \/ /\ r \in {ToolError(SDKError), ToolError(ValidationError)}
             /\ why = "validation"
          \/ r = ToolError(errTargetNotConfigured) /\ why = "target"
          \/ why = "ok" /\ \E output \in Outputs : r = Success(output)
          \/ \E e : r = ToolError(e) /\ RedactedSourceError(e, why)

(* The event of a request when its outcome is known. *)
Completed(in, outcome, r) ==
    LET ev == [auditRequest(in) EXCEPT !.outcome = outcome] IN
    CASE outcome \in {"validation_error", "unsupported_tool"} ->
            [ev EXCEPT !.target = "", !.scope = ""]
      [] outcome = "success" -> addAuditResult(ev, r)
      [] OTHER -> ev

(* What is known of a call by where it is. *)
CallInv(c) ==
    /\ req[c] \in Inputs \cup {NoRequest}
    /\ ctx[c] \in {"nil", "Canceled"}
    /\ pc[c] \in {"idle", "decode", "source"} => reply[c] = NoReply
    /\ pc[c] \in {"idle", "decode", "source", "finish"} =>
          event[c] = auditRequest(req[c])
    /\ pc[c] = "source" => req[c].tool \in SourceTools
    /\ pc[c] = "finish" \/ Audited(c) =>
          HandlerAnswer(req[c].tool, reply[c], cause[c])
    /\ Audited(c) =>
          \E err \in {"nil", ctx[c]} :
              event[c] = Completed(req[c],
                             auditOutcome(err, req[c].tool \in Tools, reply[c]),
                             reply[c])

AuditInv ==
    /\ LogTypes
    /\ DOMAIN req = Calls /\ DOMAIN ctx = Calls /\ DOMAIN event = Calls
    /\ DOMAIN reply = Calls /\ DOMAIN cause = Calls
    /\ \A c \in Calls : CallInv(c)

(* Redaction of every error an adapter can return. *)
LEMMA Redaction ==
    ASSUME NEW in, NEW e, in.tool \in SourceTools,
           e \in SourceErrors(in) \cup {ContextCanceled, Detailed(ContextCanceled)}
    PROVE  RedactedSourceError(safeToolError(e), e.name)
<1> DEFINE pkg == RequestPackage(in.tool)
<1>1. pkg \in {"kubernetes", "sourcehttp"}
  BY DEF RequestPackage
<1>2. CASE \E n \in SourceSentinels : e = Err(pkg, n) \/ e = Detailed(Err(pkg, n))
  <2>1. PICK n \in SourceSentinels : e = Err(pkg, n) \/ e = Detailed(Err(pkg, n))
    BY <1>2
  <2>2. e.pkg = pkg /\ e.name = n
    BY <2>1 DEF Err, Detailed
  <2>3. n \notin {"ValidationError", "Canceled", "ErrResultTooLarge"}
    BY DEF SourceSentinels
  <2>4. safeToolError(e) = Err(pkg, n)
    BY <1>1, <2>1, <2>2, <2>3 DEF safeToolError
  <2> QED
    BY <1>1, <2>2, <2>4 DEF RedactedSourceError
<1>3. CASE e = Err(Family(in.tool), "ErrUnknownScope") /\ TakesScope(in.tool)
  <2>1. Family(in.tool) \in {"kubernetes", "flux"}
    BY <1>3 DEF Family, TakesScope, KubernetesTools, MonitoringTools, FluxTools
  <2>2. e.name = "ErrUnknownScope" /\ e.pkg = Family(in.tool)
    BY <1>3 DEF Err
  <2>3. safeToolError(e) = Err(Family(in.tool), "ErrUnknownScope")
    BY <2>1, <2>2 DEF safeToolError, SourceSentinels
  <2> QED
    BY <2>1, <2>2, <2>3 DEF RedactedSourceError
<1>4. CASE e \in {ErrResultTooLarge, RawError, ContextCanceled,
                  Detailed(ContextCanceled)}
  BY <1>4 DEF safeToolError, RedactedSourceError, ErrResultTooLarge, RawError,
     ContextCanceled, Detailed, Err, SourceSentinels
<1> QED
  BY <1>2, <1>3, <1>4 DEF SourceErrors

(* The outcome of a call that was not cancelled is the category of what its *)
(* handler met.                                                             *)
LEMMA Classification ==
    ASSUME NEW tool, NEW r, NEW why, HandlerAnswer(tool, r, why)
    PROVE  auditOutcome("nil", tool \in Tools, r) = CategoryOf(why)
<1> USE DEF auditOutcome, CategoryOf
<1>1. CASE tool \notin Tools
  BY <1>1 DEF HandlerAnswer
<1>2. CASE tool \in Tools /\ why = "validation"
            /\ r \in {ToolError(SDKError), ToolError(ValidationError)}
  BY <1>2 DEF ToolError, SDKError, ValidationError, Detailed, Err,
     errTargetNotConfigured, ErrResultTooLarge, errObservationCanceled,
     errObservationFailed, SourceSentinels
<1>3. CASE tool \in Tools /\ why = "target"
            /\ r = ToolError(errTargetNotConfigured)
  BY <1>3 DEF ToolError, ValidationError, Err, errTargetNotConfigured,
     ErrResultTooLarge, errObservationCanceled, errObservationFailed,
     SourceSentinels
<1>4. CASE tool \in Tools /\ why = "ok" /\ \E output \in Outputs : r = Success(output)
  BY <1>4 DEF Success
<1>5. CASE tool \in Tools /\ \E e : r = ToolError(e) /\ RedactedSourceError(e, why)
  <2>1. PICK e : r = ToolError(e) /\ RedactedSourceError(e, why)
    BY <1>5
  <2>2. r.kind = "toolError" /\ r.err = e
    BY <2>1 DEF ToolError
  <2>3. CASE why \in SourceSentinels
    <3>1. e.name = why /\ e.pkg \in {"kubernetes", "sourcehttp"}
      BY <2>1, <2>3 DEF RedactedSourceError, SourceSentinels, Err
    <3>2. e \notin {ValidationError, errTargetNotConfigured, ErrResultTooLarge,
                    errObservationCanceled, errObservationFailed}
      BY <3>1 DEF ValidationError, errTargetNotConfigured, Err, SourceSentinels,
         ErrResultTooLarge, errObservationCanceled, errObservationFailed
    <3> QED
      BY <1>5, <2>2, <2>3, <3>1, <3>2 DEF SourceSentinels
  <2>4. CASE why = "ErrUnknownScope"
    <3>1. e.name = why /\ e.pkg \in {"kubernetes", "flux"}
      BY <2>1, <2>4 DEF RedactedSourceError, SourceSentinels, Err
    <3>2. e \notin {ValidationError, errTargetNotConfigured, ErrResultTooLarge,
                    errObservationCanceled, errObservationFailed}
      BY <3>1 DEF ValidationError, errTargetNotConfigured, Err, SourceSentinels,
         ErrResultTooLarge, errObservationCanceled, errObservationFailed
    <3> QED
      BY <1>5, <2>2, <2>4, <3>1, <3>2 DEF SourceSentinels
  <2>5. CASE why \in {"ErrResultTooLarge", "Canceled", "raw"}
    BY <1>5, <2>1, <2>2, <2>5 DEF RedactedSourceError, SourceSentinels,
       ValidationError, errTargetNotConfigured, ErrResultTooLarge,
       errObservationCanceled, errObservationFailed, Err
  <2> QED
    BY <2>1, <2>3, <2>4, <2>5 DEF RedactedSourceError
<1> QED
  BY <1>1, <1>2, <1>3, <1>4, <1>5 DEF HandlerAnswer

(* A call whose context has ended is audited as canceled. *)
LEMMA CanceledOutcome ==
    \A known, r : auditOutcome("Canceled", known, r) = "canceled"
BY DEF auditOutcome

(* What an event names, by its request and its outcome. *)
NamesValidated(in, ev) ==
    /\ ev.target # "" => ValidIdentifier(ev.target)
    /\ ev.scope # "" => ValidIdentifier(ev.scope)
    /\ ev.tool \in Tools \cup {"unknown"}
    /\ ev.outcome \in {"validation_error", "unsupported_tool"} =>
          ev.target = "" /\ ev.scope = ""
    /\ in.tool \notin SourceTools => ev.target = "" /\ ev.scope = ""

(* An event names only what was validated before its outcome is known, ... *)
LEMMA StartedNames == \A in : NamesValidated(in, auditRequest(in))
BY DEF auditRequest, NamesValidated

(* ... and when it is complete. *)
LEMMA CompletedNames ==
    ASSUME NEW in, NEW o, NEW r
    PROVE  NamesValidated(in, Completed(in, o, r))
<1>1. CASE o \in {"validation_error", "unsupported_tool"}
  BY <1>1 DEF Completed, auditRequest, NamesValidated
<1>2. CASE o = "success"
  BY <1>2 DEF Completed, auditRequest, addAuditResult, NamesValidated
<1>3. CASE o \notin {"validation_error", "unsupported_tool", "success"}
  BY <1>3 DEF Completed, auditRequest, NamesValidated
<1> QED
  BY <1>1, <1>2, <1>3

(* Completing the event sets its outcome, ... *)
LEMMA CompletedOutcome ==
    ASSUME NEW in, NEW o, NEW r
    PROVE  Completed(in, o, r).outcome = o
BY DEF Completed, auditRequest, addAuditResult

(* ... and copies metadata from results only. *)
LEMMA CompletedMetadata ==
    ASSUME NEW in, NEW o, NEW r
    PROVE  /\ o # "success" => /\ Completed(in, o, r).itemCount = Absent
                               /\ Completed(in, o, r).flag = "absent"
           /\ o = "success" /\ r.kind = "result" =>
                 /\ Completed(in, o, r).itemCount \in {Absent, r.output.items}
                 /\ Completed(in, o, r).flag \in {"absent", r.output.flag}
BY DEF Completed, auditRequest, addAuditResult

(* The call's record and its answer say the same. *)
LEMMA AuditedEvent ==
    ASSUME NEW c \in Calls, CallInv(c), Audited(c)
    PROVE  \E outcome :
             /\ event[c] = Completed(req[c], outcome, reply[c])
             /\ \/ outcome = CategoryOf(cause[c])
                \/ outcome = "canceled" /\ ctx[c] = "Canceled"
<1>1. HandlerAnswer(req[c].tool, reply[c], cause[c])
  BY DEF CallInv
<1>2. PICK err \in {"nil", ctx[c]} :
          event[c] = Completed(req[c],
                         auditOutcome(err, req[c].tool \in Tools, reply[c]),
                         reply[c])
  BY DEF CallInv
<1>3. CASE err = "nil"
  BY <1>1, <1>2, <1>3, Classification
<1>4. CASE err = "Canceled"
  BY <1>2, <1>4, CanceledOutcome
<1> QED
  BY <1>2, <1>3, <1>4 DEF CallInv

(* The category success belongs to results, and to nothing else. *)
LEMMA SuccessIsResult ==
    ASSUME NEW tool, NEW r, NEW why, HandlerAnswer(tool, r, why)
    PROVE  CategoryOf(why) = "success" <=> r.kind = "result"
<1>1. CASE why = "ok"
  BY <1>1 DEF HandlerAnswer, CategoryOf, Success, RedactedSourceError,
     SourceSentinels
<1>2. CASE why # "ok"
  <2>1. r.kind # "result"
    BY <1>2 DEF HandlerAnswer, CallError, ToolError
  <2>2. CASE why \in SourceSentinels
    BY <2>1, <2>2 DEF CategoryOf, SourceSentinels, sourceCategory
  <2>3. CASE why \notin SourceSentinels
    BY <1>2, <2>1, <2>3 DEF HandlerAnswer, CategoryOf, RedactedSourceError
  <2> QED
    BY <2>2, <2>3
<1> QED
  BY <1>1, <1>2

(* The invariant says more than the four properties. *)
LEMMA AuditInvSuffices ==
    ASSUME AuditInv
    PROVE  /\ CausesClassified /\ AuditAgreesWithReply
           /\ RepliesRedacted /\ AuditNamesValidated
<1>1. CausesClassified
  <2> SUFFICES ASSUME NEW c \in Calls, Audited(c)
               PROVE  \/ event[c].outcome = CategoryOf(cause[c])
                      \/ event[c].outcome = "canceled" /\ ctx[c] = "Canceled"
    BY DEF CausesClassified
  <2> QED
    BY AuditedEvent, CompletedOutcome DEF AuditInv
<1>2. AuditAgreesWithReply
  <2> SUFFICES ASSUME NEW c \in Calls, Audited(c)
               PROVE  LET ev == event[c]
                          r == reply[c]
                      IN
                      /\ ev.outcome = "success" =>
                          /\ r.kind = "result"
                          /\ ev.itemCount \in {Absent, r.output.items}
                          /\ ev.flag \in {"absent", r.output.flag}
                      /\ r.kind = "result" => ev.outcome \in {"success", "canceled"}
                      /\ ev.outcome # "success" =>
                          ev.itemCount = Absent /\ ev.flag = "absent"
    BY DEF AuditAgreesWithReply
  <2>1. PICK outcome :
             /\ event[c] = Completed(req[c], outcome, reply[c])
             /\ \/ outcome = CategoryOf(cause[c])
                \/ outcome = "canceled" /\ ctx[c] = "Canceled"
    BY AuditedEvent DEF AuditInv
  <2>2. outcome # "canceled" =>
            (outcome = "success" <=> reply[c].kind = "result")
    BY <2>1, SuccessIsResult DEF AuditInv, CallInv
  <2>3. event[c].outcome = outcome
    BY <2>1, CompletedOutcome
  <2>4. outcome # "success" => event[c].itemCount = Absent /\ event[c].flag = "absent"
    BY <2>1, CompletedMetadata
  <2>5. outcome = "success" /\ reply[c].kind = "result" =>
            /\ event[c].itemCount \in {Absent, reply[c].output.items}
            /\ event[c].flag \in {"absent", reply[c].output.flag}
    BY <2>1, CompletedMetadata
  <2> QED
    BY <2>2, <2>3, <2>4, <2>5
<1>3. RepliesRedacted
  <2> SUFFICES ASSUME NEW c \in Calls, reply[c].kind = "toolError",
                      reply[c].err # SDKError
               PROVE  ~reply[c].err.detail /\ reply[c].err.pkg # "other"
    BY DEF RepliesRedacted
  <2>1. pc[c] \notin {"idle", "decode", "source"}
    BY DEF AuditInv, CallInv, NoReply
  <2>2. HandlerAnswer(req[c].tool, reply[c], cause[c])
    BY <2>1 DEF AuditInv, LogTypes, CallInv, Audited
  <2>3. \E e : /\ reply[c] = ToolError(e)
               /\ e \in {SDKError, ValidationError, errTargetNotConfigured}
                  \/ RedactedSourceError(e, cause[c])
    <3>1. reply[c] # CallError(SDKError)
      BY DEF CallError
    <3>2. \A output : reply[c] # Success(output)
      BY DEF Success
    <3> QED
      BY <2>2, <3>1, <3>2, Zenon DEF HandlerAnswer
  <2> QED
    BY <2>3 DEF ToolError, RedactedSourceError, ValidationError, Err,
       errTargetNotConfigured, ErrResultTooLarge, errObservationCanceled,
       errObservationFailed
<1>4. AuditNamesValidated
  <2>1. ASSUME NEW c \in Calls PROVE NamesValidated(req[c], event[c])
    <3>1. CASE Audited(c)
      BY <3>1, AuditedEvent, CompletedNames DEF AuditInv
    <3>2. CASE ~Audited(c)
      BY <3>2, StartedNames DEF AuditInv, LogTypes, CallInv, Audited
    <3> QED
      BY <3>1, <3>2
  <2>2. ASSUME NEW c \in Calls, Audited(c), cause[c] = "validation"
        PROVE  \/ event[c].target = "" /\ event[c].scope = ""
               \/ ctx[c] = "Canceled"
    <3>1. CategoryOf(cause[c]) = "validation_error"
      BY <2>2 DEF CategoryOf
    <3>2. event[c].outcome = "validation_error" \/ ctx[c] = "Canceled"
      BY <1>1, <2>2, <3>1 DEF CausesClassified
    <3> QED
      BY <2>1, <3>2 DEF NamesValidated
  <2> QED
    BY <2>1, <2>2 DEF AuditNamesValidated, NamesValidated
<1> QED
  BY <1>1, <1>2, <1>3, <1>4

(* No call has an event or a reply in an initial state. *)
LEMMA InitAuditInv == Init => AuditInv
BY InputsAssumption DEF Init, AuditInv, LogTypes, CallInv, Audited

(* A step of one call leaves what is known of the others alone. *)
LEMMA CallStep ==
    ASSUME AuditInv, LogTypes', NEW c \in Calls, CallInv(c)',
           DOMAIN req' = Calls, DOMAIN ctx' = Calls, DOMAIN event' = Calls,
           DOMAIN reply' = Calls, DOMAIN cause' = Calls,
           \A d \in Calls \ {c} :
              /\ pc'[d] = pc[d] /\ req'[d] = req[d] /\ ctx'[d] = ctx[d]
              /\ event'[d] = event[d] /\ reply'[d] = reply[d]
              /\ cause'[d] = cause[d]
    PROVE  AuditInv'
<1>1. ASSUME NEW d \in Calls \ {c} PROVE CallInv(d)'
  BY <1>1 DEF AuditInv, CallInv, Audited
<1> QED
  BY <1>1 DEF AuditInv

(* A handler that gives one of the possible answers. *)
LEMMA AnswerAuditInv ==
    ASSUME AuditInv, LogTypes', NEW c \in Calls,
           pc[c] = "decode" \/ pc[c] = "source",
           pc' = [pc EXCEPT ![c] = "finish"],
           UNCHANGED req, UNCHANGED ctx, UNCHANGED event,
           \E r, why : Answer(c, r, why) /\ HandlerAnswer(req[c].tool, r, why)
    PROVE  AuditInv'
<1>1. PICK r, why : Answer(c, r, why) /\ HandlerAnswer(req[c].tool, r, why)
  OBVIOUS
<1>2. /\ pc'[c] = "finish" /\ reply'[c] = r /\ cause'[c] = why
      /\ \A d \in Calls \ {c} :
            pc'[d] = pc[d] /\ reply'[d] = reply[d] /\ cause'[d] = cause[d]
      /\ DOMAIN reply' = Calls /\ DOMAIN cause' = Calls
  BY <1>1 DEF AuditInv, LogTypes, Answer
<1>3. CallInv(c)'
  BY <1>1, <1>2 DEF AuditInv, CallInv, Audited
<1> QED
  BY <1>2, <1>3, CallStep DEF AuditInv

(* Each handler and the SDK give one of the possible answers. *)
LEMMA HandlerAnswers ==
    ASSUME NEW c \in Calls,
           \/ RefuseTool(c) \/ RefuseInput(c) \/ ListTargets(c)
           \/ HandlerRejectsInput(c) \/ HandlerMissesTarget(c)
    PROVE  \E r, why : Answer(c, r, why) /\ HandlerAnswer(req[c].tool, r, why)
<1>1. CASE RefuseTool(c)
  BY <1>1 DEF RefuseTool, HandlerAnswer
<1>2. CASE RefuseInput(c)
  BY <1>2 DEF RefuseInput, HandlerAnswer
<1>3. CASE ListTargets(c)
  <2> DEFINE catalog == [items |-> 1, flag |-> "false", tooLarge |-> FALSE]
  <2>1. catalog \in Outputs /\ CheckResultSize(catalog) = Success(catalog)
    BY DEF Outputs, CheckResultSize
  <2>2. Answer(c, CheckResultSize(catalog), "ok") /\ req[c].tool \in Tools
    BY <1>3 DEF ListTargets, Decoded
  <2> HIDE DEF catalog
  <2>3. HandlerAnswer(req[c].tool, CheckResultSize(catalog), "ok")
    BY <2>1, <2>2 DEF HandlerAnswer
  <2> QED
    BY <2>2, <2>3
<1>4. CASE HandlerRejectsInput(c)
  <2>1. safeToolError(ValidationError) = ValidationError
    BY DEF safeToolError, ValidationError, Err, SourceSentinels
  <2>2. Answer(c, ToolError(ValidationError), "validation")
        /\ req[c].tool \in Tools
    BY <1>4, <2>1 DEF HandlerRejectsInput, Decoded
  <2> QED
    BY <2>2 DEF HandlerAnswer
<1>5. CASE HandlerMissesTarget(c)
  BY <1>5 DEF HandlerMissesTarget, Decoded, HandlerAnswer
<1> QED
  BY <1>1, <1>2, <1>3, <1>4, <1>5

(* A handler that ends without a source notes what it came upon. *)
LEMMA HandlerAuditInv ==
    ASSUME AuditInv, LogTypes', NEW c \in Calls,
           \/ RefuseTool(c) \/ RefuseInput(c) \/ ListTargets(c)
           \/ HandlerRejectsInput(c) \/ HandlerMissesTarget(c)
    PROVE  AuditInv'
<1>1. /\ pc[c] = "decode" /\ pc' = [pc EXCEPT ![c] = "finish"]
      /\ UNCHANGED req /\ UNCHANGED ctx /\ UNCHANGED event
  BY DEF RefuseTool, RefuseInput, ListTargets, HandlerRejectsInput,
     HandlerMissesTarget, Goto
<1> QED
  BY <1>1, HandlerAnswers, AnswerAuditInv

(* So does a handler whose source has returned. *)
LEMMA SourceAnswers ==
    ASSUME NEW c \in Calls, req[c].tool \in SourceTools, SourceReturns(c)
    PROVE  \E r, why : Answer(c, r, why) /\ HandlerAnswer(req[c].tool, r, why)
<1>1. req[c].tool \in Tools
  BY DEF Tools
<1>2. CASE \E output \in Outputs : SourceSucceeds(c, output)
  <2>1. PICK output \in Outputs : SourceSucceeds(c, output)
    BY <1>2
  <2>2. CASE output.tooLarge
    <3>1. Answer(c, ToolError(safeToolError(ErrResultTooLarge)),
                 "ErrResultTooLarge")
      BY <2>1, <2>2 DEF SourceSucceeds, CheckResultSize
    <3>2. safeToolError(ErrResultTooLarge) = ErrResultTooLarge
      BY DEF safeToolError, ErrResultTooLarge, Err, SourceSentinels
    <3>3. HandlerAnswer(req[c].tool, ToolError(ErrResultTooLarge),
                        "ErrResultTooLarge")
      BY <1>1 DEF HandlerAnswer, RedactedSourceError
    <3> QED
      BY <3>1, <3>2, <3>3
  <2>3. CASE ~output.tooLarge
    <3>1. Answer(c, Success(output), "ok")
      BY <2>1, <2>3 DEF SourceSucceeds, CheckResultSize
    <3>2. HandlerAnswer(req[c].tool, Success(output), "ok")
      BY <1>1, <2>1 DEF HandlerAnswer
    <3> QED
      BY <3>1, <3>2
  <2> QED
    BY <2>2, <2>3
<1>3. CASE \E e \in SourceErrors(req[c]) \cup
                    {ContextCanceled, Detailed(ContextCanceled)} :
               SourceFails(c, e)
  <2>1. PICK e \in SourceErrors(req[c]) \cup
                   {ContextCanceled, Detailed(ContextCanceled)} :
             SourceFails(c, e)
    BY <1>3
  <2>2. RedactedSourceError(safeToolError(e), e.name)
    BY Redaction
  <2>3. Answer(c, ToolError(safeToolError(e)), e.name)
    BY <2>1 DEF SourceFails
  <2>4. HandlerAnswer(req[c].tool, ToolError(safeToolError(e)), e.name)
    BY <1>1, <2>2 DEF HandlerAnswer
  <2> QED
    BY <2>3, <2>4
<1> QED
  BY <1>2, <1>3 DEF SourceReturns

(* A source returns a result, or an error that the handler reduces. *)
LEMMA SourceAuditInv ==
    ASSUME AuditInv, LogTypes', NEW c \in Calls, SourceReturns(c)
    PROVE  AuditInv'
<1>1. /\ pc[c] = "source" /\ pc' = [pc EXCEPT ![c] = "finish"]
      /\ UNCHANGED req /\ UNCHANGED ctx /\ UNCHANGED event
  BY DEF SourceReturns, SourceSucceeds, SourceFails, Goto
<1>2. req[c].tool \in SourceTools
  BY <1>1 DEF AuditInv, CallInv
<1> QED
  BY <1>1, <1>2, SourceAnswers, AnswerAuditInv

(* The event is completed from the answer and the context of that moment. *)
LEMMA FinishAuditInv ==
    ASSUME AuditInv, LogTypes', NEW c \in Calls, FinishEvent(c)
    PROVE  AuditInv'
<1> DEFINE outcome == auditOutcome(ctx[c], req[c].tool \in Tools, reply[c])
<1>1. /\ pc[c] = "finish" /\ pc'[c] = "lock"
      /\ UNCHANGED <<req, ctx, reply, cause>>
      /\ \A d \in Calls \ {c} : pc'[d] = pc[d] /\ event'[d] = event[d]
      /\ DOMAIN event' = Calls
  BY DEF FinishEvent, Goto, AuditInv, LogTypes
<1>2. event[c] = auditRequest(req[c])
  BY <1>1 DEF AuditInv, CallInv
<1>3. event'[c] = Completed(req[c], outcome, reply[c])
  BY <1>2 DEF FinishEvent, Completed, AuditInv
<1>4. CallInv(c)'
  <2> HIDE DEF outcome
  <2>1. \E err \in {"nil", ctx'[c]} :
            event'[c] = Completed(req'[c],
                            auditOutcome(err, req'[c].tool \in Tools, reply'[c]),
                            reply'[c])
    BY <1>1, <1>3 DEF outcome
  <2> QED
    BY <1>1, <2>1 DEF AuditInv, CallInv, Audited
<1> QED
  BY <1>1, <1>4, CallStep DEF AuditInv

(* Beginning and ending a call, moving on without an answer, cancelling it. *)
LEMMA OtherAuditInv ==
    ASSUME AuditInv, LogTypes', NEW c \in Calls,
           \/ \E in \in Inputs : Receive(c, in)
           \/ HandlerCallsSource(c) \/ Lock(c) \/ Encode(c) \/ EncodeReturns(c)
           \/ Reply(c) \/ Cancel(c)
    PROVE  AuditInv'
<1>1. CASE \E in \in Inputs : Receive(c, in)
  <2>1. PICK in \in Inputs : Receive(c, in)
    BY <1>1
  <2>2. /\ pc[c] = "idle" /\ pc'[c] = "decode" /\ req'[c] = in
        /\ event'[c] = auditRequest(in) /\ UNCHANGED <<ctx, reply, cause>>
        /\ \A d \in Calls \ {c} :
              pc'[d] = pc[d] /\ req'[d] = req[d] /\ event'[d] = event[d]
        /\ DOMAIN req' = Calls /\ DOMAIN event' = Calls
    BY <2>1 DEF Receive, Goto, AuditInv, LogTypes
  <2>3. CallInv(c)'
    BY <2>2 DEF AuditInv, CallInv, Audited
  <2> QED
    BY <2>2, <2>3, CallStep DEF AuditInv
<1>2. CASE HandlerCallsSource(c)
  <2>1. /\ pc[c] = "decode" /\ pc'[c] = "source" /\ req[c].tool \in SourceTools
        /\ UNCHANGED <<req, ctx, event, reply, cause>>
        /\ \A d \in Calls \ {c} : pc'[d] = pc[d]
    BY <1>2 DEF HandlerCallsSource, Goto, AuditInv, LogTypes
  <2>2. CallInv(c)'
    BY <2>1 DEF AuditInv, CallInv, Audited
  <2> QED
    BY <2>1, <2>2, CallStep DEF AuditInv
<1>3. CASE Lock(c) \/ Encode(c) \/ EncodeReturns(c)
  <2>1. /\ Audited(c) /\ Audited(c)' /\ pc'[c] \notin {"idle", "source"}
        /\ UNCHANGED <<req, ctx, event, reply, cause>>
        /\ \A d \in Calls \ {c} : pc'[d] = pc[d]
    BY <1>3 DEF Lock, Encode, EncodeReturns, Goto, Audited, AuditInv, LogTypes
  <2>2. CallInv(c)'
    BY <2>1 DEF AuditInv, CallInv, Audited
  <2> QED
    BY <2>1, <2>2, CallStep DEF AuditInv
<1>4. CASE Reply(c)
  <2>1. /\ pc'[c] = "idle" /\ ctx'[c] = "nil" /\ reply'[c] = NoReply
        /\ req'[c] = NoRequest /\ event'[c] = auditRequest(NoRequest)
        /\ \A d \in Calls \ {c} :
              /\ pc'[d] = pc[d] /\ req'[d] = req[d] /\ ctx'[d] = ctx[d]
              /\ event'[d] = event[d] /\ reply'[d] = reply[d]
              /\ cause'[d] = cause[d]
        /\ DOMAIN req' = Calls /\ DOMAIN ctx' = Calls /\ DOMAIN event' = Calls
        /\ DOMAIN reply' = Calls /\ DOMAIN cause' = Calls
    BY <1>4 DEF Reply, Goto, AuditInv, LogTypes
  <2>2. CallInv(c)'
    BY <2>1 DEF AuditInv, CallInv, Audited
  <2> QED
    BY <2>1, <2>2, CallStep
<1>5. CASE Cancel(c)
  <2>1. /\ ctx[c] = "nil" /\ ctx'[c] = "Canceled"
        /\ UNCHANGED <<pc, req, event, reply, cause>>
        /\ \A d \in Calls \ {c} : ctx'[d] = ctx[d]
        /\ DOMAIN ctx' = Calls
    BY <1>5 DEF Cancel, AuditInv
  <2>2. CallInv(c)'
    BY <2>1 DEF AuditInv, CallInv, Audited
  <2> QED
    BY <2>1, <2>2, CallStep DEF AuditInv
<1> QED
  BY <1>1, <1>2, <1>3, <1>4, <1>5

(* Every step of the specification preserves the invariant of the audit. *)
LEMMA NextAuditInv == LogInv /\ AuditInv /\ [Next]_vars => AuditInv'
<1> SUFFICES ASSUME LogInv, AuditInv, [Next]_vars PROVE AuditInv'
  OBVIOUS
<1>1. LogTypes'
  BY NextLogInv DEF LogInv
<1>2. CASE StderrChanges \/ UNCHANGED vars
  <2>1. UNCHANGED <<pc, req, ctx, event, reply, cause>>
    BY <1>2 DEF StderrChanges, vars
  <2> QED
    BY <1>1, <2>1 DEF AuditInv, CallInv, Audited
<1>3. ASSUME NEW c \in Calls,
             (\E in \in Inputs : Receive(c, in)) \/ ServerStep(c) \/ Lock(c)
             \/ Cancel(c)
      PROVE  AuditInv'
  BY <1>1, <1>3, HandlerAuditInv, SourceAuditInv, FinishAuditInv, OtherAuditInv
     DEF ServerStep
<1> QED
  BY <1>2, <1>3 DEF Next

(* Both invariants hold of every behaviour. *)
THEOREM Invariance == Spec => [](LogInv /\ AuditInv)
<1>1. Init => LogInv /\ AuditInv
  BY InitLogInv, InitAuditInv
<1>2. LogInv /\ AuditInv /\ [Next]_vars => (LogInv /\ AuditInv)'
  BY NextLogInv, NextAuditInv
<1> QED
  BY <1>1, <1>2, PTL DEF Spec

(* CausesClassified holds of every behaviour: the audited outcome of a call *)
(* is the category of what its handler met.                                 *)
THEOREM OutcomesTrue == Spec => []CausesClassified
BY Invariance, AuditInvSuffices, PTL

(* AuditAgreesWithReply holds of every behaviour. *)
THEOREM AuditMatchesReply == Spec => []AuditAgreesWithReply
BY Invariance, AuditInvSuffices, PTL

(* RepliesRedacted holds of every behaviour: whatever a source fails with,  *)
(* its client reads a fixed text.                                           *)
THEOREM OnlyFixedTexts == Spec => []RepliesRedacted
BY Invariance, AuditInvSuffices, PTL

(* Whatever the request, an event names only valid identifiers and known    *)
(* tools, and a call whose input was refused names its target or scope only *)
(* if it was cancelled.                                                     *)
THEOREM OnlyValidatedNames == Spec => []AuditNamesValidated
BY Invariance, AuditInvSuffices, PTL

=============================================================================
