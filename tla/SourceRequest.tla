--------------------------- MODULE SourceRequest ---------------------------
(***************************************************************************)
(* The bounded HTTPS request boundary of one source client:                *)
(* sourcehttp.Client.Get (monitoring and Flux) and kubernetes.Client.get.  *)
(* Every observation goes through it, from any number of goroutines that   *)
(* share one client.  A call waits for one of the client's request slots,  *)
(* reads the bearer token, sends the request, checks the response, reads a *)
(* bounded body, and releases its slot when it returns, while its context  *)
(* may be cancelled, or run out of time, between any two of these steps.   *)
(*                                                                         *)
(* Both functions have the same steps; they differ in the check of the     *)
(* response header, so the client says which of the two it stands for.     *)
(***************************************************************************)
EXTENDS Integers, FiniteSets

CONSTANTS
    Callers,                \* goroutines that call Get on the shared client
    MaxConcurrentRequests,  \* capacity of the requestSlots channel
    MaxSourceResponseBytes, \* largest body that is accepted
    MaxRotations,           \* bound: changes of the token file
    Clients                 \* clients: the adapter, is there a credential?

ASSUME ConstantsAssumption ==
    /\ IsFiniteSet(Callers)
    /\ MaxConcurrentRequests \in Nat \ {0}
    /\ MaxSourceResponseBytes \in Nat
    /\ MaxRotations \in Nat
    /\ Clients \subseteq [adapter : {"sourcehttp", "kubernetes"},
                          credential : BOOLEAN]

VARIABLES
    client,        \* the client that the callers share
    pc,            \* where each caller is in Get
    ctxErr,        \* requestContext.Err() of each caller
    requestSlots,  \* number of elements in the requestSlots channel
    tokenFile,     \* content of the projected token file: version and validity
    token,         \* version of the token in the Authorization header
    length,        \* bytes the source has to send as the response body
    body,          \* bytes of it that ReadAll has received
    err,           \* the error Do or ReadAll returned
    result,        \* what Get is about to return
    admittedAt     \* history: version of the token file at slot acquisition

vars == <<client, pc, ctxErr, requestSlots, tokenFile, token, length, body, err,
          result, admittedAt>>

HasCredential == client.credential

ContextErrors == {"Canceled", "DeadlineExceeded"}
NoToken == -1
Lengths == 0 .. MaxSourceResponseBytes + 2   \* bound: two sizes above the limit

(* What a caller can be told: a body or one of the redacted errors. *)
Results == {"body", "Canceled", "ErrSourceTimeout", "ErrSourceUnavailable",
            "ErrSourceRejected", "ErrCredentialUnavailable",
            "ErrInvalidSourceResponse"}

(* Program counters between the acquisition of a slot and its release. *)
Admitted == {"credential", "do", "doErr", "read", "release"}
PCs == {"idle", "wait", "refused"} \cup Admitted

TypeOK ==
    /\ client \in Clients
    /\ pc \in [Callers -> PCs]
    /\ ctxErr \in [Callers -> ContextErrors \cup {"nil"}]
    /\ requestSlots \in 0 .. MaxConcurrentRequests
    /\ tokenFile \in [version : 0 .. MaxRotations, valid : BOOLEAN]
    /\ token \in [Callers -> {NoToken} \cup 0 .. MaxRotations]
    /\ length \in [Callers -> Lengths]
    /\ body \in [Callers -> Lengths]
    /\ err \in [Callers -> ContextErrors \cup {"nil", "transport"}]
    /\ result \in [Callers -> Results \cup {"none"}]
    /\ admittedAt \in [Callers -> 0 .. MaxRotations]

(* New / NewClient: an empty channel of capacity MaxConcurrentRequests. The *)
(* token file was readable when fileCredentialSource checked it at startup. *)
Init ==
    /\ client \in Clients
    /\ pc = [c \in Callers |-> "idle"]
    /\ ctxErr = [c \in Callers |-> "nil"]
    /\ requestSlots = 0
    /\ tokenFile = [version |-> 0, valid |-> TRUE]
    /\ token = [c \in Callers |-> NoToken]
    /\ length = [c \in Callers |-> 0]
    /\ body = [c \in Callers |-> 0]
    /\ err = [c \in Callers |-> "nil"]
    /\ result = [c \in Callers |-> "none"]
    /\ admittedAt = [c \in Callers |-> 0]

-----------------------------------------------------------------------------
(* Helpers of the code. *)

(* Mutant of contextError: every context error is taken for a timeout. *)
contextErrorAlwaysTimeout(e) ==
    IF e = "nil" THEN "ErrSourceUnavailable" ELSE "ErrSourceTimeout"

contextError(e) ==
    CASE e = "Canceled" -> "Canceled"
      [] e = "DeadlineExceeded" -> "ErrSourceTimeout"
      [] OTHER -> "ErrSourceUnavailable"

(* Mutant of BearerToken: the credential is loaded once at startup and      *)
(* kept.                                                                    *)
BearerTokenAtStartup == 0

(* The closure returned by fileCredentialSource reads the file every time;  *)
(* readCredential accepts only a bounded, non-empty token without spaces.   *)
BearerToken == tokenFile.version
CredentialReadable == tokenFile.valid

(* The checks between Do and ReadAll: "body" means that the body is read.   *)
(* success: a 2xx status; json: the media type is application/json.         *)
sourcehttpVerdict(success, json) ==
    IF ~success THEN "ErrSourceRejected"
    ELSE IF ~json THEN "ErrInvalidSourceResponse"
    ELSE "body"

kubernetesVerdict(success, json) ==
    IF ~success THEN "ErrSourceRejected" ELSE "body"

Verdict(success, json) ==
    IF client.adapter = "sourcehttp" THEN sourcehttpVerdict(success, json)
                                     ELSE kubernetesVerdict(success, json)

(* Mutant of LimitedRead: the reader is limited to max instead of max + 1   *)
(* bytes.                                                                   *)
LimitedReadAtMax(n) == n = MaxSourceResponseBytes

(* The size check after ReadAll(LimitReader(body, max + 1)). *)
LimitedRead(n) == n = MaxSourceResponseBytes + 1
BodyVerdict(n) ==
    IF n > MaxSourceResponseBytes THEN "ErrInvalidSourceResponse" ELSE "body"

Goto(c, from, to) == pc[c] = from /\ pc' = [pc EXCEPT ![c] = to]
Decide(c, r) == result' = [result EXCEPT ![c] = r]

-----------------------------------------------------------------------------
(* Steps of one call of Get. *)

(* The deadline is attached first, so the time spent waiting for a slot     *)
(* counts.  The caller's context may have been cancelled between two gets   *)
(* of one observation: then requestContext is done from the start.          *)
Call(c, parent) ==
    /\ Goto(c, "idle", "wait")
    /\ ctxErr' = [ctxErr EXCEPT ![c] = parent]
    /\ UNCHANGED <<client, requestSlots, tokenFile, token, length, body, err,
                   result, admittedAt>>

(* Mutant of AcquireSlot: the channel has one place too many. *)
AcquireSlotOffByOne(c) ==
    /\ Goto(c, "wait", "credential")
    /\ requestSlots <= MaxConcurrentRequests
    /\ requestSlots' = requestSlots + 1
    /\ admittedAt' = [admittedAt EXCEPT ![c] = tokenFile.version]
    /\ UNCHANGED <<client, ctxErr, tokenFile, token, length, body, err,
                   result>>

(* select, case c.requestSlots <- struct{}{}: possible also when the        *)
(* context is done, because select picks any ready case.                    *)
AcquireSlot(c) ==
    /\ Goto(c, "wait", "credential")
    /\ requestSlots < MaxConcurrentRequests
    /\ requestSlots' = requestSlots + 1
    /\ admittedAt' = [admittedAt EXCEPT ![c] = tokenFile.version]
    /\ UNCHANGED <<client, ctxErr, tokenFile, token, length, body, err,
                   result>>

(* Mutant of GiveUp: the wait for a slot does not watch the context. *)
GiveUpNever(c) == FALSE

(* select, case <-requestContext.Done(). *)
GiveUp(c) ==
    /\ Goto(c, "wait", "refused")
    /\ ctxErr[c] # "nil"
    /\ Decide(c, contextError(ctxErr[c]))
    /\ err' = [err EXCEPT ![c] = ctxErr[c]]
    /\ UNCHANGED <<client, ctxErr, requestSlots, tokenFile, token, length,
                   body, admittedAt>>

NoCredential(c) ==
    /\ ~HasCredential
    /\ Goto(c, "credential", "do")
    /\ UNCHANGED <<client, ctxErr, requestSlots, tokenFile, token, length,
                   body, err, result, admittedAt>>

ReadCredential(c) ==
    /\ HasCredential /\ CredentialReadable
    /\ Goto(c, "credential", "do")
    /\ token' = [token EXCEPT ![c] = BearerToken]
    /\ UNCHANGED <<client, ctxErr, requestSlots, tokenFile, length, body,
                   err, result, admittedAt>>

(* Mutant of CredentialFails: the early return for a missing credential     *)
(* forgets the slot.                                                        *)
CredentialFailsLeaking(c) ==
    /\ HasCredential /\ ~CredentialReadable
    /\ Goto(c, "credential", "refused")
    /\ Decide(c, "ErrCredentialUnavailable")
    /\ UNCHANGED <<client, ctxErr, requestSlots, tokenFile, token, length,
                   body, err, admittedAt>>

CredentialFails(c) ==
    /\ HasCredential /\ ~CredentialReadable
    /\ Goto(c, "credential", "release")
    /\ Decide(c, "ErrCredentialUnavailable")
    /\ UNCHANGED <<client, ctxErr, requestSlots, tokenFile, token, length,
                   body, err, admittedAt>>

(* The source answers, however late: Do returns a response whose body has n *)
(* bytes, and the header is checked.                                        *)
DoReturns(c, success, json, n) ==
    LET v == Verdict(success, json) IN
    /\ Goto(c, "do", IF v = "body" THEN "read" ELSE "release")
    /\ length' = [length EXCEPT ![c] = IF v = "body" THEN n ELSE @]
    /\ Decide(c, IF v = "body" THEN "none" ELSE v)
    /\ UNCHANGED <<client, ctxErr, requestSlots, tokenFile, token, body, err,
                   admittedAt>>

(* Do fails, because of the network or because the context is done. *)
DoFails(c, e) ==
    /\ Goto(c, "do", "doErr")
    /\ err' = [err EXCEPT ![c] = e]
    /\ UNCHANGED <<client, ctxErr, requestSlots, tokenFile, token, length,
                   body, result, admittedAt>>

(* The context is looked at after Do failed: it may be done only by now. *)
DoErrorReturn(c) ==
    /\ Goto(c, "doErr", "release")
    /\ Decide(c, contextError(ctxErr[c]))
    /\ UNCHANGED <<client, ctxErr, requestSlots, tokenFile, token, length,
                   body, err, admittedAt>>

ReadByte(c) ==
    /\ pc[c] = "read"
    /\ body[c] < length[c] /\ ~LimitedRead(body[c])
    /\ body' = [body EXCEPT ![c] = @ + 1]
    /\ UNCHANGED <<client, pc, ctxErr, requestSlots, tokenFile, token,
                   length, err, result, admittedAt>>

(* ReadAll fails: every error, a done context too, is ErrSourceUnavailable. *)
ReadFails(c, e) ==
    /\ Goto(c, "read", "release")
    /\ err' = [err EXCEPT ![c] = e]
    /\ Decide(c, "ErrSourceUnavailable")
    /\ UNCHANGED <<client, ctxErr, requestSlots, tokenFile, token, length,
                   body, admittedAt>>

(* End of the body, or of the limited reader. *)
ReadEnds(c) ==
    /\ Goto(c, "read", "release")
    /\ body[c] = length[c] \/ LimitedRead(body[c])
    /\ Decide(c, BodyVerdict(body[c]))
    /\ UNCHANGED <<client, ctxErr, requestSlots, tokenFile, token, length,
                   body, err, admittedAt>>

(* The deferred calls and the return; the caller's locals are gone. *)
Forget(c) ==
    /\ token' = [token EXCEPT ![c] = NoToken]
    /\ length' = [length EXCEPT ![c] = 0]
    /\ body' = [body EXCEPT ![c] = 0]
    /\ err' = [err EXCEPT ![c] = "nil"]
    /\ result' = [result EXCEPT ![c] = "none"]
    /\ ctxErr' = [ctxErr EXCEPT ![c] = "nil"]
    /\ admittedAt' = [admittedAt EXCEPT ![c] = 0]
    /\ UNCHANGED <<client, tokenFile>>

ReturnRefused(c) ==
    /\ Goto(c, "refused", "idle")
    /\ Forget(c)
    /\ UNCHANGED requestSlots

ReturnReleasing(c) ==
    /\ Goto(c, "release", "idle")
    /\ Forget(c)
    /\ requestSlots' = requestSlots - 1

-----------------------------------------------------------------------------
(* The environment of the callers. *)

(* The caller's context is cancelled, or the request timeout expires. *)
ContextDone(c, e) ==
    /\ pc[c] # "idle" /\ ctxErr[c] = "nil"
    /\ ctxErr' = [ctxErr EXCEPT ![c] = e]
    /\ UNCHANGED <<client, pc, requestSlots, tokenFile, token, length, body,
                   err, result, admittedAt>>

(* The kubelet replaces the projected token file, or its content is lost. *)
RotateToken(valid) ==
    /\ tokenFile.version < MaxRotations
    /\ tokenFile' = [version |-> tokenFile.version + 1, valid |-> valid]
    /\ UNCHANGED <<client, pc, ctxErr, requestSlots, token, length, body,
                   err, result, admittedAt>>

-----------------------------------------------------------------------------

(* Steps that the goroutine takes by itself. *)
GoroutineStep(c) ==
    \/ AcquireSlot(c) \/ GiveUp(c)
    \/ NoCredential(c) \/ ReadCredential(c) \/ CredentialFails(c)
    \/ ctxErr[c] # "nil" /\ DoFails(c, ctxErr[c])
    \/ DoErrorReturn(c)
    \/ ctxErr[c] # "nil" /\ ReadFails(c, ctxErr[c])
    \/ ReadEnds(c)
    \/ ReturnRefused(c) \/ ReturnReleasing(c)

(* Steps that need the source or the network; nobody promises them. *)
SourceStep(c) ==
    \/ \E success, json \in BOOLEAN, n \in Lengths : DoReturns(c, success, json, n)
    \/ DoFails(c, "transport")
    \/ ReadByte(c)
    \/ ReadFails(c, "transport")

Next ==
    \/ \E c \in Callers :
        \/ \E parent \in {"nil", "Canceled"} : Call(c, parent)
        \/ GoroutineStep(c)
        \/ SourceStep(c)
        \/ \E e \in ContextErrors : ContextDone(c, e)
    \/ \E valid \in BOOLEAN : RotateToken(valid)

(* The goroutines run, and the timers of context.WithTimeout fire.  Nothing *)
(* is assumed of the source, of callers or of cancellation.                 *)
Fairness ==
    \A c \in Callers :
        /\ WF_vars(GoroutineStep(c))
        /\ WF_vars(ContextDone(c, "DeadlineExceeded"))

Spec == Init /\ [][Next]_vars /\ Fairness

-----------------------------------------------------------------------------
(* Properties. *)

(* A client never has more than maxConcurrentRequests requests open at its  *)
(* source, from the moment Do is called until the body has been read,       *)
(* whatever mixture of failures, timeouts and cancellations came before.    *)
Open == {c \in Callers : pc[c] \in {"do", "doErr", "read"}}
BoundedConcurrency == Cardinality(Open) <= MaxConcurrentRequests

(* The channel holds one element for each call between its select and its   *)
(* return: no early return of Get leaks a slot or releases one twice.       *)
Holders == {c \in Callers : pc[c] \in Admitted}
SlotsMatchHolders == requestSlots = Cardinality(Holders)

(* The token a request carries is at least as new as the file was when the  *)
(* call obtained its slot: a rotation that happened while the call was      *)
(* queued, or before an earlier call, is never missed.                      *)
TokenFresh ==
    \A c \in Open : HasCredential => token[c] >= admittedAt[c]

(* Get returns a body only when it is all that the source sent, and within  *)
(* the limit: the max + 1 limited reader never passes a prefix on as whole. *)
BodyComplete ==
    \A c \in Callers : result[c] = "body" =>
        body[c] = length[c] /\ length[c] <= MaxSourceResponseBytes

(* Cancellation and timeout are reported only to the caller whose context   *)
(* ended that way, also when the context ends after Do failed, and a call   *)
(* that never got a slot is told nothing else.                              *)
OutcomeMatchesContext ==
    \A c \in Callers :
        /\ result[c] = "Canceled" => ctxErr[c] = "Canceled"
        /\ result[c] = "ErrSourceTimeout" => ctxErr[c] = "DeadlineExceeded"
        /\ pc[c] = "refused" => result[c] \in {"Canceled", "ErrSourceTimeout"}

(* Every call of Get returns, even when the source never answers, sends its *)
(* body for ever slowly, or all slots are taken by such requests.           *)
GetReturns == \A c \in Callers : pc[c] # "idle" ~> pc[c] = "idle"

(* The abstraction that users of the client rely on. *)
phase == [c \in Callers |-> IF pc[c] \in Admitted THEN "admitted" ELSE pc[c]]
BG == INSTANCE BoundedGet WITH outcome <- result

(* Get implements BoundedGet: a call is admitted only below the limit, is   *)
(* answered once, and a refused call has a context error.                   *)
ImplementsBoundedGet == BG!SafeSpec

=============================================================================
