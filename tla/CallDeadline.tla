---------------------------- MODULE CallDeadline ----------------------------
(***************************************************************************)
(* Tool calls of several connections in time.  net/http starts the write   *)
(* timeout of a request when its header has been read; boundedBody then    *)
(* reads the body, as slowly as the client sends it, up to the read        *)
(* timeout; the call that follows is an observation of a fixed number of   *)
(* consecutive gets on one client, each bounded by RequestTimeout.  It     *)
(* composes in time what SourceRequest, KubernetesObserve and              *)
(* HTTPTransport model without it.                                         *)
(*                                                                         *)
(* Time passes in Tick only; what the program does between two waits takes *)
(* none.  A call is given no time beyond a deadline of its own: the timer  *)
(* of its context has fired.                                               *)
(***************************************************************************)
EXTENDS Integers, FiniteSets

CONSTANTS
    Calls,          \* connections, one call at a time on each
    Plans,          \* numbers of gets that the tools make
    Slots,          \* maxConcurrentRequests
    RequestTimeout, \* of the client
    WriteTimeout    \* requestTimeout of httptransport, its ReadTimeout too

ASSUME DeadlineAssumption ==
    /\ IsFiniteSet(Calls)
    /\ Plans \subseteq Nat \ {0}
    /\ {Slots, RequestTimeout, WriteTimeout} \subseteq Nat \ {0}

VARIABLES
    at,      \* "idle", "reading" the body, "waiting" for a slot,
             \* "requesting" or "done"
    plan,    \* gets of the observation
    left,    \* gets that have not returned
    timer,   \* time on the context of the running get
    elapsed, \* time since the header was read
    body,    \* the part of it that reading the body took
    result,  \* what is audited: "success", "source_timeout", ...
    reply    \* "none", "written", or "lost" with the connection

callVars == <<at, plan, left, timer, elapsed, body, result, reply>>

CallsInit ==
    /\ at = [c \in Calls |-> "idle"] /\ plan = [c \in Calls |-> 1]
    /\ left = [c \in Calls |-> 0] /\ timer = [c \in Calls |-> 0]
    /\ elapsed = [c \in Calls |-> 0] /\ body = [c \in Calls |-> 0]
    /\ result = [c \in Calls |-> "none"] /\ reply = [c \in Calls |-> "none"]

Active(c) == at[c] \in {"waiting", "requesting"}
Holders == {c \in Calls : at[c] = "requesting"}

(* The header of a request is read: the deadlines of the connection start. *)
ReadHeader(c) ==
    /\ at[c] = "idle"
    /\ at' = [at EXCEPT ![c] = "reading"]
    /\ UNCHANGED <<plan, left, timer, elapsed, body, result, reply>>

(* The body is not read to its end: the client has gone or the read timeout *)
(* has passed.  The request is refused and the connection ends.             *)
BodyAbandoned(c) ==
    /\ at[c] = "reading"
    /\ at' = [at EXCEPT ![c] = "idle"]
    /\ elapsed' = [elapsed EXCEPT ![c] = 0]
    /\ UNCHANGED <<plan, left, timer, body, result, reply>>

(* The whole body has been read, and the SDK runs a tool of n gets. *)
Begin(c, n) ==
    /\ at[c] = "reading"
    /\ at' = [at EXCEPT ![c] = "waiting"]
    /\ plan' = [plan EXCEPT ![c] = n] /\ left' = [left EXCEPT ![c] = n]
    /\ body' = [body EXCEPT ![c] = elapsed[c]]
    /\ UNCHANGED <<timer, elapsed, result, reply>>

(* Mutant of TakeSlot: the timeout begins when the slot is obtained. *)
TakeSlotStartsTimer(c) ==
    /\ at[c] = "waiting" /\ Cardinality(Holders) < Slots
    /\ at' = [at EXCEPT ![c] = "requesting"]
    /\ timer' = [timer EXCEPT ![c] = 0]
    /\ UNCHANGED <<plan, left, elapsed, body, result, reply>>

TakeSlot(c) ==
    /\ at[c] = "waiting" /\ Cardinality(Holders) < Slots
    /\ at' = [at EXCEPT ![c] = "requesting"]
    /\ UNCHANGED <<plan, left, timer, elapsed, body, result, reply>>

(* The call returns and is audited; its reply is written, unless the write  *)
(* deadline of the connection has passed.                                   *)
Finish(c, outcome) ==
    /\ at' = [at EXCEPT ![c] = "done"]
    /\ result' = [result EXCEPT ![c] = outcome]
    /\ \E r \in {"written", "lost"} :
          /\ r = "written" => elapsed[c] <= WriteTimeout
          /\ r = "lost" => elapsed[c] >= WriteTimeout
          /\ reply' = [reply EXCEPT ![c] = r]
    /\ UNCHANGED <<plan, elapsed, body>>

(* A get succeeds: the next one begins with a timer of its own, after the   *)
(* slot was given back.                                                     *)
NextGet(c) ==
    /\ at[c] = "requesting" /\ left[c] > 1
    /\ at' = [at EXCEPT ![c] = "waiting"]
    /\ left' = [left EXCEPT ![c] = @ - 1] /\ timer' = [timer EXCEPT ![c] = 0]
    /\ UNCHANGED <<plan, elapsed, body, result, reply>>

LastGet(c) ==
    /\ at[c] = "requesting" /\ left[c] = 1
    /\ Finish(c, "success")
    /\ left' = [left EXCEPT ![c] = 0] /\ timer' = [timer EXCEPT ![c] = 0]

(* Mutant of GetTimesOut: one timeout is forgiven and the get is retried. *)
GetTimesOutRetries(c) ==
    /\ Active(c) /\ timer[c] = RequestTimeout
    /\ at' = [at EXCEPT ![c] = "waiting"]
    /\ timer' = [timer EXCEPT ![c] = 0]
    /\ UNCHANGED <<plan, left, elapsed, body, result, reply>>

(* Mutant of GetTimesOut: a get that waits for a slot ignores its context. *)
GetTimesOutWithSlot(c) ==
    /\ at[c] = "requesting" /\ timer[c] = RequestTimeout
    /\ Finish(c, "source_timeout")
    /\ UNCHANGED <<left, timer>>

(* The context of the get expires, with a slot or without: the observation  *)
(* ends with its error.                                                     *)
GetTimesOut(c) ==
    /\ Active(c) /\ timer[c] = RequestTimeout
    /\ Finish(c, "source_timeout")
    /\ UNCHANGED <<left, timer>>

(* The source refuses the request or sends something unusable. *)
GetFails(c) ==
    /\ at[c] = "requesting"
    /\ Finish(c, "source_unavailable")
    /\ UNCHANGED <<left, timer>>

(* ReadTimeout, or a client that goes away, may cancel the request. *)
Canceled(c) ==
    /\ Active(c)
    /\ Finish(c, "canceled")
    /\ UNCHANGED <<left, timer>>

(* The connection takes another request. *)
Forget(c) ==
    /\ at[c] = "done"
    /\ at' = [at EXCEPT ![c] = "idle"]
    /\ plan' = [plan EXCEPT ![c] = 1] /\ left' = [left EXCEPT ![c] = 0]
    /\ timer' = [timer EXCEPT ![c] = 0] /\ elapsed' = [elapsed EXCEPT ![c] = 0]
    /\ body' = [body EXCEPT ![c] = 0]
    /\ result' = [result EXCEPT ![c] = "none"]
    /\ reply' = [reply EXCEPT ![c] = "none"]

Open(c) == at[c] = "reading" \/ Active(c)

Tick ==
    /\ \E c \in Calls : Open(c)
    /\ \A c \in Calls : at[c] = "reading" => elapsed[c] < WriteTimeout
    /\ \A c \in Calls : Active(c) => timer[c] < RequestTimeout
    /\ timer' = [c \in Calls |-> IF Active(c) THEN timer[c] + 1 ELSE timer[c]]
    /\ elapsed' = [c \in Calls |-> IF Open(c) THEN elapsed[c] + 1 ELSE elapsed[c]]
    /\ UNCHANGED <<at, plan, left, body, result, reply>>

CallsNext ==
    \/ Tick
    \/ \E c \in Calls :
        \/ ReadHeader(c) \/ BodyAbandoned(c)
        \/ \E n \in Plans : Begin(c, n)
        \/ TakeSlot(c) \/ NextGet(c) \/ LastGet(c)
        \/ GetTimesOut(c) \/ GetFails(c) \/ Canceled(c) \/ Forget(c)

(* Time passes and timers fire: that of the get and the read deadline.      *)
(* Sources, clients and peers owe nothing.                                  *)
CallsSpec ==
    /\ CallsInit /\ [][CallsNext]_callVars
    /\ WF_callVars(Tick)
    /\ \A c \in Calls :
        /\ WF_callVars(elapsed[c] = WriteTimeout /\ BodyAbandoned(c))
        /\ WF_callVars(GetTimesOut(c))

-----------------------------------------------------------------------------
(* Properties. *)

(* The gets begun so far. *)
Begun(c) == plan[c] - left[c] + (IF result[c] = "success" THEN 0 ELSE 1)

(* From the end of its body a call takes at most one request timeout for    *)
(* each get it has begun, the time spent waiting for a slot behind other    *)
(* calls included.                                                          *)
ObservationBounded ==
    \A c \in Calls : Active(c) \/ at[c] = "done" =>
        elapsed[c] - body[c] <= Begun(c) * RequestTimeout

(* A call that is audited as a success has its reply written, unless its    *)
(* body and its gets together may outlast the connection: a tool that makes *)
(* one request loses its answer only to a client that was slow with the     *)
(* body, however its source and its peers behave.                           *)
SuccessDelivered ==
    \A c \in Calls : result[c] = "success" /\ reply[c] = "lost" =>
        body[c] + plan[c] * RequestTimeout >= WriteTimeout

(* Every request ends, although its client stops sending, its source never  *)
(* answers and its peers hold the slots.                                    *)
CallEnds == \A c \in Calls : Open(c) ~> ~Open(c)

=============================================================================
