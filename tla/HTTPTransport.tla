--------------------------- MODULE HTTPTransport ---------------------------
(***************************************************************************)
(* serve-http: httptransport.Serve and the handlers of its fixed surface,  *)
(* from a created listener to the exit code of the process.                *)
(*                                                                         *)
(* Three kinds of goroutines run: Serve itself, which waits for a signal   *)
(* or for the end of the accept loop; the accept loop of net/http; and one *)
(* per connection.  A connection's handler is a health probe, or an MCP    *)
(* request that goes through the wrappers for origin, Host and body, one   *)
(* inside the other, and then runs in the SDK, for as long as the sources  *)
(* of a tool call take.  When Serve fails, the process reports it on       *)
(* stderr before it exits, if somebody reads stderr.                       *)
(***************************************************************************)
EXTENDS Integers, FiniteSets

CONSTANTS
    Conns,              \* connections of clients
    MaxMCPRequestBytes, \* largest accepted request body
    MaxConnections      \* bound: connections accepted in a run

ASSUME TransportAssumption ==
    /\ IsFiniteSet(Conns)
    /\ MaxMCPRequestBytes \in Nat
    /\ MaxConnections \in Nat

VARIABLES
    serve,       \* program counter of Serve
    accept,      \* state of the goroutine that runs httpServer.Serve
    serveResult, \* content of the serveResult channel
    done,        \* has a signal cancelled ctx?
    inShutdown,  \* net/http's flag: Shutdown has begun
    expired,     \* has gracefulShutdownLimit passed since?
    conn,        \* state of each connection
    request,     \* the request a connection handles
    received,    \* bytes of its body that boundedBody has read
    status,      \* the status its handler wrote
    toSDK,       \* length of the body given to the SDK
    accepted,    \* connections accepted so far
    stderr,      \* "open", or "blocked": a pipe that is full and not read
    exit,        \* exit code of the process, or "running"
    cut          \* history: connections whose handler was cut off

vars == <<serve, accept, serveResult, done, inShutdown, expired, conn, request,
          received, status, toSDK, accepted, stderr, exit, cut>>
serveVars ==
    <<serve, accept, serveResult, done, inShutdown, expired, stderr, exit, cut>>
connVars == <<conn, request, received, status, toSDK, accepted>>

(* Requests.  length: the body's real length; declared: is it announced in  *)
(* Content-Length (else the body is chunked)?  local: Host is a loopback    *)
(* name; sameOrigin: not a cross-origin browser request.  HEAD stands for   *)
(* OPTIONS too, DELETE for every other method; bodies of methods other than *)
(* POST are not looked at in front of the SDK.                              *)
Methods == {"GET", "HEAD", "POST", "DELETE"}
Lengths == 0 .. MaxMCPRequestBytes + 2
Requests ==
    [path : {"/mcp"}, method : {"POST"}, sameOrigin : BOOLEAN,
     local : BOOLEAN, declared : BOOLEAN, length : Lengths]
    \cup
    [path : {"/mcp"}, method : Methods \ {"POST"}, sameOrigin : BOOLEAN,
     local : BOOLEAN, declared : {TRUE}, length : {0}]
    \cup
    [path : {"/livez", "/readyz"}, method : {"GET", "POST"},
     sameOrigin : {TRUE}, local : {TRUE}, declared : {TRUE}, length : {0}]
NoRequest == [path |-> "none"]
None == -1
NoStatus == 0

Init ==
    /\ serve = "select" /\ accept = "starting" /\ serveResult = "empty"
    /\ done = FALSE /\ inShutdown = FALSE /\ expired = FALSE
    /\ conn = [c \in Conns |-> "closed"]
    /\ request = [c \in Conns |-> NoRequest]
    /\ received = [c \in Conns |-> 0]
    /\ status = [c \in Conns |-> NoStatus]
    /\ toSDK = [c \in Conns |-> None]
    /\ accepted = 0
    /\ stderr = "open" /\ exit = "running" /\ cut = {}

Running == exit = "running"

-----------------------------------------------------------------------------
(* The accept loop: net/http's Serve, run by the goroutine of Serve. *)

StartAccepting ==
    /\ Running /\ accept = "starting"
    /\ IF inShutdown
       THEN accept' = "ended" /\ serveResult' = "ErrServerClosed"
       ELSE accept' = "accepting" /\ UNCHANGED serveResult
    /\ UNCHANGED <<serve, done, inShutdown, expired, stderr, exit, cut, connVars>>

Accept(c) ==
    /\ Running /\ accept = "accepting" /\ ~inShutdown
    /\ conn[c] = "closed" /\ accepted < MaxConnections
    /\ conn' = [conn EXCEPT ![c] = "new"]
    /\ accepted' = accepted + 1
    /\ UNCHANGED <<request, received, status, toSDK, serveVars>>

(* The listener fails for good; afterwards the same failure only shows that *)
(* Shutdown has closed it.                                                  *)
AcceptEnds ==
    /\ Running /\ accept = "accepting"
    /\ accept' = "ended"
    /\ serveResult' = IF inShutdown THEN "ErrServerClosed" ELSE "accept error"
    /\ UNCHANGED <<serve, done, inShutdown, expired, stderr, exit, cut, connVars>>

-----------------------------------------------------------------------------
(* Connections. *)

InHandler(c) == conn[c] \notin {"closed", "new", "idle"}

(* Mutant of Inner: boundedBody is wrapped around the other two. *)
InnerBodyFirst == [mux |-> "bounded", bounded |-> "origin",
                   origin |-> "host", host |-> "sdk"]

(* What NewHandler puts around what: the handler that each one calls. *)
Inner == [mux |-> "origin", origin |-> "host",
          host |-> "bounded", bounded |-> "sdk"]

ReadRequest(c, r) ==
    /\ Running /\ conn[c] \in {"new", "idle"}
    /\ conn' = [conn EXCEPT ![c] = IF r.path = "/mcp" THEN Inner.mux ELSE "health"]
    /\ request' = [request EXCEPT ![c] = r]
    /\ UNCHANGED <<received, status, toSDK, accepted, serveVars>>

Respond(c, code) ==
    /\ conn' = [conn EXCEPT ![c] = "respond"]
    /\ status' = [status EXCEPT ![c] = code]
    /\ UNCHANGED <<request, received, toSDK, accepted, serveVars>>

(* next.ServeHTTP of a wrapper. *)
PassOn(c, wrapper) ==
    /\ conn' = [conn EXCEPT ![c] = Inner[wrapper]]
    /\ UNCHANGED <<request, received, status, accepted, serveVars>>

(* Mutant of healthHandler: the probe waits until no tool call is running. *)
healthHandlerBehindTools(c) ==
    /\ Running /\ conn[c] = "health"
    /\ \A d \in Conns : conn[d] # "sdk"
    /\ Respond(c, IF request[c].method = "GET" THEN 200 ELSE 405)

healthHandler(c) ==
    /\ Running /\ conn[c] = "health"
    /\ Respond(c, IF request[c].method = "GET" THEN 200 ELSE 405)

(* http.CrossOriginProtection lets safe methods through. *)
CrossOrigin(r) == r.method \notin {"GET", "HEAD"} /\ ~r.sameOrigin

crossOriginProtection(c) ==
    /\ Running /\ conn[c] = "origin"
    /\ \/ CrossOrigin(request[c]) /\ Respond(c, 403)
       \/ ~CrossOrigin(request[c]) /\ PassOn(c, "origin") /\ UNCHANGED toSDK

loopbackHostOnly(c) ==
    /\ Running /\ conn[c] = "host"
    /\ \/ ~request[c].local /\ Respond(c, 403)
       \/ request[c].local /\ PassOn(c, "host") /\ UNCHANGED toSDK

(* boundedBody looks at the bodies of POST requests only. *)
PassUnbounded(c) ==
    /\ Running /\ conn[c] = "bounded" /\ request[c].method # "POST"
    /\ PassOn(c, "bounded") /\ UNCHANGED toSDK

DeclaredTooLarge(r) == r.declared /\ r.length > MaxMCPRequestBytes

RejectDeclared(c) ==
    /\ Running /\ conn[c] = "bounded" /\ request[c].method = "POST"
    /\ DeclaredTooLarge(request[c])
    /\ Respond(c, 413)

StartBody(c) ==
    /\ Running /\ conn[c] = "bounded" /\ request[c].method = "POST"
    /\ ~DeclaredTooLarge(request[c])
    /\ conn' = [conn EXCEPT ![c] = "body"]
    /\ UNCHANGED <<request, received, status, toSDK, accepted, serveVars>>

(* Mutant of LimitReached: the reader is limited to max bytes. *)
LimitReachedAtMax(n) == n = MaxMCPRequestBytes

LimitReached(n) == n = MaxMCPRequestBytes + 1

ReceiveBody(c) ==
    /\ Running /\ conn[c] = "body"
    /\ received[c] < request[c].length /\ ~LimitReached(received[c])
    /\ received' = [received EXCEPT ![c] = @ + 1]
    /\ UNCHANGED <<conn, request, status, toSDK, accepted, serveVars>>

(* The client goes away in the middle, or ReadTimeout expires. *)
BodyFails(c) ==
    /\ Running /\ conn[c] = "body" /\ received[c] < request[c].length
    /\ Respond(c, 400)

BodyComplete(c) == received[c] = request[c].length \/ LimitReached(received[c])

RejectBody(c) ==
    /\ Running /\ conn[c] = "body" /\ BodyComplete(c)
    /\ received[c] > MaxMCPRequestBytes
    /\ Respond(c, 413)

PassBody(c) ==
    /\ Running /\ conn[c] = "body" /\ BodyComplete(c)
    /\ received[c] <= MaxMCPRequestBytes
    /\ PassOn(c, "bounded")
    /\ toSDK' = [toSDK EXCEPT ![c] = received[c]]

(* The SDK's handler, with any tool call in it, comes to an end; 200 stands *)
(* for whatever it answered.                                                *)
SDKReturns(c) ==
    /\ Running /\ conn[c] = "sdk"
    /\ Respond(c, 200)

(* The response is written; during a shutdown the connection is closed      *)
(* (and after Close it was closed before).                                  *)
FinishRequest(c) ==
    /\ Running /\ conn[c] = "respond"
    /\ conn' = [conn EXCEPT ![c] = IF inShutdown THEN "closed" ELSE "idle"]
    /\ request' = [request EXCEPT ![c] = NoRequest]
    /\ received' = [received EXCEPT ![c] = 0]
    /\ status' = [status EXCEPT ![c] = NoStatus]
    /\ toSDK' = [toSDK EXCEPT ![c] = None]
    /\ UNCHANGED <<accepted, serveVars>>

(* A connection without a request ends: the client closes it, a timeout     *)
(* passes, or Shutdown closes it because it is idle.                        *)
CloseConn(c) ==
    /\ Running /\ conn[c] \in {"new", "idle"}
    /\ conn' = [conn EXCEPT ![c] = "closed"]
    /\ UNCHANGED <<request, received, status, toSDK, accepted, serveVars>>

-----------------------------------------------------------------------------
(* Serve, and runHTTP around it: without an error the process ends when     *)
(* Serve returns, with one after the message about it.  The end cuts off    *)
(* every handler that still runs.                                           *)

Exit(code) ==
    /\ serve' = "returned"
    /\ exit' = code
    /\ cut' = cut \cup {c \in Conns : InHandler(c)}

(* Serve returns what it received from the accept loop. *)
Return(result) ==
    IF result = "ErrServerClosed"
    THEN Exit("0")
    ELSE serve' = "failed" /\ UNCHANGED <<exit, cut>>

(* Fprintln(os.Stderr) returns, and runHTTP with 1. *)
PrintFailure ==
    /\ serve = "failed" /\ Running /\ stderr = "open"
    /\ Exit("1")
    /\ UNCHANGED <<accept, serveResult, done, inShutdown, expired, stderr, connVars>>

(* select, case err := <-serveResult *)
SelectServeResult ==
    /\ serve = "select" /\ serveResult # "empty"
    /\ Return(serveResult)
    /\ serveResult' = "empty"
    /\ UNCHANGED <<accept, done, inShutdown, expired, stderr, connVars>>

(* select, case <-ctx.Done(): Shutdown closes the listener. *)
SelectDone ==
    /\ serve = "select" /\ done
    /\ serve' = "shutdown"
    /\ inShutdown' = TRUE
    /\ UNCHANGED <<accept, serveResult, done, expired, stderr, exit, cut, connVars>>

(* Mutant of Quiescent: only connections inside the SDK are waited for. *)
QuiescentBesidesSDK == \A c \in Conns : conn[c] # "sdk"

(* Shutdown returns nil once every connection is closed. *)
Quiescent == \A c \in Conns : conn[c] = "closed"

ShutdownSucceeds ==
    /\ serve = "shutdown" /\ Quiescent
    /\ serve' = "await"
    /\ UNCHANGED <<accept, serveResult, done, inShutdown, expired, stderr, exit,
                   cut, connVars>>

(* Mutant of ShutdownFails: Shutdown is given a context without a limit. *)
ShutdownFailsNever == FALSE

(* Shutdown returns the context's error; Close takes the connections from   *)
(* the handlers that run; "HTTP server shutdown failed".                    *)
ShutdownFails ==
    /\ serve = "shutdown" /\ expired
    /\ conn' = [c \in Conns |-> IF InHandler(c) THEN conn[c] ELSE "closed"]
    /\ cut' = {c \in Conns : InHandler(c)}
    /\ serve' = "failed"
    /\ UNCHANGED <<accept, serveResult, done, inShutdown, expired, stderr, exit,
                   request, received, status, toSDK, accepted>>

(* Mutant of AwaitServeResult: the result is received and dropped. *)
AwaitServeResultDropped ==
    /\ serve = "await" /\ serveResult # "empty"
    /\ Return("ErrServerClosed")
    /\ serveResult' = "empty"
    /\ UNCHANGED <<accept, done, inShutdown, expired, stderr, connVars>>

(* err := <-serveResult after a successful Shutdown. *)
AwaitServeResult ==
    /\ serve = "await" /\ serveResult # "empty"
    /\ Return(serveResult)
    /\ serveResult' = "empty"
    /\ UNCHANGED <<accept, done, inShutdown, expired, stderr, connVars>>

(* SIGINT or SIGTERM cancels ctx. *)
Signal ==
    /\ Running /\ ~done
    /\ done' = TRUE
    /\ UNCHANGED <<serve, accept, serveResult, inShutdown, expired, stderr, exit,
                   cut, connVars>>

(* gracefulShutdownLimit passes. *)
GraceExpires ==
    /\ Running /\ inShutdown /\ ~expired
    /\ expired' = TRUE
    /\ UNCHANGED <<serve, accept, serveResult, done, inShutdown, stderr, exit, cut,
                   connVars>>

(* Whoever reads the process's stderr stops doing so, or goes on; it        *)
(* matters here only once Serve has failed.                                 *)
StderrChanges ==
    /\ Running /\ serve = "failed"
    /\ stderr' = IF stderr = "open" THEN "blocked" ELSE "open"
    /\ UNCHANGED <<serve, accept, serveResult, done, inShutdown, expired, exit, cut,
                   connVars>>

-----------------------------------------------------------------------------
(* Handler steps that depend on nothing but the server. *)
HandlerStep(c) ==
    \/ healthHandler(c)
    \/ crossOriginProtection(c) \/ loopbackHostOnly(c)
    \/ PassUnbounded(c) \/ RejectDeclared(c) \/ StartBody(c)
    \/ RejectBody(c) \/ PassBody(c)
    \/ FinishRequest(c)

(* What clients and sources do in their own time. *)
ClientStep(c) ==
    \/ Accept(c)
    \/ \E r \in Requests : ReadRequest(c, r)
    \/ ReceiveBody(c) \/ BodyFails(c)
    \/ SDKReturns(c)
    \/ CloseConn(c)

ServeStep ==
    \/ SelectServeResult \/ SelectDone
    \/ ShutdownSucceeds \/ ShutdownFails \/ AwaitServeResult
    \/ PrintFailure

(* The process has ended. *)
Terminated == ~Running /\ UNCHANGED vars

Next ==
    \/ \E c \in Conns : HandlerStep(c) \/ ClientStep(c)
    \/ StartAccepting \/ AcceptEnds
    \/ ServeStep
    \/ Signal \/ GraceExpires \/ StderrChanges
    \/ Terminated

(* The goroutines of the server run and its timer fires; once the listener  *)
(* is closed the accept loop ends.  Clients, sources, signals and readers   *)
(* of stderr owe nothing: a tool call may run for ever.                     *)
Fairness ==
    /\ WF_vars(ServeStep)
    /\ WF_vars(StartAccepting)
    /\ WF_vars(inShutdown /\ AcceptEnds)
    /\ WF_vars(GraceExpires)
    /\ \A c \in Conns : WF_vars(HandlerStep(c))

Spec == Init /\ [][Next]_vars /\ Fairness

-----------------------------------------------------------------------------
(* Properties. *)

(* Exit code 0 means an orderly stop: a signal was received and no handler  *)
(* was cut off, whichever of the signal, the grace period, the last answer  *)
(* and the accept loop comes first.                                         *)
ExitZeroIsGraceful == exit = "0" => done /\ cut = {}

(* A failure of the listener that the accept loop has reported is not lost  *)
(* when a signal arrives at the same time: the error stays in the channel   *)
(* until Serve returns it, and from then on the only exit code is 1.        *)
AcceptErrorNotLost ==
    [][/\ serveResult = "accept error" /\ serveResult' # serveResult
            => serve' = "failed"
       /\ (serveResult = "accept error" \/ serve = "failed") /\ exit' # exit
            => exit' = "1"]_vars

(* The SDK is given the whole body of a POST, and never one above the       *)
(* limit, whether its length was declared or not.                           *)
SDKBodyWhole ==
    \A c \in Conns : conn[c] = "sdk" /\ request[c].method = "POST" =>
        toSDK[c] = request[c].length /\ toSDK[c] <= MaxMCPRequestBytes

(* An MCP request under a name that is not loopback, or one of a page of    *)
(* another origin that may change something.                                *)
Foreign(r) ==
    /\ r.path = "/mcp"
    /\ ~r.local \/ (r.method \in {"POST", "DELETE"} /\ ~r.sameOrigin)

(* The wrappers are in the right order: whatever else is wrong with it, a   *)
(* foreign request is answered 403 before one byte of its body is read, so  *)
(* it cannot make the server buffer a body, wait for one, or tell it the    *)
(* limit.                                                                   *)
ForeignRefusedUnread ==
    \A c \in Conns : Foreign(request[c]) =>
        received[c] = 0 /\ status[c] \in {NoStatus, 403} /\ conn[c] # "sdk"

(* A signal ends the process, even when tool calls or clients hang, unless  *)
(* Serve has failed and nobody reads the message about it.                  *)
SignalEndsProcess ==
    done ~> exit # "running" \/ (serve = "failed" /\ stderr = "blocked")

(* A health request is answered, even when every other connection hangs in  *)
(* a tool call or in the audit log, unless Close or the end of the process  *)
(* cuts it off: probes depend on neither sources nor stderr.                *)
ProbesAnswered ==
    \A c \in Conns : conn[c] = "health" ~> status[c] # NoStatus \/ c \in cut

=============================================================================
