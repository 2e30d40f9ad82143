------------------------ MODULE HTTPTransportProofs ------------------------
(***************************************************************************)
(* HTTPTransport: orderly shutdown and the checks in front of the SDK, for *)
(* any number of connections and any body limit.  CallDeadline: the bounds *)
(* in time of the tool calls that connections carry, for any number of     *)
(* calls, slots and requests and any timeouts.                             *)
(***************************************************************************)
EXTENDS HTTPTransport, CallDeadline, TLAPS

(* The types that the proofs need. *)
ServeTypes ==
    /\ serve \in {"select", "shutdown", "await", "failed", "returned"}
    /\ accept \in {"starting", "accepting", "ended"}
    /\ serveResult \in {"empty", "ErrServerClosed", "accept error"}
    /\ exit \in {"running", "0", "1"}
    /\ cut \subseteq Conns
ConnTypes ==
    /\ conn \in [Conns -> {"closed", "new", "idle", "health", "origin", "host",
                           "bounded", "body", "sdk", "respond"}]
    /\ request \in [Conns -> Requests \cup {NoRequest}]
    /\ received \in [Conns -> Nat]
    /\ status \in [Conns -> Int]
    /\ toSDK \in [Conns -> Int]

(* What the program counter of Serve implies for the rest: Shutdown has     *)
(* begun only after a signal, once it has succeeded every connection stays  *)
(* closed, the accept loop reports that the server is closed only during a  *)
(* shutdown, and it reports once.                                           *)
ShutdownInv ==
    /\ serve = "select" => ~inShutdown
    /\ serve \in {"shutdown", "await"} => done /\ inShutdown
    /\ serve = "await" => Quiescent
    /\ serve \in {"select", "shutdown", "await"} => cut = {}
    /\ serve = "returned" <=> exit # "running"
    /\ serveResult = "ErrServerClosed" => inShutdown
    /\ accept # "ended" => serveResult = "empty"

(* What a connection is known to have passed at each point of its handler.  *)
ConnInv(c) ==
    /\ conn[c] \notin {"body", "sdk", "respond"} => received[c] = 0
    /\ conn[c] # "respond" => status[c] = NoStatus
    /\ conn[c] = "health" => request[c].path # "/mcp"
    /\ conn[c] \in {"origin", "host", "bounded", "body", "sdk"} =>
          request[c] \in Requests
    /\ conn[c] \in {"host", "bounded", "body", "sdk"} => ~CrossOrigin(request[c])
    /\ conn[c] \in {"bounded", "body", "sdk"} => request[c].local
    /\ conn[c] = "body" => received[c] <= request[c].length
    /\ conn[c] = "sdk" /\ request[c].method = "POST" =>
          toSDK[c] = request[c].length /\ toSDK[c] <= MaxMCPRequestBytes
    /\ conn[c] = "respond" /\ Foreign(request[c]) =>
          received[c] = 0 /\ status[c] = 403

IInv ==
    /\ ServeTypes /\ ConnTypes
    /\ ShutdownInv
    /\ ExitZeroIsGraceful
    /\ \A c \in Conns : ConnInv(c)

-----------------------------------------------------------------------------
(* Facts the proofs share. *)

(* The length of a body is a number. *)
LEMMA RequestLength == \A r \in Requests : r.length \in Nat
<1> DEFINE Posts == [path : {"/mcp"}, method : {"POST"}, sameOrigin : BOOLEAN,
                     local : BOOLEAN, declared : BOOLEAN, length : Lengths]
           Others == [path : {"/mcp"}, method : Methods \ {"POST"},
                      sameOrigin : BOOLEAN, local : BOOLEAN, declared : {TRUE},
                      length : {0}]
           Probes == [path : {"/livez", "/readyz"}, method : {"GET", "POST"},
                      sameOrigin : {TRUE}, local : {TRUE}, declared : {TRUE},
                      length : {0}]
<1>1. \A r \in Posts : r.length \in Nat
  BY TransportAssumption DEF Lengths
<1>2. \A r \in Others : r.length \in Nat
  OBVIOUS
<1>3. \A r \in Probes : r.length \in Nat
  OBVIOUS
<1> QED
  BY <1>1, <1>2, <1>3 DEF Requests

(* The four handlers that Inner leads to. *)
LEMMA InnerHandlers ==
    Inner["mux"] = "origin" /\ Inner["origin"] = "host"
      /\ Inner["host"] = "bounded" /\ Inner["bounded"] = "sdk"
BY DEF Inner

(* Steps of connections leave shutdown alone as long as they open none. *)
LEMMA ServeUntouched ==
    ASSUME ServeTypes, ShutdownInv, ExitZeroIsGraceful, UNCHANGED serveVars,
           serve = "await" => Quiescent'
    PROVE  ServeTypes' /\ ShutdownInv' /\ ExitZeroIsGraceful'
BY DEF ServeTypes, ShutdownInv, ExitZeroIsGraceful, serveVars

(* Steps of Serve and of the accept loop leave handlers alone. *)
LEMMA ConnsUntouched ==
    ASSUME NEW c, ConnInv(c), conn'[c] = conn[c], request'[c] = request[c],
           received'[c] = received[c], status'[c] = status[c],
           toSDK'[c] = toSDK[c]
    PROVE  ConnInv(c)'
BY DEF ConnInv, CrossOrigin, Foreign

(* A step of one connection that is open, or that the accept loop may open, *)
(* has only its own conjunct to establish.                                  *)
LEMMA ConnStep ==
    ASSUME IInv, NEW c \in Conns, UNCHANGED serveVars, ConnTypes', ConnInv(c)',
           conn[c] # "closed" \/ ~inShutdown,
           \A d \in Conns \ {c} :
               /\ conn'[d] = conn[d] /\ request'[d] = request[d]
               /\ received'[d] = received[d] /\ status'[d] = status[d]
               /\ toSDK'[d] = toSDK[d]
    PROVE  IInv'
<1>1. serve # "await"
  BY DEF IInv, ShutdownInv, Quiescent
<1>2. ServeTypes' /\ ShutdownInv' /\ ExitZeroIsGraceful'
  BY <1>1, ServeUntouched DEF IInv
<1>3. ASSUME NEW d \in Conns \ {c} PROVE ConnInv(d)'
  BY <1>3, ConnsUntouched DEF IInv
<1> QED
  BY <1>2, <1>3 DEF IInv

-----------------------------------------------------------------------------
(* Connections. *)

(* A new connection has no request. *)
LEMMA AcceptIInv ==
    ASSUME IInv, NEW c \in Conns, Accept(c)
    PROVE  IInv'
<1>1. ConnTypes'
  BY DEF IInv, ConnTypes, Accept
<1>2. ConnInv(c)'
  BY DEF IInv, ConnTypes, ConnInv, Accept
<1> QED
  BY <1>1, <1>2, ConnStep DEF IInv, ConnTypes, Accept

(* A request that was read is a probe or in front of the first wrapper,     *)
(* with nothing of its body received.                                       *)
LEMMA ReadRequestIInv ==
    ASSUME IInv, NEW c \in Conns, NEW r \in Requests, ReadRequest(c, r)
    PROVE  IInv'
<1>1. /\ conn[c] \in {"new", "idle"} /\ received[c] = 0 /\ status[c] = NoStatus
      /\ request'[c] = r /\ received' = received /\ status' = status
      /\ conn'[c] = IF r.path = "/mcp" THEN "origin" ELSE "health"
  BY InnerHandlers DEF IInv, ConnTypes, ConnInv, ReadRequest
<1>2. ConnTypes'
  BY InnerHandlers DEF IInv, ConnTypes, ReadRequest
<1>3. ConnInv(c)'
  BY <1>1 DEF ConnInv
<1> QED
  BY <1>1, <1>2, <1>3, ConnStep DEF IInv, ConnTypes, ReadRequest

(* Whatever is answered, and by whichever handler: the first two wrappers   *)
(* answer 403, and what is beyond them is not foreign.                      *)
LEMMA RespondIInv ==
    ASSUME IInv, NEW c \in Conns, InHandler(c), conn[c] # "respond",
           NEW code \in {200, 400, 403, 405, 413}, Respond(c, code),
           conn[c] \in {"origin", "host"} => code = 403
    PROVE  IInv'
<1>1. ConnTypes'
  BY DEF IInv, ConnTypes, Respond
<1>2. conn'[c] = "respond" /\ status'[c] = code /\ request' = request
      /\ received' = received
  BY DEF IInv, ConnTypes, Respond
<1>3. conn[c] \in {"health", "origin", "host", "bounded", "body", "sdk"}
  BY DEF IInv, ConnTypes, InHandler
<1>4. Foreign(request[c]) => conn[c] \in {"origin", "host"}
  BY <1>3 DEF IInv, ConnInv, Foreign, CrossOrigin
<1>5. Foreign(request[c]) => received[c] = 0 /\ code = 403
  BY <1>4 DEF IInv, ConnInv
<1>6. Foreign(request[c])' <=> Foreign(request[c])
  BY <1>2 DEF Foreign
<1>7. ConnInv(c)'
  BY <1>2, <1>5, <1>6 DEF ConnInv
<1> QED
  BY <1>1, <1>7, ConnStep DEF IInv, ConnTypes, Respond, InHandler

(* A wrapper that passes a request on has checked what the next relies on.  *)
LEMMA WrapperPasses ==
    ASSUME IInv, NEW c \in Conns, UNCHANGED toSDK,
           \/ /\ conn[c] = "origin" /\ ~CrossOrigin(request[c])
              /\ PassOn(c, "origin")
           \/ /\ conn[c] = "host" /\ request[c].local /\ PassOn(c, "host")
           \/ /\ conn[c] = "bounded" /\ request[c].method # "POST"
              /\ PassOn(c, "bounded")
    PROVE  IInv'
<1>1. /\ request[c] \in Requests /\ received[c] = 0 /\ status[c] = NoStatus
      /\ conn[c] \in {"origin", "host", "bounded"} /\ ~CrossOrigin(request[c])
  BY DEF IInv, ConnInv
<1>2. /\ request' = request /\ received' = received /\ status' = status
      /\ toSDK' = toSDK
  BY DEF PassOn
<1>3. \/ conn'[c] = "host"
      \/ conn'[c] = "bounded" /\ request[c].local
      \/ conn'[c] = "sdk" /\ request[c].local /\ request[c].method # "POST"
  BY InnerHandlers DEF IInv, ConnTypes, ConnInv, PassOn
<1>4. CrossOrigin(request[c])' <=> CrossOrigin(request[c])
  BY <1>2 DEF CrossOrigin
<1>5. ConnInv(c)'
  BY <1>1, <1>2, <1>3, <1>4 DEF ConnInv
<1>6. ConnTypes'
  BY InnerHandlers DEF IInv, ConnTypes, PassOn
<1> QED
  BY <1>1, <1>5, <1>6, ConnStep DEF IInv, ConnTypes, PassOn

(* A body is begun only for an allowed request. *)
LEMMA StartBodyIInv ==
    ASSUME IInv, NEW c \in Conns, StartBody(c)
    PROVE  IInv'
<1>1. ConnTypes'
  BY DEF IInv, ConnTypes, StartBody
<1>2. /\ conn[c] = "bounded" /\ request[c] \in Requests
      /\ ~CrossOrigin(request[c]) /\ request[c].local /\ status[c] = NoStatus
      /\ received[c] = 0 /\ request[c].length \in Nat
  BY RequestLength DEF IInv, ConnInv, StartBody
<1>3. conn'[c] = "body" /\ request' = request /\ received' = received
      /\ status' = status
  BY DEF IInv, ConnTypes, StartBody
<1>4. ConnInv(c)'
  BY <1>2, <1>3 DEF ConnInv, CrossOrigin
<1> QED
  BY <1>1, <1>2, <1>4, ConnStep DEF IInv, ConnTypes, StartBody

(* One more byte of a body that is neither complete nor above the limit. *)
LEMMA ReceiveBodyIInv ==
    ASSUME IInv, NEW c \in Conns, ReceiveBody(c)
    PROVE  IInv'
<1>1. ConnTypes'
  BY DEF IInv, ConnTypes, ReceiveBody
<1>2. /\ conn[c] = "body" /\ request[c] \in Requests
      /\ ~CrossOrigin(request[c]) /\ request[c].local /\ status[c] = NoStatus
      /\ received[c] < request[c].length /\ received[c] \in Nat
      /\ request[c].length \in Nat
  BY RequestLength DEF IInv, ConnTypes, ConnInv, ReceiveBody
<1>3. conn' = conn /\ request' = request /\ received'[c] = received[c] + 1
      /\ status' = status
  BY DEF IInv, ConnTypes, ReceiveBody
<1>4. ConnInv(c)'
  BY <1>2, <1>3 DEF ConnInv, CrossOrigin
<1> QED
  BY <1>1, <1>2, <1>4, ConnStep DEF IInv, ConnTypes, ReceiveBody

(* The body that is passed on was not cut by the limited reader, because    *)
(* the reader stops only above the limit.                                   *)
LEMMA PassBodyIInv ==
    ASSUME IInv, NEW c \in Conns, PassBody(c)
    PROVE  IInv'
<1>1. ConnTypes'
  BY InnerHandlers DEF IInv, ConnTypes, PassBody, PassOn
<1>2. /\ conn[c] = "body" /\ request[c] \in Requests
      /\ ~CrossOrigin(request[c]) /\ request[c].local /\ status[c] = NoStatus
      /\ received[c] <= MaxMCPRequestBytes /\ received[c] \in Nat
  BY DEF IInv, ConnTypes, ConnInv, PassBody
<1>3. received[c] = request[c].length
  BY <1>2, TransportAssumption DEF PassBody, BodyComplete, LimitReached
<1>4. conn'[c] = "sdk" /\ request' = request /\ toSDK'[c] = received[c]
      /\ status' = status
  BY InnerHandlers DEF IInv, ConnTypes, PassBody, PassOn
<1>5. ConnInv(c)'
  BY <1>2, <1>3, <1>4 DEF ConnInv, CrossOrigin
<1> QED
  BY <1>1, <1>2, <1>5, ConnStep DEF IInv, ConnTypes, PassBody, PassOn

(* A finished request leaves its connection idle. *)
LEMMA FinishRequestIInv ==
    ASSUME IInv, NEW c \in Conns, FinishRequest(c)
    PROVE  IInv'
<1>1. ConnTypes'
  BY DEF IInv, ConnTypes, FinishRequest, None, NoStatus
<1>2. ConnInv(c)'
  BY DEF IInv, ConnTypes, ConnInv, FinishRequest
<1> QED
  BY <1>1, <1>2, ConnStep DEF IInv, ConnTypes, FinishRequest

(* A closed connection owes nothing. *)
LEMMA CloseConnIInv ==
    ASSUME IInv, NEW c \in Conns, CloseConn(c)
    PROVE  IInv'
<1>1. ConnTypes'
  BY DEF IInv, ConnTypes, CloseConn
<1>2. ConnInv(c)'
  BY DEF IInv, ConnTypes, ConnInv, CloseConn
<1> QED
  BY <1>1, <1>2, ConnStep DEF IInv, ConnTypes, CloseConn

(* What a connection does by itself, or by its client. *)
LEMMA ConnectionIInv ==
    ASSUME IInv, NEW c \in Conns, HandlerStep(c) \/ ClientStep(c)
    PROVE  IInv'
<1>1. ASSUME NEW r \in Requests, ReadRequest(c, r) PROVE IInv'
  BY <1>1, ReadRequestIInv
<1>2. CASE \/ healthHandler(c) \/ RejectDeclared(c)
           \/ RejectBody(c) \/ BodyFails(c) \/ SDKReturns(c)
  <2>1. conn[c] \in {"health", "bounded", "body", "sdk"}
    BY <1>2 DEF healthHandler, RejectDeclared, RejectBody, BodyFails, SDKReturns
  <2>2. \E code \in {200, 400, 403, 405, 413} : Respond(c, code)
    BY <1>2 DEF healthHandler, RejectDeclared, RejectBody, BodyFails, SDKReturns
  <2> QED
    BY <2>1, <2>2, RespondIInv DEF InHandler
<1>3. CASE crossOriginProtection(c) \/ loopbackHostOnly(c) \/ PassUnbounded(c)
  <2>1. CASE Respond(c, 403) /\ conn[c] \in {"origin", "host"}
    BY <2>1, RespondIInv DEF InHandler
  <2>2. CASE ~(Respond(c, 403) /\ conn[c] \in {"origin", "host"})
    BY <1>3, <2>2, WrapperPasses DEF crossOriginProtection, loopbackHostOnly,
       PassUnbounded
  <2> QED
    BY <2>1, <2>2
<1>4. CASE \/ StartBody(c) \/ PassBody(c)
           \/ FinishRequest(c) \/ Accept(c) \/ ReceiveBody(c) \/ CloseConn(c)
  BY <1>4, StartBodyIInv, PassBodyIInv, FinishRequestIInv,
     AcceptIInv, ReceiveBodyIInv, CloseConnIInv
<1> QED
  BY <1>1, <1>2, <1>3, <1>4 DEF HandlerStep, ClientStep

-----------------------------------------------------------------------------
(* The accept loop, Serve and the signal. *)

(* Steps that leave the connections alone have the rest to establish. *)
LEMMA ServerStep ==
    ASSUME IInv, UNCHANGED connVars,
           ServeTypes', ShutdownInv', ExitZeroIsGraceful'
    PROVE  IInv'
<1>1. ConnTypes'
  BY DEF IInv, ConnTypes, connVars
<1>2. ASSUME NEW c \in Conns PROVE ConnInv(c)'
  BY ConnsUntouched DEF IInv, connVars
<1> QED
  BY <1>1, <1>2 DEF IInv

(* The accept loop reports that the server is closed only when it is. *)
LEMMA AcceptLoopIInv ==
    ASSUME IInv, StartAccepting \/ AcceptEnds
    PROVE  IInv'
<1> USE DEF IInv, StartAccepting, AcceptEnds, Running
<1>1. ServeTypes'
  BY DEF ServeTypes
<1>2. Quiescent' <=> Quiescent
  BY DEF Quiescent, connVars
<1>3. \/ /\ accept' = "accepting"
         /\ serveResult' = serveResult
      \/ /\ accept' = "ended"
         /\ \/ inShutdown /\ serveResult' = "ErrServerClosed"
            \/ serveResult' = "accept error"
  OBVIOUS
<1>4. accept' # "ended" => serveResult' = "empty"
  BY <1>3 DEF ShutdownInv
<1>5. serveResult' = "ErrServerClosed" => inShutdown'
  BY <1>3 DEF ShutdownInv
<1>6. ShutdownInv'
  <2>1. serve' = serve /\ done' = done /\ inShutdown' = inShutdown
        /\ exit' = exit /\ cut' = cut
    OBVIOUS
  <2>2. ShutdownInv
    OBVIOUS
  <2> QED
    BY ONLY <1>2, <1>4, <1>5, <2>1, <2>2, Zenon DEF ShutdownInv
<1>7. ExitZeroIsGraceful'
  BY DEF ExitZeroIsGraceful
<1> QED
  BY <1>1, <1>6, <1>7, ServerStep

(* Before a shutdown the accept loop can only have failed. *)
LEMMA SelectServeResultIInv ==
    ASSUME IInv, SelectServeResult
    PROVE  IInv'
<1> USE DEF IInv, SelectServeResult
<1>1. serveResult = "accept error" /\ exit = "running"
  BY DEF ShutdownInv, ServeTypes
<1>2. /\ exit' = "running" /\ serve' = "failed" /\ serveResult' = "empty"
      /\ cut' = cut
  BY <1>1 DEF Return
<1>3. ServeTypes'
  BY <1>2 DEF ServeTypes
<1>4. ShutdownInv'
  BY <1>2 DEF ShutdownInv
<1>5. ExitZeroIsGraceful'
  BY <1>2 DEF ExitZeroIsGraceful
<1> QED
  BY <1>3, <1>4, <1>5, ServerStep

(* The select takes the signal and begins the shutdown. *)
LEMMA SelectDoneIInv ==
    ASSUME IInv, SelectDone
    PROVE  IInv'
<1> USE DEF IInv, SelectDone
<1>1. ServeTypes'
  BY DEF ServeTypes
<1>2. ShutdownInv'
  BY DEF ShutdownInv
<1>3. ExitZeroIsGraceful'
  BY DEF ExitZeroIsGraceful
<1> QED
  BY <1>1, <1>2, <1>3, ServerStep

(* Shutdown returns in time once every connection is closed. *)
LEMMA ShutdownSucceedsIInv ==
    ASSUME IInv, ShutdownSucceeds
    PROVE  IInv'
<1> USE DEF IInv, ShutdownSucceeds
<1>1. ServeTypes'
  BY DEF ServeTypes
<1>2. ShutdownInv'
  BY DEF ShutdownInv, Quiescent, connVars
<1>3. ExitZeroIsGraceful'
  BY DEF ExitZeroIsGraceful
<1> QED
  BY <1>1, <1>2, <1>3, ServerStep

(* Out of time, Close closes the connections that no handler has. *)
LEMMA ShutdownFailsIInv ==
    ASSUME IInv, ShutdownFails
    PROVE  IInv'
<1> USE DEF IInv, ShutdownFails
<1>1. ServeTypes'
  BY DEF ServeTypes
<1>2. exit = "running"
  BY DEF ShutdownInv, ServeTypes
<1>3. ShutdownInv'
  BY <1>2 DEF ShutdownInv
<1>4. ExitZeroIsGraceful'
  BY <1>2 DEF ExitZeroIsGraceful
<1>5. ConnTypes'
  BY DEF ConnTypes
<1>6. ASSUME NEW c \in Conns PROVE ConnInv(c)'
  <2>1. CASE InHandler(c)
    <3>1. conn'[c] = conn[c]
      BY <2>1
    <3> QED
      BY <3>1, ConnsUntouched
  <2>2. CASE ~InHandler(c)
    <3>1. conn'[c] = "closed" /\ received[c] = 0 /\ status[c] = NoStatus
      BY <2>2 DEF InHandler, ConnInv
    <3> QED
      BY <3>1 DEF ConnInv
  <2> QED
    BY <2>1, <2>2
<1> QED
  BY <1>1, <1>3, <1>4, <1>5, <1>6

(* After a successful shutdown there is no handler left to cut off, and     *)
(* none was cut off before.                                                 *)
LEMMA AwaitServeResultIInv ==
    ASSUME IInv, AwaitServeResult
    PROVE  IInv'
<1> USE DEF IInv, AwaitServeResult
<1>1. done /\ inShutdown /\ cut = {} /\ exit = "running"
      /\ {c \in Conns : InHandler(c)} = {}
  BY DEF ShutdownInv, ServeTypes, Quiescent, InHandler
<1>2. serveResult' = "empty" /\ cut' = {}
      /\ \/ exit' = "0" /\ serve' = "returned"
         \/ exit' = "running" /\ serve' = "failed"
  BY <1>1 DEF Return, Exit
<1>3. ServeTypes'
  BY <1>1, <1>2 DEF ServeTypes
<1>4. ShutdownInv'
  BY <1>2 DEF ShutdownInv
<1>5. ExitZeroIsGraceful'
  BY <1>1, <1>2 DEF ExitZeroIsGraceful
<1> QED
  BY <1>3, <1>4, <1>5, ServerStep

(* A failure is reported with code 1. *)
LEMMA PrintFailureIInv ==
    ASSUME IInv, PrintFailure
    PROVE  IInv'
<1> USE DEF IInv, PrintFailure, Exit
<1>1. ServeTypes'
  BY DEF ServeTypes
<1>2. ShutdownInv'
  BY DEF ShutdownInv
<1>3. ExitZeroIsGraceful'
  BY DEF ExitZeroIsGraceful
<1> QED
  BY <1>1, <1>2, <1>3, ServerStep

(* A signal, the grace timer and the reader of stderr change nothing but    *)
(* themselves.                                                              *)
LEMMA SignalIInv ==
    ASSUME IInv, Signal \/ GraceExpires \/ StderrChanges
    PROVE  IInv'
<1> USE DEF IInv, Signal, GraceExpires, StderrChanges, Running
<1>1. ServeTypes'
  BY DEF ServeTypes
<1>2. ShutdownInv'
  BY DEF ShutdownInv, Quiescent, connVars
<1>3. ExitZeroIsGraceful'
  BY DEF ExitZeroIsGraceful
<1> QED
  BY <1>1, <1>2, <1>3, ServerStep

(* The server starts without connections, signal or exit code. *)
LEMMA InitIInv == Init => IInv
<1> SUFFICES ASSUME Init PROVE IInv
  OBVIOUS
<1>1. ServeTypes /\ ShutdownInv /\ ExitZeroIsGraceful
  BY DEF Init, ServeTypes, ShutdownInv, ExitZeroIsGraceful
<1>2. ConnTypes
  BY DEF Init, ConnTypes, None, NoStatus
<1>3. \A c \in Conns : ConnInv(c)
  BY DEF Init, ConnInv, Foreign, NoRequest
<1> QED
  BY <1>1, <1>2, <1>3 DEF IInv

(* Every step of the system preserves the inductive invariant. *)
LEMMA NextIInv == IInv /\ [Next]_vars => IInv'
<1> SUFFICES ASSUME IInv, [Next]_vars PROVE IInv'
  OBVIOUS
<1>1. CASE UNCHANGED vars
  <2>1. UNCHANGED connVars /\ UNCHANGED serveVars
    BY <1>1 DEF vars, connVars, serveVars
  <2>2. serve = "await" => Quiescent'
    BY <2>1 DEF IInv, ShutdownInv, Quiescent, connVars
  <2> QED
    BY <2>1, <2>2, ServeUntouched, ServerStep DEF IInv
<1>2. ASSUME NEW c \in Conns, HandlerStep(c) \/ ClientStep(c) PROVE IInv'
  BY <1>2, ConnectionIInv
<1>3. CASE StartAccepting \/ AcceptEnds
  BY <1>3, AcceptLoopIInv
<1>4. CASE ServeStep
  BY <1>4, SelectServeResultIInv, SelectDoneIInv, ShutdownSucceedsIInv,
     ShutdownFailsIInv, AwaitServeResultIInv, PrintFailureIInv DEF ServeStep
<1>5. CASE Signal \/ GraceExpires \/ StderrChanges
  BY <1>5, SignalIInv
<1> QED
  BY <1>1, <1>2, <1>3, <1>4, <1>5 DEF Next, Terminated

-----------------------------------------------------------------------------
(* Theorems. *)

(* The inductive invariant holds of every behaviour, whatever the           *)
(* interleaving of connections, accept loop, signal and grace period.       *)
THEOREM Invariance == Spec => []IInv
BY InitIInv, NextIInv, PTL DEF Spec

(* Exit code 0 of serve-http means that a signal was received and that no   *)
(* handler was cut off.                                                     *)
THEOREM OrderlyExit == Spec => []ExitZeroIsGraceful
<1>1. IInv => ExitZeroIsGraceful
  BY DEF IInv
<1> QED
  BY <1>1, Invariance, PTL

(* boundedBody gives the SDK whole bodies within the limit only. *)
THEOREM WholeBodies == Spec => []SDKBodyWhole
<1>1. IInv => SDKBodyWhole
  BY DEF IInv, ConnInv, SDKBodyWhole
<1> QED
  BY <1>1, Invariance, PTL

(* A foreign request is refused by the first two wrappers, before the third *)
(* reads anything of its body: at each point of the handler it is known     *)
(* which of them the request has passed.                                    *)
THEOREM ForeignBodiesUnread == Spec => []ForeignRefusedUnread
<1>1. IInv => ForeignRefusedUnread
  <2> SUFFICES ASSUME IInv, NEW c \in Conns, Foreign(request[c])
               PROVE  /\ received[c] = 0 /\ status[c] \in {NoStatus, 403}
                      /\ conn[c] # "sdk"
    BY DEF ForeignRefusedUnread
  <2>1. conn[c] \notin {"bounded", "body", "sdk"}
    BY DEF IInv, ConnInv, Foreign, CrossOrigin
  <2> QED
    BY <2>1 DEF IInv, ConnInv
<1> QED
  BY <1>1, Invariance, PTL

(* An error that the accept loop has put in the channel leaves it only when *)
(* Serve returns it, also when Serve has taken the branch of the signal,    *)
(* and the process then ends with code 1 if it ends.                        *)
THEOREM AcceptErrorReported == Spec => AcceptErrorNotLost
<1> DEFINE Returned == serveResult = "accept error" /\ serveResult' # serveResult
                           => serve' = "failed"
           Reported == (serveResult = "accept error" \/ serve = "failed")
                         /\ exit' # exit => exit' = "1"
<1>1. IInv /\ [Next]_vars => [Returned /\ Reported]_vars
  <2> SUFFICES ASSUME IInv, Next,
                      serveResult = "accept error" \/ serve = "failed"
               PROVE  Returned /\ Reported
    OBVIOUS
  <2>1. ASSUME UNCHANGED <<serveResult, exit>> PROVE Returned /\ Reported
    BY <2>1
  <2>2. ASSUME NEW c \in Conns, HandlerStep(c) \/ ClientStep(c)
        PROVE  UNCHANGED <<serveResult, exit>>
    BY <2>2 DEF HandlerStep, ClientStep, healthHandler, crossOriginProtection,
       loopbackHostOnly, RejectDeclared, RejectBody, BodyFails, SDKReturns,
       Respond, PassOn, PassUnbounded, StartBody, PassBody, FinishRequest,
       Accept, ReadRequest, ReceiveBody, CloseConn, serveVars
  <2>3. CASE SelectServeResult \/ AwaitServeResult
    <3>1. serve # "failed" /\ serveResult = "accept error"
      BY <2>3 DEF SelectServeResult, AwaitServeResult
    <3> QED
      BY <2>3, <3>1 DEF SelectServeResult, AwaitServeResult, Return
  <2>4. CASE PrintFailure
    BY <2>4 DEF PrintFailure, Exit
  <2>5. CASE SelectDone \/ ShutdownSucceeds \/ ShutdownFails
    BY <2>1, <2>5 DEF SelectDone, ShutdownSucceeds, ShutdownFails
  <2>6. CASE StartAccepting \/ AcceptEnds
    <3>1. serveResult # "accept error" /\ exit' = exit
      BY <2>6 DEF IInv, ServeTypes, ShutdownInv, StartAccepting, AcceptEnds
    <3> QED
      BY <3>1
  <2>7. CASE Signal \/ GraceExpires \/ StderrChanges \/ Terminated
    BY <2>1, <2>7 DEF Signal, GraceExpires, StderrChanges, Terminated, vars
  <2> QED
    BY <2>1, <2>2, <2>3, <2>4, <2>5, <2>6, <2>7 DEF Next, ServeStep
<1> QED
  BY <1>1, Invariance, PTL DEF Spec, AcceptErrorNotLost

-----------------------------------------------------------------------------
(* Tool calls in time: CallDeadline. *)

CallTypes ==
    /\ at \in [Calls -> {"idle", "reading", "waiting", "requesting", "done"}]
    /\ plan \in [Calls -> Nat]
    /\ left \in [Calls -> Nat]
    /\ timer \in [Calls -> 0 .. RequestTimeout]
    /\ elapsed \in [Calls -> Nat]
    /\ body \in [Calls -> Nat]
    /\ result \in [Calls -> {"none", "success", "source_timeout",
                             "source_unavailable", "canceled"}]
    /\ reply \in [Calls -> {"none", "written", "lost"}]

(* A call that runs has spent, after its body, at most a full timeout on    *)
(* each get that returned, and the time on its timer on the one that has    *)
(* not.                                                                     *)
ActiveInv(c) ==
    Active(c) =>
        /\ left[c] \in 1 .. plan[c]
        /\ result[c] = "none" /\ reply[c] = "none"
        /\ elapsed[c] - body[c] <=
               (plan[c] - left[c]) * RequestTimeout + timer[c]

(* A call that has ended keeps within the bound of its gets, and has lost   *)
(* its reply only to the write deadline.                                    *)
DoneInv(c) ==
    at[c] = "done" =>
        /\ left[c] \in 0 .. plan[c]
        /\ result[c] = "success" => left[c] = 0
        /\ elapsed[c] - body[c] <= Begun(c) * RequestTimeout
        /\ reply[c] = "lost" => elapsed[c] >= WriteTimeout

(* Before the call begins nothing has run but the clock of the connection.  *)
IdleInv(c) ==
    at[c] \in {"idle", "reading"} =>
        /\ timer[c] = 0
        /\ result[c] = "none" /\ reply[c] = "none"

CallInv(c) == IdleInv(c) /\ ActiveInv(c) /\ DoneInv(c)
CallsInv == CallTypes /\ \A c \in Calls : CallInv(c)

-----------------------------------------------------------------------------
(* Facts the proofs share. *)

(* One more get is one more timeout. *)
LEMMA OneMoreTimeout ==
    ASSUME NEW n \in Nat, NEW r \in Nat
    PROVE  n * r \in Nat /\ (n + 1) * r = n * r + r
OBVIOUS

(* A step that leaves the variables of a call alone keeps its invariant. *)
LEMMA CallUntouched ==
    ASSUME NEW d, CallInv(d),
           at'[d] = at[d], plan'[d] = plan[d], left'[d] = left[d],
           timer'[d] = timer[d], elapsed'[d] = elapsed[d],
           body'[d] = body[d],
           result'[d] = result[d], reply'[d] = reply[d]
    PROVE  CallInv(d)'
BY DEF CallInv, IdleInv, ActiveInv, DoneInv, Active, Begun

(* Timeouts are positive. *)
LEMMA Timeouts ==
    RequestTimeout \in Nat \ {0} /\ WriteTimeout \in Nat \ {0}
BY DeadlineAssumption

-----------------------------------------------------------------------------
(* The steps. *)

(* No call has begun in an initial state, so nothing is bounded yet. *)
LEMMA InitCalls == CallsInit => CallsInv
BY Timeouts DEF CallsInit, CallsInv, CallTypes, CallInv, IdleInv, ActiveInv,
   DoneInv, Active

(* While the body is read only the clock of the connection runs. *)
LEMMA BodyCalls ==
    ASSUME CallsInv, NEW c \in Calls, ReadHeader(c) \/ BodyAbandoned(c)
    PROVE  CallsInv'
<1>1. CallTypes'
  BY DEF CallsInv, CallTypes, ReadHeader, BodyAbandoned
<1>2. ASSUME NEW d \in Calls PROVE CallInv(d)'
  <2>1. CASE d = c
    BY <2>1 DEF CallsInv, CallTypes, CallInv, IdleInv, ActiveInv, DoneInv,
       Active, ReadHeader, BodyAbandoned
  <2>2. CASE d # c
    BY <2>2, CallUntouched DEF CallsInv, CallTypes, ReadHeader, BodyAbandoned
  <2> QED
    BY <2>1, <2>2
<1> QED
  BY <1>1, <1>2 DEF CallsInv

(* A call that begins has spent no time but that of its body. *)
LEMMA BeginCalls ==
    ASSUME CallsInv, NEW c \in Calls, NEW n \in Plans, Begin(c, n)
    PROVE  CallsInv'
<1>1. n \in Nat \ {0}
  BY DeadlineAssumption
<1>2. CallTypes'
  BY <1>1 DEF CallsInv, CallTypes, Begin
<1>3. ASSUME NEW d \in Calls PROVE CallInv(d)'
  <2>1. CASE d = c
    <3>1. /\ at'[c] = "waiting" /\ plan'[c] = n /\ left'[c] = n
          /\ body'[c] = elapsed[c] /\ elapsed'[c] = elapsed[c]
          /\ timer'[c] = 0 /\ result'[c] = "none" /\ reply'[c] = "none"
          /\ elapsed[c] \in Nat
      BY DEF CallsInv, CallTypes, CallInv, IdleInv, Begin
    <3>2. (n - n) * RequestTimeout + 0 = 0 /\ elapsed[c] - elapsed[c] = 0
      BY <1>1, <3>1, OneMoreTimeout, Timeouts
    <3> QED
      BY <1>1, <2>1, <3>1, <3>2 DEF CallInv, IdleInv, ActiveInv, DoneInv, Active
  <2>2. CASE d # c
    BY <2>2, CallUntouched DEF CallsInv, CallTypes, Begin
  <2> QED
    BY <2>1, <2>2
<1> QED
  BY <1>2, <1>3 DEF CallsInv

(* Obtaining a slot does not touch the timer. *)
LEMMA TakeSlotCalls ==
    ASSUME CallsInv, NEW c \in Calls, TakeSlot(c)
    PROVE  CallsInv'
<1>1. CallTypes'
  BY DEF CallsInv, CallTypes, TakeSlot
<1>2. ASSUME NEW d \in Calls PROVE CallInv(d)'
  <2>1. CASE d = c
    BY <2>1 DEF CallsInv, CallTypes, CallInv, IdleInv, ActiveInv, DoneInv,
       Active, TakeSlot
  <2>2. CASE d # c
    BY <2>2, CallUntouched DEF CallsInv, CallTypes, TakeSlot
  <2> QED
    BY <2>1, <2>2
<1> QED
  BY <1>1, <1>2 DEF CallsInv

(* The timer of a get that returns is at most a full timeout. *)
LEMMA NextGetCalls ==
    ASSUME CallsInv, NEW c \in Calls, NextGet(c)
    PROVE  CallsInv'
<1>1. CallTypes'
  BY Timeouts DEF CallsInv, CallTypes, NextGet
<1>2. ASSUME NEW d \in Calls PROVE CallInv(d)'
  <2>1. CASE d = c
    <3>1. /\ left[c] \in 1 .. plan[c] /\ left[c] > 1 /\ plan[c] \in Nat
          /\ elapsed[c] - body[c] <=
                 (plan[c] - left[c]) * RequestTimeout + timer[c]
          /\ body[c] \in Nat
          /\ timer[c] \in 0 .. RequestTimeout /\ elapsed[c] \in Nat
      BY DEF CallsInv, CallTypes, CallInv, ActiveInv, Active, NextGet
    <3>2. plan[c] - left[c] \in Nat
      BY <3>1
    <3>3. elapsed[c] - body[c] <= (plan[c] - left[c] + 1) * RequestTimeout
      BY <3>1, <3>2, OneMoreTimeout, Timeouts
    <3>4. plan[c] - (left[c] - 1) = plan[c] - left[c] + 1
      BY <3>1
    <3>5. (plan[c] - (left[c] - 1)) * RequestTimeout + 0 =
              (plan[c] - left[c] + 1) * RequestTimeout
      BY <3>2, <3>4, OneMoreTimeout, Timeouts
    <3> QED
      BY <2>1, <3>1, <3>3, <3>5 DEF CallsInv, CallTypes, CallInv, IdleInv,
         ActiveInv, DoneInv, Active, NextGet
  <2>2. CASE d # c
    BY <2>2, CallUntouched DEF CallsInv, CallTypes, NextGet
  <2> QED
    BY <2>1, <2>2
<1> QED
  BY <1>1, <1>2 DEF CallsInv

(* The last get ends the call within one timeout for each of its gets. *)
LEMMA LastGetCalls ==
    ASSUME CallsInv, NEW c \in Calls, LastGet(c)
    PROVE  CallsInv'
<1>1. CallTypes'
  BY Timeouts DEF CallsInv, CallTypes, LastGet, Finish
<1>2. ASSUME NEW d \in Calls PROVE CallInv(d)'
  <2>1. CASE d = c
    <3>1. /\ left[c] = 1 /\ left[c] \in 1 .. plan[c] /\ plan[c] \in Nat
          /\ elapsed[c] - body[c] <=
                 (plan[c] - left[c]) * RequestTimeout + timer[c]
          /\ body[c] \in Nat
          /\ timer[c] \in 0 .. RequestTimeout /\ elapsed[c] \in Nat
      BY DEF CallsInv, CallTypes, CallInv, ActiveInv, Active, LastGet
    <3>2. plan[c] - 1 \in Nat /\ plan[c] - 1 + 1 = plan[c]
      BY <3>1
    <3>3. elapsed[c] - body[c] <= plan[c] * RequestTimeout
      BY <3>1, <3>2, OneMoreTimeout, Timeouts
    <3>4. /\ at'[c] = "done" /\ left'[c] = 0 /\ result'[c] = "success"
          /\ plan'[c] = plan[c] /\ elapsed'[c] = elapsed[c] /\ body'[c] = body[c]
          /\ reply'[c] = "lost" => elapsed[c] >= WriteTimeout
      BY DEF CallsInv, CallTypes, LastGet, Finish
    <3>5. Begun(c)' = plan[c]
      BY <3>1, <3>4 DEF Begun
    <3> QED
      BY <2>1, <3>1, <3>3, <3>4, <3>5 DEF CallInv, IdleInv, ActiveInv, DoneInv,
         Active
  <2>2. CASE d # c
    BY <2>2, CallUntouched DEF CallsInv, CallTypes, LastGet, Finish
  <2> QED
    BY <2>1, <2>2
<1> QED
  BY <1>1, <1>2 DEF CallsInv

(* An observation that ends early, in whichever way, counts the get it was  *)
(* in as one of those it has begun.                                         *)
LEMMA EarlyEndCalls ==
    ASSUME CallsInv, NEW c \in Calls, Active(c),
           NEW o \in {"source_timeout", "source_unavailable", "canceled"},
           Finish(c, o), UNCHANGED <<left, timer>>
    PROVE  CallsInv'
<1>1. CallTypes'
  BY DEF CallsInv, CallTypes, Finish
<1>2. ASSUME NEW d \in Calls PROVE CallInv(d)'
  <2>1. CASE d = c
    <3>1. /\ left[c] \in 1 .. plan[c] /\ plan[c] \in Nat
          /\ elapsed[c] - body[c] <=
                 (plan[c] - left[c]) * RequestTimeout + timer[c]
          /\ body[c] \in Nat
          /\ timer[c] \in 0 .. RequestTimeout /\ elapsed[c] \in Nat
      BY DEF CallsInv, CallTypes, CallInv, ActiveInv
    <3>2. plan[c] - left[c] \in Nat
      BY <3>1
    <3>3. elapsed[c] - body[c] <= (plan[c] - left[c] + 1) * RequestTimeout
      BY <3>1, <3>2, OneMoreTimeout, Timeouts
    <3>4. /\ at'[c] = "done" /\ left'[c] = left[c] /\ result'[c] = o
          /\ plan'[c] = plan[c] /\ elapsed'[c] = elapsed[c] /\ body'[c] = body[c]
          /\ reply'[c] = "lost" => elapsed[c] >= WriteTimeout
      BY DEF CallsInv, CallTypes, Finish
    <3>5. Begun(c)' = plan[c] - left[c] + 1
      BY <3>4 DEF Begun
    <3> QED
      BY <2>1, <3>1, <3>3, <3>4, <3>5 DEF CallInv, IdleInv, ActiveInv, DoneInv,
         Active
  <2>2. CASE d # c
    BY <2>2, CallUntouched DEF CallsInv, CallTypes, Finish
  <2> QED
    BY <2>1, <2>2
<1> QED
  BY <1>1, <1>2 DEF CallsInv

(* The connection starts afresh. *)
LEMMA ForgetCalls ==
    ASSUME CallsInv, NEW c \in Calls, Forget(c)
    PROVE  CallsInv'
<1>1. CallTypes'
  BY Timeouts DEF CallsInv, CallTypes, Forget
<1>2. ASSUME NEW d \in Calls PROVE CallInv(d)'
  <2>1. CASE d = c
    BY <2>1 DEF CallsInv, CallTypes, CallInv, IdleInv, ActiveInv, DoneInv,
       Active, Forget
  <2>2. CASE d # c
    BY <2>2, CallUntouched DEF CallsInv, CallTypes, Forget
  <2> QED
    BY <2>1, <2>2
<1> QED
  BY <1>1, <1>2 DEF CallsInv

(* Time passes alike for a call and for the timer of its get. *)
LEMMA TickCalls ==
    ASSUME CallsInv, Tick
    PROVE  CallsInv'
<1>1. CallTypes'
  BY Timeouts DEF CallsInv, CallTypes, Tick
<1>2. ASSUME NEW d \in Calls PROVE CallInv(d)'
  <2>1. CASE Active(d)
    <3>1. /\ left[d] \in 1 .. plan[d] /\ plan[d] \in Nat
          /\ elapsed[d] - body[d] <=
                 (plan[d] - left[d]) * RequestTimeout + timer[d]
          /\ body[d] \in Nat
          /\ timer[d] \in Nat /\ elapsed[d] \in Nat
      BY <2>1 DEF CallsInv, CallTypes, CallInv, ActiveInv
    <3>2. (plan[d] - left[d]) * RequestTimeout \in Nat
      BY <3>1, OneMoreTimeout, Timeouts
    <3>3. (elapsed[d] + 1) - body[d] <=
              (plan[d] - left[d]) * RequestTimeout + (timer[d] + 1)
      BY <3>1, <3>2
    <3>4. timer'[d] = timer[d] + 1 /\ elapsed'[d] = elapsed[d] + 1
          /\ body'[d] = body[d]
      BY <2>1 DEF Tick, Open
    <3> QED
      BY <2>1, <3>3, <3>4 DEF CallsInv, CallInv, IdleInv, ActiveInv, DoneInv,
         Active, Tick
  <2>2. CASE at[d] = "reading"
    BY <2>2 DEF CallsInv, CallInv, IdleInv, ActiveInv, DoneInv, Active, Tick
  <2>3. CASE ~Open(d)
    BY <2>3, CallUntouched DEF CallsInv, CallTypes, Tick, Open
  <2> QED
    BY <2>1, <2>2, <2>3 DEF Open
<1> QED
  BY <1>1, <1>2 DEF CallsInv

(* Every step of the system preserves the inductive invariant. *)
LEMMA NextCalls == CallsInv /\ [CallsNext]_callVars => CallsInv'
<1> SUFFICES ASSUME CallsInv, [CallsNext]_callVars PROVE CallsInv'
  OBVIOUS
<1>1. CASE UNCHANGED callVars
  BY <1>1, CallUntouched DEF CallsInv, CallTypes, callVars
<1>2. CASE Tick
  BY <1>2, TickCalls
<1>3. ASSUME NEW c \in Calls, NEW n \in Plans, Begin(c, n) PROVE CallsInv'
  BY <1>3, BeginCalls
<1>4. ASSUME NEW c \in Calls,
             \/ ReadHeader(c) \/ BodyAbandoned(c)
             \/ TakeSlot(c) \/ NextGet(c) \/ LastGet(c) \/ Forget(c)
      PROVE  CallsInv'
  BY <1>4, BodyCalls, TakeSlotCalls, NextGetCalls, LastGetCalls, ForgetCalls
<1>5. ASSUME NEW c \in Calls, GetTimesOut(c) \/ GetFails(c) \/
       Canceled(c)
      PROVE  CallsInv'
  BY <1>5, EarlyEndCalls DEF GetTimesOut, GetFails, Canceled, Active
<1> QED
  BY <1>1, <1>2, <1>3, <1>4, <1>5 DEF CallsNext

-----------------------------------------------------------------------------
(* Theorems. *)

(* The inductive invariant holds of every behaviour: whatever the number of *)
(* calls that contend for the slots of a client and however its source      *)
(* behaves.                                                                 *)
THEOREM CallInvariance == CallsSpec => []CallsInv
BY InitCalls, NextCalls, PTL DEF CallsSpec

(* After its body an observation takes at most one request timeout for each *)
(* get it has begun, the waits for slots included (Get attaches its deadline before it *)
(* waits for a slot).                                                       *)
THEOREM CallTimeBound == CallsSpec => []ObservationBounded
<1>1. CallsInv => ObservationBounded
  <2> SUFFICES ASSUME CallsInv, NEW c \in Calls, Active(c) \/ at[c] = "done"
               PROVE  elapsed[c] - body[c] <= Begun(c) * RequestTimeout
    BY DEF ObservationBounded
  <2>1. CASE Active(c)
    <3>1. /\ left[c] \in 1 .. plan[c] /\ plan[c] \in Nat
          /\ elapsed[c] - body[c] <=
                 (plan[c] - left[c]) * RequestTimeout + timer[c]
          /\ body[c] \in Nat
          /\ timer[c] \in 0 .. RequestTimeout /\ elapsed[c] \in Nat
          /\ result[c] = "none"
      BY <2>1 DEF CallsInv, CallTypes, CallInv, ActiveInv
    <3>2. elapsed[c] - body[c] <= (plan[c] - left[c] + 1) * RequestTimeout
      BY <3>1, OneMoreTimeout, Timeouts
    <3> QED
      BY <3>1, <3>2 DEF Begun
  <2>2. CASE at[c] = "done"
    BY <2>2 DEF CallsInv, CallInv, DoneInv
  <2> QED
    BY <2>1, <2>2
<1> QED
  BY <1>1, CallInvariance, PTL

(* A success loses its reply only when its body and the timeouts of its     *)
(* gets together reach the write timeout of the connection: the reply of a  *)
(* tool with one request is lost only if reading the body took the time     *)
(* that WriteTimeout has beyond a request timeout (at least 5 s with the    *)
(* largest that a configuration may set).                                   *)
THEOREM SuccessIsDelivered == CallsSpec => []SuccessDelivered
<1>1. CallsInv => SuccessDelivered
  <2> SUFFICES ASSUME CallsInv, NEW c \in Calls,
                      result[c] = "success", reply[c] = "lost"
               PROVE  body[c] + plan[c] * RequestTimeout >= WriteTimeout
    BY DEF SuccessDelivered
  <2>1. at[c] = "done"
    BY DEF CallsInv, CallTypes, CallInv, IdleInv, ActiveInv, Active
  <2>2. /\ left[c] = 0 /\ elapsed[c] - body[c] <= Begun(c) * RequestTimeout
        /\ elapsed[c] >= WriteTimeout /\ plan[c] \in Nat /\ elapsed[c] \in Nat
        /\ body[c] \in Nat
    BY <2>1 DEF CallsInv, CallTypes, CallInv, DoneInv
  <2>3. Begun(c) = plan[c]
    BY <2>2 DEF Begun
  <2> QED
    BY <2>2, <2>3, OneMoreTimeout, Timeouts
<1> QED
  BY <1>1, CallInvariance, PTL

=============================================================================
