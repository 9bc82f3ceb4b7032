------------------------------ MODULE Exchange ------------------------------
(***************************************************************************)
(* A request from defaultClient.invoke to the method it names and back,    *)
(* over either network ListenAndServe and Send know.  A TCP server has a   *)
(* goroutine per connection that reads frames; a UDP server has one loop   *)
(* that reads datagrams into one buffer, and a goroutine per datagram.     *)
(* Both pass what they read to handle.                                     *)
(*                                                                         *)
(* A request is named by its call.  Every caller has a TCP connection of   *)
(* its own, named like the caller; a call over UDP has a socket of its     *)
(* own, and the network may lose, repeat and reorder datagrams.            *)
(***************************************************************************)
EXTENDS Framer

CONSTANTS
  Caller,    \* goroutines that call Invoke, and as many of the server
  MaxCalls,  \* the number of calls each of them makes, over either network
  Length,    \* lengths of requests and responses
  Foreign    \* another request than the one meant: another call's, or a mix

ASSUME ExchangeAssumption ==
  /\ Conn = Caller
  /\ MaxCalls \in [{"tcp", "udp"} -> Nat]
  /\ Length \subseteq Nat
  /\ None \notin Nat /\ {None, Foreign} \cap (Caller \X Nat) = {}

FrameHeadLen == 15
MaxDatagram == 65507  \* what a UDP socket sends

VARIABLES
  network,    \* s.opts.Network
  pc,         \* of a caller: "sent", or how its last call ended: "ok", "error";
              \* "idle": it has made none
  number,     \* calls it has started
  requests,   \* under way: records of call and length
  reply,      \* the response under way to a caller, or None
  done,       \* the server's context is cancelled
  loop,       \* the UDP loop: "read", "closed"
  received,   \* the datagram in its buffer
  srv,        \* of the server's goroutines: "none", "read", "frame", "handle",
              \* "write", "closed"
  from,       \* the call whose request one got: where its response will go
  response,   \* what handle returned
  disturbed   \* history: callers whose datagram the buffer has lost too early
client == <<pc, number>>
wire == <<requests, reply>>
udp == <<loop, received, disturbed>>
goroutine == <<srv, from, response>>
vars == <<network, framer, client, wire, done, udp, goroutine>>

Call == Caller \X (1..MaxCalls[network])
Current(u) == <<u, number[u]>>
Goto(g, label) == srv' = [srv EXCEPT ![g] = label]
-----------------------------------------------------------------------------
(* How a request ends: Handle, a method's handler, addRspHeader, invoke *)

\* A handler made by getServiceMethods: the payload does not decode, an interceptor
\* returns an error, which may be one with the code 0, or the method has returned
\* and there is a result.  The error it has returned with it is dropped.
HandlerEnd == {"payload", "interceptor", "codeless", "failed", "returned"}
HasResult(how) == how \in {"failed", "returned"}

\* Handle of the service: the request does not parse, its path does not, there is
\* no such method, or the handler ends.  A result does not marshal, marshals to
\* nothing, or to something.
End ==
  {e \in [how : {"request", "path", "method"} \cup HandlerEnd, bytes : {"none", "empty", "value"}] :
     HasResult(e.how) \/ e.bytes = "none"}

\* addRspHeader: OK, or the code of the error, which is the same to the client
\* unless it is 0.
RetCode(end) == IF end.how = "codeless" \/ end.bytes # "none" THEN "OK" ELSE "error"

\* What a response carries: nothing, the result of a method that has returned no
\* error, or that of one that has.
Payload(end) == IF end.bytes = "value" THEN end.how ELSE "none"

\* A response; about is history: the call whose request was executed.
Response ==
  [code : {"OK", "error"}, payload : {"none", "returned", "failed"}, about : Call \cup {Foreign}]
ResponseTo(k, end) == [code |-> RetCode(end), payload |-> Payload(end), about |-> k]

\* How invoke takes a response; no serialization unmarshals an empty payload.
Result(r) == IF r.code = "OK" /\ r.payload # "none" THEN "ok" ELSE "error"

\* Encode puts a header in front.  Over UDP the frame must fit a datagram.
Encode(n) == FrameHeadLen + n
FitsDatagram(n) == Encode(n) <= MaxDatagram
-----------------------------------------------------------------------------
Init ==
  /\ network \in {"tcp", "udp"}
  /\ FramerInit
  /\ pc = [u \in Caller |-> "idle"]
  /\ number = [u \in Caller |-> 0]
  /\ requests = {}
  /\ reply = [u \in Caller |-> None]
  /\ done = FALSE
  /\ loop = IF network = "udp" THEN "read" ELSE "closed"
  /\ received = None
  /\ srv = [g \in Caller |-> "none"]
  /\ from = [g \in Caller |-> None]
  /\ response = [g \in Caller |-> None]
  /\ disturbed = {}
-----------------------------------------------------------------------------
(* The client: invoke, SendTcpReq, SendUdpReq *)

\* The request is encoded and sent.  Over TCP a connection may have to be made,
\* which is left out here once the server accepts no more.
Send(u) ==
  /\ pc[u] # "sent" /\ number[u] < MaxCalls[network]
  /\ number' = [number EXCEPT ![u] = @ + 1]
  /\ \E n \in Length :
       IF network = "udp" /\ ~FitsDatagram(n)
       THEN pc' = [pc EXCEPT ![u] = "error"] /\ UNCHANGED requests
       ELSE /\ pc' = [pc EXCEPT ![u] = "sent"]
            /\ requests' = requests \cup {[call |-> <<u, number'[u]>>, length |-> n]}
  /\ IF network = "tcp" /\ srv[u] \in {"none", "closed"}
     THEN ~done /\ Goto(u, "read") /\ NewFramer(u)
     ELSE UNCHANGED <<srv, framer>>
  /\ UNCHANGED <<network, reply, done, udp, from, response>>

\* A response has come and is decoded.
Receive(u) ==
  /\ pc[u] = "sent" /\ reply[u] # None
  /\ pc' = [pc EXCEPT ![u] = Result(reply[u])]
  /\ reply' = [reply EXCEPT ![u] = None]
  /\ disturbed' = disturbed \ {u}
  /\ UNCHANGED <<network, framer, number, requests, done, loop, received, goroutine>>

\* The connection ends, or the port is unreachable.  A call over UDP that gets no
\* answer otherwise waits for ever.
Fail(u) ==
  /\ pc[u] = "sent" /\ reply[u] = None
  /\ IF network = "tcp" THEN srv[u] = "closed" ELSE loop = "closed"
  /\ pc' = [pc EXCEPT ![u] = "error"]
  /\ disturbed' = disturbed \ {u}
  /\ UNCHANGED <<network, framer, number, wire, done, loop, received, goroutine>>
-----------------------------------------------------------------------------
(* A TCP server: handleConn and read *)

\* Both loops look at their context and then block in a read.  Looking is a part
\* of the step before it.
Reading == IF done THEN "closed" ELSE "read"

\* A frame that is too large ends the connection.
ReadHeader(g) ==
  /\ srv[g] = "read"
  /\ \E m \in requests :
       /\ m.call[1] = g
       /\ from' = [from EXCEPT ![g] = m.call]
       /\ requests' = requests \ {m}
       /\ IF TooLarge(m.length)
          THEN Goto(g, "closed") /\ UNCHANGED framer
          ELSE Goto(g, "frame") /\ Header(g, m.length)
  /\ UNCHANGED <<network, client, reply, done, udp, response>>

Grow(g) ==
  /\ srv[g] = "frame" /\ Resize(g)
  /\ UNCHANGED <<network, client, wire, done, udp, goroutine>>

ReadBody(g) ==
  /\ srv[g] = "frame" /\ Body(g)
  /\ Goto(g, "handle")
  /\ UNCHANGED <<network, client, wire, done, udp, from, response>>
-----------------------------------------------------------------------------
(* A UDP server: ListenAndServeUdp *)

\* A datagram is read into the buffer, of which the network may keep a copy, and
\* a goroutine is started that is told its sender and where it is.
ReadFrom(g) ==
  /\ loop = "read" /\ srv[g] = "none"
  /\ \E m \in requests :
       /\ received' = m.call
       /\ from' = [from EXCEPT ![g] = m.call]
       /\ requests' \in {requests, requests \ {m}}
  /\ disturbed' = disturbed \cup {u \in Caller :
       pc[u] = "sent" /\ \E h \in Caller : srv[h] = "handle" /\ from[h] = Current(u)}
  /\ Goto(g, "handle")
  /\ loop' = Reading
  /\ UNCHANGED <<network, framer, client, reply, done, response>>

\* ReadFrom fails.  The loop ends and closes the socket.
ReadFails ==
  /\ loop = "read"
  /\ loop' = "closed"
  /\ UNCHANGED <<network, framer, client, wire, done, received, disturbed, goroutine>>
-----------------------------------------------------------------------------
(* handle, with Handle of the service *)

\* What a goroutine finds where it was told its request is.  A frame is a copy;
\* a datagram is a part of the buffer, which another one may have got into.
Contents(g) ==
  IF network = "tcp" \/ received = from[g] THEN {from[g]} ELSE {from[g], Foreign}

\* The goroutine of a connection reads on; that of a datagram ends.
Finish(g) ==
  /\ Goto(g, IF network = "tcp" THEN Reading ELSE "none")
  /\ from' = [from EXCEPT ![g] = None]

\* The frame is decoded, the request unmarshalled, the method found and run, and
\* the response made.  If that cannot be marshalled there is none to write.
Handle(g) ==
  /\ srv[g] = "handle"
  /\ \/ /\ \E k \in Contents(g), end \in End :
             response' = [response EXCEPT ![g] = ResponseTo(k, end)]
        /\ Goto(g, "write") /\ UNCHANGED from
     \/ Finish(g) /\ UNCHANGED response
  /\ UNCHANGED <<network, framer, client, wire, done, udp>>

\* The response goes to where the request came from.  Over TCP it is taken to be
\* one the client can read: RpcCall has the others.  A datagram is lost when either
\* socket is closed, when it is too long, on the way, or when the call gets another
\* one first.
LastSender(g) == IF network = "udp" THEN received ELSE from[g]
Sender(g) == from[g]
Sendable == network = "tcp" \/ (loop # "closed" /\ \E n \in Length : FitsDatagram(n))
Lost == network = "udp"
Write(g) ==
  /\ srv[g] = "write"
  /\ \/ /\ Sendable
        /\ \E u \in Caller :
             /\ pc[u] = "sent" /\ Current(u) = Sender(g) /\ reply[u] = None
             /\ reply' = [reply EXCEPT ![u] = response[g]]
     \/ Lost /\ UNCHANGED reply
  /\ Finish(g)
  /\ response' = [response EXCEPT ![g] = None]
  /\ UNCHANGED <<network, framer, client, requests, done, udp>>

\* service.Close.
Cancel ==
  /\ ~done /\ done' = TRUE
  /\ UNCHANGED <<network, framer, client, wire, udp, goroutine>>
-----------------------------------------------------------------------------
Work(g) ==
  ReadHeader(g) \/ Grow(g) \/ ReadBody(g) \/ Handle(g) \/ Write(g)
Loop == ReadFails \/ \E g \in Caller : ReadFrom(g)
Next ==
  \/ \E u \in Caller : Send(u) \/ Receive(u) \/ Fail(u) \/ Work(u)
  \/ Loop \/ Cancel

Spec == Init /\ [][Next]_vars
-----------------------------------------------------------------------------
(* Properties *)

\* The variables keep their types.
TypeOK ==
  /\ network \in {"tcp", "udp"}
  /\ reading \in [Caller -> Length \cup {None}]
  /\ buffer \in [Caller -> Nat] /\ counter \in [Caller -> 0..13]
  /\ pc \in [Caller -> {"idle", "sent", "ok", "error"}]
  /\ number \in [Caller -> 0..MaxCalls[network]]
  /\ requests \subseteq [call : Call, length : Length]
  /\ reply \in [Caller -> Response \cup {None}]
  /\ done \in BOOLEAN
  /\ loop \in {"read", "closed"}
  /\ received \in Call \cup {None}
  /\ srv \in [Caller -> {"none", "read", "frame", "handle", "write", "closed"}]
  /\ from \in [Caller -> Call \cup {None}]
  /\ response \in [Caller -> Response \cup {None}]
  /\ disturbed \subseteq Caller

\* An answer that reaches a call was computed from that call's request, unless
\* the UDP loop read another datagram into the buffer before the request had been
\* unmarshalled: neither a repeated nor a late datagram mixes up answers.
OwnAnswer ==
  \A u \in Caller : reply[u] # None /\ u \notin disturbed => reply[u].about = Current(u)

\* An answer that invoke takes for a success is the result of a method that has
\* returned no error.
ErrorsAreTold ==
  \A u \in Caller :
    reply[u] # None /\ Result(reply[u]) = "ok" => reply[u].payload = "returned"
=============================================================================
