---------------------------- MODULE ServerProofs -----------------------------
(***************************************************************************)
(* Proofs about Server, for any processes, servers, services and clients.  *)
(* TypeOK, HandlerReady and AtMostOneMore hold wherever servers run;       *)
(* RightService and ListenersAreListed hold if no two servers share a      *)
(* process and, the first of them, if no service name begins with another. *)
(***************************************************************************)
EXTENDS Server, TLAPS

Apart == \A s, t \in Server : Home[s] = Home[t] => s = t
NoPrefix == \A n \in Service : Extends[n] = {n}

\* Labels of main from which the options are in the transport, and from which
\* the service has a context.
Applied == {"listen", "wait", "signal", "returned"}
Contexts == Applied \cup {"apply"}

\* The goroutine of a connection that has not ended.
Working == {"backlog", "top", "read", "handle", "write"}

-----------------------------------------------------------------------------
(* The inductive invariant, in four parts *)

\* Who is set up: a service with a context has its options, what the transport
\* holds is of a server that has come that far, and a server listens and a
\* connection lives only where that is so.
SetUp ==
  /\ \A s \in Server : main[s] \in Contexts => service[s].opts /\ service[s].ctx # "none"
  /\ \A s \in Server : main[s] \in Applied => transport[Home[s]].handler # None
  /\ \A p \in Process : transport[p].handler # None =>
       main[transport[p].handler] \in Applied /\ Home[transport[p].handler] = p
  /\ \A p \in Process : transport[p].addr = transport[p].handler
  /\ \A s \in Server : main[s] = "put" => consul[Home[s]].addr # None
  /\ \A a \in Server : socket[a] # None => main[socket[a]] \in Applied \ {"listen"}
  /\ \A l \in Link : conn[l] \in Working => socket[l[2]] # None

\* A connection that has executed a request since its server was closed does
\* not come to read another.
Draining ==
  /\ AtMostOneMore
  /\ \A l \in Link : conn[l] = "backlog" => late[l] = 0
  /\ \A l \in Link : late[l] # 0 /\ conn[l] \in Working =>
       conn[l] \in {"top", "write"} /\ Ctx(l[2]) = "done"

Ready == TypeOK /\ SetUp /\ Draining

\* n is what Register has made of the first k services of s's program.
Served(s, k, n) ==
  \/ n = None /\ \A i \in 1..k : Program[s][i] \notin Valid
  \/ \E i \in 1..k :
       /\ n = Program[s][i] /\ n \in Valid
       /\ \A j \in 1..k : j > i => Program[s][j] \notin Valid
Final(s, n) == Served(s, Len(Program[s]), n)

\* Where servers are apart, a server serves what its program ends with, puts
\* that into the registry, and listens at its own address.
Own ==
  /\ \A s \in Server : main[s] # "down" => Served(s, registered[s], service[s].name)
  /\ \A s \in Server : main[s] \notin {"down", "setup"} => registered[s] = Len(Program[s])
  /\ \A s \in Server : main[s] = "put" => consul[Home[s]] = [name |-> service[s].name, addr |-> s]
  /\ \A key \in registry : Final(key[2], key[1])
  /\ \A a \in Server : socket[a] \in {a, None}

\* Where names are no prefixes, a call goes to an address of its service; a
\* connection that handles a request handles the one its client has sent.
Routed ==
  /\ \A c \in Client : call[c] # Idle => Final(call[c].addr, call[c].service)
  /\ \A l \in Link : conn[l] \in {"handle", "write"} => Sent(l)
  /\ \A c \in Client : executor[c] # None =>
       call[c].pc = "sent" /\ executor[c] = call[c].service

\* What has gone through the plugin is in the registry.
InRegistry ==
  /\ \A s \in Server : main[s] = "setup" => todo[s] = Plugins[s]
  /\ \A s \in Server : main[s] \in Contexts => todo[s] = {}
  /\ \A s \in Server :
       main[s] \in Contexts \cup {"plugins", "put"} /\ "consul" \in Plugins[s] \ todo[s] =>
         <<service[s].name, s>> \in registry
-----------------------------------------------------------------------------
(* TypeOK, SetUp and Draining, wherever servers run *)

LEMMA LinkParts ==
  /\ \A l \in Link : l[1] \in Client /\ l[2] \in Server
  /\ \A c \in Client, a \in Server : <<c, a>> \in Link /\ <<c, a>>[1] = c /\ <<c, a>>[2] = a
BY DEF Link

LEMMA LinkEqual == \A k, l \in Link : k[1] = l[1] /\ k[2] = l[2] => k = l
BY DEF Link

\* What handle works with once a connection lives.
LEMMA HandlerKnown ==
  ASSUME TypeOK, SetUp, NEW l \in Link, conn[l] \in Working
  PROVE  /\ socket[l[2]] \in Server
         /\ main[socket[l[2]]] \in Applied \ {"listen"}
         /\ Handler(l[2]) \in Server
         /\ main[Handler(l[2])] \in Applied
BY ServerAssumption, LinkParts DEF TypeOK, SetUp, Applied, Handler

LEMMA InitReady == Init => Ready
BY ServerAssumption DEF Init, Ready, TypeOK, SetUp, Draining, AtMostOneMore, Name, Idle,
     NewService, Applied, Contexts, Working, Link

\* Where a server will listen.
LEMMA ListenAddress ==
  ASSUME TypeOK, SetUp, NEW s \in Server, main[s] = "listen"
  PROVE  /\ transport[Home[s]].addr \in Server
         /\ transport[Home[s]].addr = transport[Home[s]].handler
         /\ Home[transport[Home[s]].addr] = Home[s]
BY ServerAssumption DEF TypeOK, SetUp, Applied

\* What Listen does to the sockets.
LEMMA ListenEffect ==
  ASSUME TypeOK, SetUp, NEW s \in Server, Listen(s)
  PROVE  \/ UNCHANGED listeners /\ main' = [main EXCEPT ![s] = "signal"]
         \/ \E a \in Server :
              /\ a = transport[Home[s]].handler /\ Home[a] = Home[s]
              /\ socket[a] = None
              /\ socket' = [socket EXCEPT ![a] = s]
              /\ acceptor' = [acceptor EXCEPT ![a] = "top"]
              /\ main' = [main EXCEPT ![s] = "wait"]
BY ListenAddress DEF Listen, Goto

\* What Send does to the connection.
LEMMA SendEffect ==
  ASSUME TypeOK, NEW c \in Client, Send(c)
  PROVE  \/ UNCHANGED <<open, conn, late>>
         \/ \E l \in Link :
              /\ l = <<c, call[c].addr>> /\ socket[l[2]] # None /\ conn[l] \in {"none", "closed"}
              /\ open' = [open EXCEPT ![l] = TRUE]
              /\ conn' = [conn EXCEPT ![l] = "backlog"]
              /\ late' = [late EXCEPT ![l] = 0]
<1>1. call[c] \in Request
  BY DEF Send, TypeOK, Idle
<1>2. <<c, call[c].addr>> \in Link
  BY <1>1, LinkParts DEF Request
<1> QED
  BY <1>2 DEF Send

ServiceRecord == [name : Name, opts : BOOLEAN, ctx : {"none", "live", "done"}]

LEMMA RecordTypes ==
  /\ \A r \in ServiceRecord : Prepared(r) \in ServiceRecord /\ Cancelled(r) \in ServiceRecord
  /\ \A r \in Request : [r EXCEPT !.pc = "sent"] \in Request
BY DEF ServiceRecord, Prepared, Cancelled, Request

LEMMA ServiceTypes == ASSUME TypeOK PROVE service \in [Server -> ServiceRecord]
BY DEF TypeOK, ServiceRecord

\* What a client is doing stays a request or nothing when it takes up either.
LEMMA CallMoves ==
  ASSUME call \in [Client -> Request \cup {Idle}], NEW c \in Client, NEW r \in Request,
         call' \in {[call EXCEPT ![c] = r], [call EXCEPT ![c] = Idle]}
  PROVE  call' \in [Client -> Request \cup {Idle}]
<1>1. CASE call' = [call EXCEPT ![c] = r]
  BY <1>1
<1>2. CASE call' = [call EXCEPT ![c] = Idle]
  BY <1>2
<1> QED
  BY <1>1, <1>2

\* Every action keeps the types.
LEMMA TypeStep == ASSUME TypeOK, SetUp, [Next]_vars PROVE TypeOK'
<1> USE ServerAssumption, LinkParts DEF setup, shared, listeners, clients, handlers, Goto, TypeOK, Name
<1>1. ASSUME NEW s \in Server, NewServer(s) PROVE TypeOK'
  BY <1>1 DEF NewServer, NewService
<1>2. ASSUME NEW s \in Server, Register(s) PROVE TypeOK'
  BY <1>2 DEF Register, NewService, HasHandlers
<1>3. ASSUME NEW s \in Server, Serve(s) PROVE TypeOK'
  BY <1>3 DEF Serve
<1>4. ASSUME NEW s \in Server, InitTracing(s) PROVE TypeOK'
  BY <1>4 DEF InitTracing
<1>5. ASSUME NEW s \in Server, InitResolver(s) PROVE TypeOK'
  BY <1>5 DEF InitResolver, Announced
<1>6. ASSUME NEW s \in Server, Put(s) PROVE TypeOK'
  <2>1. consul[Home[s]] \in [name : Name, addr : Server]
    BY <1>6 DEF Put, SetUp
  <2>2. registry' \subseteq Name \X Server
    BY <1>6, <2>1 DEF Put
  <2>3. /\ main' \in [Server -> {"down", "setup", "plugins", "put", "apply", "listen", "wait",
                               "signal", "returned"}]
        /\ todo' \in [Server -> SUBSET {"consul", "jaeger"}]
    BY <1>6 DEF Put
  <2>4. UNCHANGED <<starts, registered, service, shared, listeners, clients, handlers>>
    BY <1>6 DEF Put
  <2> QED
    BY <2>2, <2>3, <2>4
<1>7. ASSUME NEW s \in Server, Prepare(s) PROVE TypeOK'
  <2>1. Prepared(service[s]) \in ServiceRecord
    BY RecordTypes, ServiceTypes
  <2> QED
    BY <1>7, <2>1 DEF Prepare, ServiceRecord
<1>8. ASSUME NEW s \in Server, ApplyOptions(s) PROVE TypeOK'
  BY <1>8 DEF ApplyOptions
<1>9. ASSUME NEW s \in Server, Listen(s) PROVE TypeOK'
  <2>1. CASE UNCHANGED listeners /\ main' = [main EXCEPT ![s] = "signal"]
    BY <1>9, <2>1 DEF Listen
  <2>2. ASSUME NEW a \in Server,
               socket' = [socket EXCEPT ![a] = s],
               acceptor' = [acceptor EXCEPT ![a] = "top"],
               main' = [main EXCEPT ![s] = "wait"]
        PROVE  TypeOK'
    BY <1>9, <2>2 DEF Listen
  <2> QED
    BY <1>9, <2>1, <2>2, ListenEffect
<1>10. ASSUME NEW s \in Server, ServeDone(s) PROVE TypeOK'
  BY <1>10 DEF ServeDone
<1>11. ASSUME NEW s \in Server, Close(s) PROVE TypeOK'
  <2>1. Cancelled(service[s]) \in ServiceRecord
    BY RecordTypes, ServiceTypes
  <2> QED
    BY <1>11, <2>1 DEF Close, ServiceRecord
<1>12. ASSUME NEW s \in Server, Signal(s) PROVE TypeOK'
  <2>1. Cancelled(service[s]) \in ServiceRecord
    BY RecordTypes, ServiceTypes
  <2> QED
    BY <1>12, <2>1 DEF Signal, ServiceRecord
<1>13. ASSUME NEW s \in Server, ServeTop(s) PROVE TypeOK'
  BY <1>13 DEF ServeTop, Ctx
<1>14. ASSUME NEW s \in Server, AcceptErr(s) PROVE TypeOK'
  BY <1>14 DEF AcceptErr
<1>15. ASSUME NEW p \in Process, Exit(p) PROVE TypeOK'
  BY <1>15 DEF Exit, In
<1>16. ASSUME NEW l \in Link, Accept(l) PROVE TypeOK'
  BY <1>16 DEF Accept
<1>17. ASSUME NEW l \in Link, ConnTop(l) PROVE TypeOK'
  BY <1>17 DEF ConnTop, ConnDone, Ctx
<1>18. ASSUME NEW l \in Link, Read(l) PROVE TypeOK'
  <2>1. \E label \in {"handle", "closed"} : conn' = [conn EXCEPT ![l] = label]
    BY <1>18 DEF Read
  <2> QED
    BY <1>18, <2>1 DEF Read
<1>19. ASSUME NEW l \in Link, Handle(l) PROVE TypeOK'
  <2> DEFINE n == service[Handler(l[2])].name
  <2>1. n \in Name
    BY <1>19, HandlerKnown DEF Handle, Working
  <2>2. executor' \in [Client -> Name] /\ late' \in [Link -> Nat]
    BY <1>19, <2>1 DEF Handle
  <2> QED
    BY <1>19, <2>2 DEF Handle
<1>20. ASSUME NEW l \in Link, Write(l) PROVE TypeOK'
  BY <1>20 DEF Write
<1>21. ASSUME NEW l \in Link, Evict(l) PROVE TypeOK'
  BY <1>21 DEF Evict, Sent
<1>22. ASSUME NEW c \in Client, Select(c) PROVE TypeOK'
  <2>1. call' \in [Client -> Request \cup {Idle}]
    <3>1. CASE UNCHANGED call
      BY <3>1
    <3>2. CASE \E n \in Service : \E m \in Methods[n], key \in Listed(n) :
            call' = [call EXCEPT ![c] =
                       [pc |-> "get", service |-> n, method |-> m, addr |-> key[2]]]
      <4>1. PICK n \in Service : \E m \in Methods[n], key \in Listed(n) :
              call' = [call EXCEPT ![c] =
                         [pc |-> "get", service |-> n, method |-> m, addr |-> key[2]]]
        BY <3>2
      <4>2. PICK m \in Methods[n], key \in registry :
              call' = [call EXCEPT ![c] =
                         [pc |-> "get", service |-> n, method |-> m, addr |-> key[2]]]
        BY <4>1 DEF Listed
      <4>3. [pc |-> "get", service |-> n, method |-> m, addr |-> key[2]] \in Request
        BY <4>2 DEF Request
      <4> QED
        BY <4>2, <4>3
    <3> QED
      BY <1>22, <3>1, <3>2 DEF Select
  <2>2. calls' \in [Client -> 0..MaxCalls]
    BY <1>22 DEF Select
  <2>3. UNCHANGED <<setup, shared, registry, listeners, open, handlers>>
    BY <1>22 DEF Select
  <2> QED
    BY <2>1, <2>2, <2>3
<1>23. ASSUME NEW c \in Client, Send(c) PROVE TypeOK'
  <2>1. call[c] \in Request
    BY <1>23 DEF Send, Idle
  <2>2. [call[c] EXCEPT !.pc = "sent"] \in Request
    BY <2>1, RecordTypes
  <2>3. call' \in {[call EXCEPT ![c] = [call[c] EXCEPT !.pc = "sent"]], [call EXCEPT ![c] = Idle]}
    BY <1>23 DEF Send
  <2>4. call' \in [Client -> Request \cup {Idle}]
    BY <2>2, <2>3, CallMoves
  <2>5. CASE UNCHANGED <<open, conn, late>>
    BY <1>23, <2>4, <2>5 DEF Send
  <2>6. ASSUME NEW l \in Link,
               open' = [open EXCEPT ![l] = TRUE],
               conn' = [conn EXCEPT ![l] = "backlog"],
               late' = [late EXCEPT ![l] = 0]
        PROVE  TypeOK'
    BY <1>23, <2>4, <2>6 DEF Send
  <2> QED
    BY <1>23, <2>5, <2>6, SendEffect
<1>24. ASSUME NEW c \in Client, Fail(c) PROVE TypeOK'
  BY <1>24 DEF Fail
<1>25. CASE UNCHANGED vars
  BY <1>25 DEF vars
<1> QED
  BY <1>1, <1>2, <1>3, <1>4, <1>5, <1>6, <1>7, <1>8, <1>9, <1>10, <1>11, <1>12, <1>13, <1>14, <1>15, <1>16, <1>17, <1>18, <1>19, <1>20, <1>21, <1>22, <1>23, <1>24, <1>25 DEF Next

\* Every action keeps SetUp.
LEMMA SetUpStep == ASSUME TypeOK, SetUp, [Next]_vars PROVE SetUp'
<1> USE ServerAssumption, LinkParts DEF setup, shared, listeners, clients, handlers, Goto, TypeOK, Name, SetUp, Applied, Contexts, Working
<1>1. ASSUME NEW s \in Server, NewServer(s) PROVE SetUp'
  BY <1>1 DEF NewServer, NewService
<1>2. ASSUME NEW s \in Server, Register(s) PROVE SetUp'
  BY <1>2 DEF Register, NewService, HasHandlers
<1>3. ASSUME NEW s \in Server, Serve(s) PROVE SetUp'
  BY <1>3 DEF Serve
<1>4. ASSUME NEW s \in Server, InitTracing(s) PROVE SetUp'
  BY <1>4 DEF InitTracing
<1>5. ASSUME NEW s \in Server, InitResolver(s) PROVE SetUp'
  BY <1>5 DEF InitResolver, Announced
<1>6. ASSUME NEW s \in Server, Put(s) PROVE SetUp'
  BY <1>6 DEF Put
<1>7. ASSUME NEW s \in Server, Prepare(s) PROVE SetUp'
  BY <1>7 DEF Prepare, Prepared, PluginsReady
<1>8. ASSUME NEW s \in Server, ApplyOptions(s) PROVE SetUp'
  BY <1>8 DEF ApplyOptions
<1>9. ASSUME NEW s \in Server, Listen(s) PROVE SetUp'
  <2>1. CASE UNCHANGED listeners /\ main' = [main EXCEPT ![s] = "signal"]
    BY <1>9, <2>1 DEF Listen
  <2>2. ASSUME NEW a \in Server, a = transport[Home[s]].handler, Home[a] = Home[s],
               socket[a] = None,
               socket' = [socket EXCEPT ![a] = s],
               main' = [main EXCEPT ![s] = "wait"]
        PROVE  SetUp'
    BY <1>9, <2>2 DEF Listen
  <2> HIDE DEF TypeOK, SetUp, Applied, Contexts, Working
  <2> QED
    BY <1>9, <2>1, <2>2, ListenEffect
<1>10. ASSUME NEW s \in Server, ServeDone(s) PROVE SetUp'
  BY <1>10 DEF ServeDone
<1>11. ASSUME NEW s \in Server, Close(s) PROVE SetUp'
  BY <1>11 DEF Close, Cancelled
<1>12. ASSUME NEW s \in Server, Signal(s) PROVE SetUp'
  BY <1>12 DEF Signal, Cancelled
<1>13. ASSUME NEW s \in Server, ServeTop(s) PROVE SetUp'
  BY <1>13 DEF ServeTop, Ctx
<1>14. ASSUME NEW s \in Server, AcceptErr(s) PROVE SetUp'
  BY <1>14 DEF AcceptErr
<1>15. ASSUME NEW p \in Process, Exit(p) PROVE SetUp'
  <2> USE <1>15 DEF Exit, In
  <2>1. \A s \in Server : main'[s] = (IF Home[s] = p THEN "down" ELSE main[s])
    OBVIOUS
  <2>2. \A q \in Process :
          transport'[q] = IF q = p THEN [addr |-> None, handler |-> None] ELSE transport[q]
    OBVIOUS
  <2>3. \A s \in Server :
          socket'[s] = IF socket[s] \in In(p) THEN None ELSE socket[s]
    OBVIOUS
  <2>4. \A l \in Link : conn'[l] \in Working => conn'[l] = conn[l] /\ socket[l[2]] \notin In(p)
    OBVIOUS
  <2>5. /\ \A s \in Server : main'[s] \in Contexts => service'[s].opts /\ service'[s].ctx # "none"
        /\ \A s \in Server : main'[s] \in Applied => transport'[Home[s]].handler # None
    BY <2>1, <2>2
  <2>6. /\ \A q \in Process : transport'[q].handler # None =>
             main'[transport'[q].handler] \in Applied /\ Home[transport'[q].handler] = q
        /\ \A q \in Process : transport'[q].addr = transport'[q].handler
    BY <2>1, <2>2
  <2>7. \A s \in Server : main'[s] = "put" => consul'[Home[s]].addr # None
    BY <2>1
  <2>8. \A a \in Server : socket'[a] # None => main'[socket'[a]] \in Applied \ {"listen"}
    BY <2>1, <2>3
  <2>9. \A l \in Link : conn'[l] \in Working => socket'[l[2]] # None
    BY <2>3, <2>4
  <2> HIDE DEF Exit, In, Applied, Contexts, Working, TypeOK
  <2> QED
    BY <2>5, <2>6, <2>7, <2>8, <2>9
<1>16. ASSUME NEW l \in Link, Accept(l) PROVE SetUp'
  BY <1>16 DEF Accept
<1>17. ASSUME NEW l \in Link, ConnTop(l) PROVE SetUp'
  BY <1>17 DEF ConnTop, ConnDone, Ctx
<1>18. ASSUME NEW l \in Link, Read(l) PROVE SetUp'
  BY <1>18 DEF Read, Sent
<1>19. ASSUME NEW l \in Link, Handle(l) PROVE SetUp'
  <2>1. UNCHANGED <<setup, shared, listeners>>
    BY <1>19 DEF Handle
  <2>2. conn[l] = "handle" /\ conn' = [conn EXCEPT ![l] = "write"]
    BY <1>19 DEF Handle
  <2> QED
    BY <2>1, <2>2
<1>20. ASSUME NEW l \in Link, Write(l) PROVE SetUp'
  BY <1>20 DEF Write
<1>21. ASSUME NEW l \in Link, Evict(l) PROVE SetUp'
  BY <1>21 DEF Evict, Sent
<1>22. ASSUME NEW c \in Client, Select(c) PROVE SetUp'
  BY <1>22 DEF Select, Listed
<1>23. ASSUME NEW c \in Client, Send(c) PROVE SetUp'
  <2>1. CASE UNCHANGED <<open, conn, late>>
    BY <1>23, <2>1 DEF Send
  <2>2. ASSUME NEW l \in Link, socket[l[2]] # None,
               conn' = [conn EXCEPT ![l] = "backlog"],
               late' = [late EXCEPT ![l] = 0]
        PROVE  SetUp'
    BY <1>23, <2>2 DEF Send
  <2> QED
    BY <1>23, <2>1, <2>2, SendEffect
<1>24. ASSUME NEW c \in Client, Fail(c) PROVE SetUp'
  BY <1>24 DEF Fail
<1>25. CASE UNCHANGED vars
  BY <1>25 DEF vars
<1> QED
  BY <1>1, <1>2, <1>3, <1>4, <1>5, <1>6, <1>7, <1>8, <1>9, <1>10, <1>11, <1>12, <1>13, <1>14, <1>15, <1>16, <1>17, <1>18, <1>19, <1>20, <1>21, <1>22, <1>23, <1>24, <1>25 DEF Next

\* Every action keeps Draining.
LEMMA DrainingStep == ASSUME TypeOK, SetUp, Draining, [Next]_vars PROVE Draining'
<1> USE ServerAssumption, LinkParts DEF setup, shared, listeners, clients, handlers, Goto, TypeOK, Name, Applied, Contexts, Working, Draining, AtMostOneMore
<1>1. ASSUME NEW s \in Server, NewServer(s) PROVE Draining'
  <2>1. ASSUME NEW l \in Link, conn[l] \in Working
        PROVE  Ctx(l[2])' = Ctx(l[2])
    <3>1. socket[l[2]] \in Server \ {s}
      BY <1>1, <2>1, HandlerKnown DEF NewServer
    <3> QED
      BY <1>1, <3>1 DEF NewServer, NewService, Ctx
  <2> QED
    BY <1>1, <2>1 DEF NewServer
<1>2. ASSUME NEW s \in Server, Register(s) PROVE Draining'
  <2>1. ASSUME NEW l \in Link, conn[l] \in Working
        PROVE  Ctx(l[2])' = Ctx(l[2])
    <3>1. socket[l[2]] \in Server \ {s}
      BY <1>2, <2>1, HandlerKnown DEF Register
    <3> QED
      BY <1>2, <3>1 DEF Register, NewService, HasHandlers, Ctx
  <2> QED
    BY <1>2, <2>1 DEF Register
<1>3. ASSUME NEW s \in Server, Serve(s) PROVE Draining'
  BY <1>3 DEF Serve, Ctx
<1>4. ASSUME NEW s \in Server, InitTracing(s) PROVE Draining'
  BY <1>4 DEF InitTracing, Ctx
<1>5. ASSUME NEW s \in Server, InitResolver(s) PROVE Draining'
  BY <1>5 DEF InitResolver, Announced, Ctx
<1>6. ASSUME NEW s \in Server, Put(s) PROVE Draining'
  BY <1>6 DEF Put, Ctx
<1>7. ASSUME NEW s \in Server, Prepare(s) PROVE Draining'
  <2>1. ASSUME NEW l \in Link, conn[l] \in Working
        PROVE  Ctx(l[2])' = Ctx(l[2])
    <3>1. socket[l[2]] \in Server \ {s}
      BY <1>7, <2>1, HandlerKnown DEF Prepare
    <3> QED
      BY <1>7, <3>1 DEF Prepare, Prepared, PluginsReady, Ctx
  <2> QED
    BY <1>7, <2>1 DEF Prepare
<1>8. ASSUME NEW s \in Server, ApplyOptions(s) PROVE Draining'
  BY <1>8 DEF ApplyOptions, Ctx
<1>9. ASSUME NEW s \in Server, Listen(s) PROVE Draining'
  <2>1. \A l \in Link : conn[l] \in Working => Ctx(l[2])' = Ctx(l[2])
    <3>1. CASE UNCHANGED listeners
      BY <1>9, <3>1 DEF Listen, Ctx
    <3>2. ASSUME NEW a \in Server, socket[a] = None, socket' = [socket EXCEPT ![a] = s],
                 NEW l \in Link, conn[l] \in Working
          PROVE  Ctx(l[2])' = Ctx(l[2])
      <4>1. socket[l[2]] \in Server /\ l[2] # a
        BY <3>2, HandlerKnown
      <4> QED
        BY <1>9, <3>2, <4>1 DEF Listen, Ctx
    <3> QED
      BY <1>9, <3>1, <3>2, ListenEffect
  <2> QED
    BY <1>9, <2>1 DEF Listen
<1>10. ASSUME NEW s \in Server, ServeDone(s) PROVE Draining'
  BY <1>10 DEF ServeDone, Ctx
<1>11. ASSUME NEW s \in Server, Close(s) PROVE Draining'
  BY <1>11 DEF Close, Cancelled, Ctx
<1>12. ASSUME NEW s \in Server, Signal(s) PROVE Draining'
  BY <1>12 DEF Signal, Cancelled, Ctx
<1>13. ASSUME NEW s \in Server, ServeTop(s) PROVE Draining'
  BY <1>13 DEF ServeTop, Ctx
<1>14. ASSUME NEW s \in Server, AcceptErr(s) PROVE Draining'
  BY <1>14 DEF AcceptErr, Ctx
<1>15. ASSUME NEW p \in Process, Exit(p) PROVE Draining'
  BY <1>15 DEF Exit, In, Ctx
<1>16. ASSUME NEW l \in Link, Accept(l) PROVE Draining'
  BY <1>16 DEF Accept, Ctx
<1>17. ASSUME NEW l \in Link, ConnTop(l) PROVE Draining'
  BY <1>17 DEF ConnTop, ConnDone, Ctx
<1>18. ASSUME NEW l \in Link, Read(l) PROVE Draining'
  <2>1. \E label \in {"handle", "closed"} : conn' = [conn EXCEPT ![l] = label]
    BY <1>18 DEF Read, Ctx
  <2>2. conn[l] = "read" /\ late[l] = 0
    BY <1>18 DEF Read, Ctx
  <2> QED
    BY <1>18, <2>1, <2>2 DEF Read, Ctx
<1>19. ASSUME NEW l \in Link, Handle(l) PROVE Draining'
  <2>1. conn[l] = "handle" /\ late[l] = 0
    BY <1>19 DEF Handle, Ctx
  <2>2. /\ late' = [late EXCEPT ![l] = IF Ctx(l[2]) = "done" THEN 1 ELSE 0]
        /\ conn' = [conn EXCEPT ![l] = "write"]
        /\ \A k \in Link : Ctx(k[2])' = Ctx(k[2])
    BY <1>19, <2>1 DEF Handle, Ctx
  <2> QED
    BY <2>1, <2>2
<1>20. ASSUME NEW l \in Link, Write(l) PROVE Draining'
  BY <1>20 DEF Write, Ctx
<1>21. ASSUME NEW l \in Link, Evict(l) PROVE Draining'
  BY <1>21 DEF Evict, Sent, Ctx
<1>22. ASSUME NEW c \in Client, Select(c) PROVE Draining'
  BY <1>22 DEF Select, Listed, Ctx
<1>23. ASSUME NEW c \in Client, Send(c) PROVE Draining'
  <2>1. CASE UNCHANGED <<open, conn, late>>
    BY <1>23, <2>1 DEF Send, Ctx
  <2>2. ASSUME NEW l \in Link, socket[l[2]] # None,
               conn' = [conn EXCEPT ![l] = "backlog"],
               late' = [late EXCEPT ![l] = 0]
        PROVE  Draining'
    BY <1>23, <2>2 DEF Send, Ctx
  <2> QED
    BY <1>23, <2>1, <2>2, SendEffect
<1>24. ASSUME NEW c \in Client, Fail(c) PROVE Draining'
  BY <1>24 DEF Fail, Ctx
<1>25. CASE UNCHANGED vars
  BY <1>25 DEF vars, Ctx
<1> QED
  BY <1>1, <1>2, <1>3, <1>4, <1>5, <1>6, <1>7, <1>8, <1>9, <1>10, <1>11, <1>12, <1>13, <1>14, <1>15, <1>16, <1>17, <1>18, <1>19, <1>20, <1>21, <1>22, <1>23, <1>24, <1>25 DEF Next
-----------------------------------------------------------------------------
(* The theorems that hold wherever servers run *)

LEMMA ReadyStep == Ready /\ [Next]_vars => Ready'
BY TypeStep, SetUpStep, DrainingStep DEF Ready

LEMMA AlwaysReady == Spec => []Ready
BY InitReady, ReadyStep, PTL DEF Spec

\* The variables keep their types: what is announced is a service with handlers
\* or nothing, and what handle finds a server.
THEOREM ServerTypeCorrect == Spec => []TypeOK
<1>1. Ready => TypeOK
  BY DEF Ready
<1> QED
  BY <1>1, AlwaysReady, PTL

\* service.Handle never runs on a service that Serve has not set up, even if
\* servers share a process and overwrite each other's options.
THEOREM HandlersAreReady == Spec => []HandlerReady
<1>1. ASSUME Ready PROVE HandlerReady
  <2>1. SUFFICES ASSUME NEW l \in Link, conn[l] = "handle"
                 PROVE  /\ Handler(l[2]) # None
                        /\ service[Handler(l[2])].opts
                        /\ service[Handler(l[2])].ctx # "none"
    BY DEF HandlerReady
  <2>2. Handler(l[2]) \in Server /\ main[Handler(l[2])] \in Contexts
    BY <1>1, <2>1, HandlerKnown DEF Ready, Working, Contexts
  <2> QED
    BY <1>1, <2>2, ServerAssumption DEF Ready, SetUp
<1> QED
  BY <1>1, AlwaysReady, PTL

\* After Close a connection executes at most one more request.
THEOREM ClosedServersDrain == Spec => []AtMostOneMore
<1>1. Ready => AtMostOneMore
  BY DEF Ready, Draining
<1> QED
  BY <1>1, AlwaysReady, PTL
-----------------------------------------------------------------------------
(* What a program serves *)

LEMMA ServedNext ==
  ASSUME NEW s \in Server, NEW k \in Nat, k < Len(Program[s]), NEW n, Served(s, k, n)
  PROVE  Served(s, k + 1, IF Program[s][k + 1] \in Valid THEN Program[s][k + 1] ELSE n)
<1>1. CASE Program[s][k + 1] \in Valid
  BY <1>1 DEF Served
<1>2. CASE Program[s][k + 1] \notin Valid
  BY <1>2 DEF Served
<1> QED
  BY <1>1, <1>2

LEMMA FinalUnique ==
  ASSUME NEW s \in Server, NEW m, NEW n, Final(s, m), Final(s, n)
  PROVE  m = n
<1>1. Len(Program[s]) \in Nat /\ None \notin Valid
  BY ServerAssumption
<1>2. CASE m = None
  BY <1>1, <1>2 DEF Final, Served
<1>3. CASE m # None
  <2>1. PICK i \in 1..Len(Program[s]) :
          /\ m = Program[s][i] /\ m \in Valid
          /\ \A j \in 1..Len(Program[s]) : j > i => Program[s][j] \notin Valid
    BY <1>3 DEF Final, Served
  <2>2. PICK h \in 1..Len(Program[s]) :
          /\ n = Program[s][h] /\ n \in Valid
          /\ \A j \in 1..Len(Program[s]) : j > h => Program[s][j] \notin Valid
    BY <2>1 DEF Final, Served
  <2>3. i = h
    BY <2>1, <2>2
  <2> QED
    BY <2>1, <2>2, <2>3
<1> QED
  BY <1>2, <1>3
-----------------------------------------------------------------------------
(* Own, Routed and InRegistry, where servers are apart *)

LEMMA InitOwn == Init => Own /\ Routed /\ InRegistry
BY ServerAssumption, LinkParts DEF Init, Own, Routed, InRegistry, Applied, Contexts, Idle

\* Every action keeps Own.
LEMMA OwnStep ==
  ASSUME Apart, TypeOK, SetUp, Own, [Next]_vars PROVE Own'
<1> USE ServerAssumption, LinkParts DEF setup, shared, listeners, clients, handlers,
      Goto, Own, Final
<1>1. ASSUME NEW s \in Server, NewServer(s) PROVE Own'
  <2>1. Served(s, 0, None)
    BY DEF Served
  <2>2. /\ registered' = [registered EXCEPT ![s] = 0]
        /\ service'[s].name = None
        /\ \A t \in Server : t # s => service'[t] = service[t]
    BY <1>1 DEF NewServer, TypeOK, NewService
  <2>3. ASSUME NEW t \in Server, main[t] # "down" \/ t = s
        PROVE  Served(t, registered'[t], service'[t].name)
    <3>1. CASE t = s
      BY <2>1, <2>2, <3>1 DEF TypeOK
    <3>2. CASE t # s
      BY <2>2, <2>3, <3>2 DEF TypeOK
    <3> QED
      BY <3>1, <3>2
  <2>4. main' = [main EXCEPT ![s] = "setup"] /\ main[s] = "down" /\ UNCHANGED <<consul, registry, socket>>
    BY <1>1 DEF NewServer
  <2> QED
    BY <2>2, <2>3, <2>4 DEF TypeOK
<1>2. ASSUME NEW s \in Server, Register(s) PROVE Own'
  <2> DEFINE k == registered[s]
             n == Program[s][k + 1]
  <2>1. k \in Nat /\ k < Len(Program[s]) /\ Served(s, k, service[s].name)
    BY <1>2 DEF Register, TypeOK
  <2>2. Served(s, k + 1, IF n \in Valid THEN n ELSE service[s].name)
    BY <2>1, ServedNext
  <2>3. /\ registered' = [registered EXCEPT ![s] = k + 1]
        /\ service'[s].name = IF n \in Valid THEN n ELSE service[s].name
        /\ \A t \in Server : t # s => service'[t] = service[t]
    BY <1>2 DEF Register, TypeOK, NewService, HasHandlers
  <2>4. main[s] = "setup" /\ UNCHANGED <<main, consul, registry, socket>>
    BY <1>2 DEF Register
  <2>5. \A t \in Server : main'[t] # "down" => Served(t, registered'[t], service'[t].name)
    BY <2>2, <2>3, <2>4 DEF TypeOK
  <2>6. \A t \in Server : main'[t] \notin {"down", "setup"} => t # s /\ registered'[t] = Len(Program[t])
    BY <2>3, <2>4 DEF TypeOK
  <2>7. \A t \in Server : main'[t] = "put" =>
          consul'[Home[t]] = [name |-> service'[t].name, addr |-> t]
    BY <2>3, <2>4, <2>6
  <2> QED
    BY <2>4, <2>5, <2>6, <2>7
<1>3. ASSUME NEW s \in Server, Serve(s) PROVE Own'
  BY <1>3 DEF Serve, TypeOK, Apart
<1>4. ASSUME NEW s \in Server, InitTracing(s) PROVE Own'
  BY <1>4 DEF InitTracing, TypeOK, Apart
<1>5. ASSUME NEW s \in Server, InitResolver(s) PROVE Own'
  BY <1>5 DEF InitResolver, Announced, TypeOK, Apart
<1>6. ASSUME NEW s \in Server, Put(s) PROVE Own'
  <2>1. /\ consul[Home[s]] = [name |-> service[s].name, addr |-> s]
        /\ registered[s] = Len(Program[s])
        /\ Served(s, registered[s], service[s].name)
    BY <1>6 DEF Put
  <2>2. /\ registry' = registry \cup {<<service[s].name, s>>}
        /\ main' = [main EXCEPT ![s] = "plugins"]
        /\ UNCHANGED <<registered, service, consul, socket>>
    BY <1>6, <2>1 DEF Put
  <2>3. \A key \in registry' : Final(key[2], key[1])
    BY <2>1, <2>2
  <2> QED
    BY <2>2, <2>3, <1>6 DEF Put, TypeOK
<1>7. ASSUME NEW s \in Server, Prepare(s) PROVE Own'
  BY <1>7 DEF Prepare, Prepared, PluginsReady, TypeOK, Apart
<1>8. ASSUME NEW s \in Server, ApplyOptions(s) PROVE Own'
  BY <1>8 DEF ApplyOptions, TypeOK, Apart
<1>9. ASSUME NEW s \in Server, Listen(s) PROVE Own'
  <2>1. CASE UNCHANGED listeners /\ main' = [main EXCEPT ![s] = "signal"]
    BY <1>9, <2>1 DEF Listen, TypeOK
  <2>2. ASSUME NEW a \in Server, Home[a] = Home[s],
               socket' = [socket EXCEPT ![a] = s],
               main' = [main EXCEPT ![s] = "wait"]
        PROVE  Own'
    BY <1>9, <2>2 DEF Listen, TypeOK, Apart
  <2> QED
    BY <1>9, <2>1, <2>2, ListenEffect
<1>10. ASSUME NEW s \in Server, ServeDone(s) PROVE Own'
  BY <1>10 DEF ServeDone, TypeOK, Apart
<1>11. ASSUME NEW s \in Server, Close(s) PROVE Own'
  BY <1>11 DEF Close, Cancelled, TypeOK, Apart
<1>12. ASSUME NEW s \in Server, Signal(s) PROVE Own'
  BY <1>12 DEF Signal, Cancelled, TypeOK, Apart
<1>13. ASSUME NEW s \in Server, ServeTop(s) PROVE Own'
  BY <1>13 DEF ServeTop, Ctx, TypeOK, Apart
<1>14. ASSUME NEW s \in Server, AcceptErr(s) PROVE Own'
  BY <1>14 DEF AcceptErr, TypeOK, Apart
<1>15. ASSUME NEW p \in Process, Exit(p) PROVE Own'
  BY <1>15 DEF Exit, In, TypeOK, Apart
<1>16. ASSUME NEW l \in Link, Accept(l) PROVE Own'
  BY <1>16 DEF Accept, TypeOK, Apart
<1>17. ASSUME NEW l \in Link, ConnTop(l) PROVE Own'
  BY <1>17 DEF ConnTop, ConnDone, Ctx, TypeOK, Apart
<1>18. ASSUME NEW l \in Link, Read(l) PROVE Own'
  BY <1>18 DEF Read, Sent, TypeOK, Apart
<1>19. ASSUME NEW l \in Link, Handle(l) PROVE Own'
  BY <1>19 DEF Handle, Handler, Ctx, TypeOK, Apart
<1>20. ASSUME NEW l \in Link, Write(l) PROVE Own'
  BY <1>20 DEF Write, TypeOK, Apart
<1>21. ASSUME NEW l \in Link, Evict(l) PROVE Own'
  BY <1>21 DEF Evict, Sent, TypeOK, Apart
<1>22. ASSUME NEW c \in Client, Select(c) PROVE Own'
  BY <1>22 DEF Select, Listed, TypeOK, Apart
<1>23. ASSUME NEW c \in Client, Send(c) PROVE Own'
  BY <1>23 DEF Send, TypeOK, Apart
<1>24. ASSUME NEW c \in Client, Fail(c) PROVE Own'
  BY <1>24 DEF Fail, TypeOK, Apart
<1>25. CASE UNCHANGED vars
  BY <1>25 DEF vars, TypeOK, Apart
<1> QED
  BY <1>1, <1>2, <1>3, <1>4, <1>5, <1>6, <1>7, <1>8, <1>9, <1>10, <1>11, <1>12, <1>13,
     <1>14, <1>15, <1>16, <1>17, <1>18, <1>19, <1>20, <1>21, <1>22, <1>23, <1>24,
     <1>25 DEF Next

\* Every action keeps Routed.
LEMMA RoutedStep ==
  ASSUME Apart, NoPrefix, TypeOK, SetUp, Own, Routed, [Next]_vars PROVE Routed'
<1> USE ServerAssumption, LinkParts DEF setup, shared, listeners, clients, handlers,
      Goto, Routed, Sent
<1>1. ASSUME NEW s \in Server, NewServer(s) PROVE Routed'
  BY <1>1 DEF NewServer, NewService, TypeOK, Idle
<1>2. ASSUME NEW s \in Server, Register(s) PROVE Routed'
  BY <1>2 DEF Register, NewService, HasHandlers, TypeOK, Idle
<1>3. ASSUME NEW s \in Server, Serve(s) PROVE Routed'
  BY <1>3 DEF Serve, TypeOK, Idle
<1>4. ASSUME NEW s \in Server, InitTracing(s) PROVE Routed'
  BY <1>4 DEF InitTracing, TypeOK, Idle
<1>5. ASSUME NEW s \in Server, InitResolver(s) PROVE Routed'
  BY <1>5 DEF InitResolver, Announced, TypeOK, Idle
<1>6. ASSUME NEW s \in Server, Put(s) PROVE Routed'
  BY <1>6 DEF Put, TypeOK, Idle
<1>7. ASSUME NEW s \in Server, Prepare(s) PROVE Routed'
  BY <1>7 DEF Prepare, Prepared, PluginsReady, TypeOK, Idle
<1>8. ASSUME NEW s \in Server, ApplyOptions(s) PROVE Routed'
  BY <1>8 DEF ApplyOptions, TypeOK, Idle
<1>9. ASSUME NEW s \in Server, Listen(s) PROVE Routed'
  BY <1>9 DEF Listen, TypeOK, Idle
<1>10. ASSUME NEW s \in Server, ServeDone(s) PROVE Routed'
  BY <1>10 DEF ServeDone, TypeOK, Idle
<1>11. ASSUME NEW s \in Server, Close(s) PROVE Routed'
  BY <1>11 DEF Close, Cancelled, TypeOK, Idle
<1>12. ASSUME NEW s \in Server, Signal(s) PROVE Routed'
  BY <1>12 DEF Signal, Cancelled, TypeOK, Idle
<1>13. ASSUME NEW s \in Server, ServeTop(s) PROVE Routed'
  BY <1>13 DEF ServeTop, Ctx, TypeOK, Idle
<1>14. ASSUME NEW s \in Server, AcceptErr(s) PROVE Routed'
  BY <1>14 DEF AcceptErr, TypeOK, Idle
<1>15. ASSUME NEW p \in Process, Exit(p) PROVE Routed'
  BY <1>15 DEF Exit, In, TypeOK, Idle
<1>16. ASSUME NEW l \in Link, Accept(l) PROVE Routed'
  BY <1>16 DEF Accept, TypeOK, Idle
<1>17. ASSUME NEW l \in Link, ConnTop(l) PROVE Routed'
  BY <1>17 DEF ConnTop, ConnDone, Ctx, TypeOK, Idle
<1>18. ASSUME NEW l \in Link, Read(l) PROVE Routed'
  BY <1>18 DEF Read, Sent, TypeOK, Idle
<1>19. ASSUME NEW l \in Link, Handle(l) PROVE Routed'
  <2>1. Sent(l) /\ call[l[1]] # Idle
    BY <1>19 DEF Handle, Idle
  <2>2. l[2] \in Server /\ Final(l[2], call[l[1]].service)
    BY <2>1
  <2>3. Handler(l[2]) = l[2] /\ main[l[2]] \in Applied
    <3>1. conn[l] \in Working
      BY <1>19 DEF Handle, Working
    <3>2. socket[l[2]] = l[2]
      BY <3>1, <2>2 DEF Own, SetUp
    <3>3. Home[Handler(l[2])] = Home[l[2]]
      BY <3>1, <3>2, HandlerKnown, ServerAssumption DEF Handler, SetUp
    <3> QED
      BY <3>1, <3>3, <2>2, HandlerKnown DEF Apart
  <2>4. Final(l[2], service[l[2]].name)
    BY <2>3 DEF Own, Final, Applied
  <2>5. service[Handler(l[2])].name = call[l[1]].service
    BY <2>2, <2>3, <2>4, FinalUnique
  <2>6. \A c \in Client :
          \/ executor'[c] = executor[c]
          \/ c = l[1] /\ executor'[c] = call[c].service
    BY <1>19, <2>5 DEF Handle, TypeOK
  <2>7. conn' = [conn EXCEPT ![l] = "write"] /\ UNCHANGED call /\ conn[l] = "handle"
    BY <1>19 DEF Handle
  <2>8. \A k \in Link : conn'[k] \in {"handle", "write"} => Sent(k)'
    BY <2>1, <2>7 DEF TypeOK
  <2>9. \A c \in Client : executor'[c] # None => call[c].pc = "sent" /\ executor'[c] = call[c].service
    BY <2>1, <2>6 DEF TypeOK
  <2> QED
    BY <2>7, <2>8, <2>9
<1>20. ASSUME NEW l \in Link, Write(l) PROVE Routed'
  <2>1. Sent(l) /\ call' = [call EXCEPT ![l[1]] = Idle] /\ executor' = [executor EXCEPT ![l[1]] = None]
    BY <1>20 DEF Write
  <2>2. \A k \in Link : conn'[k] \in {"handle", "write"} => conn[k] \in {"handle", "write"} /\ k # l
    BY <1>20 DEF Write, TypeOK
  <2>3. \A k \in Link : conn'[k] \in {"handle", "write"} => Sent(k) /\ k[1] # l[1]
    BY <2>1, <2>2, LinkEqual
  <2>4. \A c \in Client : c # l[1] => call'[c] = call[c] /\ executor'[c] = executor[c]
    BY <2>1 DEF TypeOK
  <2>5. call'[l[1]] = Idle /\ executor'[l[1]] = None
    BY <2>1 DEF TypeOK
  <2>6. ASSUME NEW k \in Link, conn'[k] \in {"handle", "write"} PROVE Sent(k)'
    <3>1. Sent(k) /\ k[1] # l[1] /\ k[1] \in Client
      BY <2>3, <2>6
    <3>2. call'[k[1]] = call[k[1]]
      BY <2>4, <3>1
    <3> QED
      BY <3>1, <3>2
  <2>7. \A c \in Client : call'[c] # Idle => Final(call'[c].addr, call'[c].service)
    BY <2>4, <2>5
  <2>8. \A c \in Client : executor'[c] # None =>
          call'[c].pc = "sent" /\ executor'[c] = call'[c].service
    BY <2>4, <2>5
  <2> HIDE DEF Sent
  <2> QED
    BY <2>6, <2>7, <2>8
<1>21. ASSUME NEW l \in Link, Evict(l) PROVE Routed'
  BY <1>21 DEF Evict, Sent, TypeOK, Idle
<1>22. ASSUME NEW c \in Client, Select(c) PROVE Routed'
  <2>1. executor[c] = None /\ \A l \in Link : conn[l] \in {"handle", "write"} => l[1] # c
    BY <1>22 DEF Select
  <2>2. UNCHANGED <<conn, executor>>
    BY <1>22 DEF Select
  <2>3. CASE UNCHANGED call
    BY <2>2, <2>3
  <2>4. ASSUME NEW n \in Service, NEW m \in Methods[n], NEW key \in Listed(n),
               call' = [call EXCEPT ![c] =
                          [pc |-> "get", service |-> n, method |-> m, addr |-> key[2]]]
        PROVE  Routed'
    <3>1. Final(key[2], n)
      BY <2>4 DEF Listed, Own, NoPrefix
    <3>2. \A d \in Client : d # c => call'[d] = call[d]
      BY <2>4 DEF TypeOK
    <3>3. call'[c].addr = key[2] /\ call'[c].service = n
      BY <2>4 DEF TypeOK
    <3>4. \A l \in Link : conn'[l] \in {"handle", "write"} => Sent(l)'
      BY <2>1, <2>2, <3>2
    <3>5. \A d \in Client : call'[d] # Idle => Final(call'[d].addr, call'[d].service)
      BY <3>1, <3>2, <3>3
    <3>6. \A d \in Client : executor'[d] # None =>
            d # c /\ call'[d].pc = "sent" /\ executor'[d] = call'[d].service
      BY <2>1, <2>2, <3>2
    <3> HIDE DEF Sent
    <3> QED
      BY <3>4, <3>5, <3>6
  <2> QED
    BY <1>22, <2>3, <2>4 DEF Select
<1>23. ASSUME NEW c \in Client, Send(c) PROVE Routed'
  <2>1. call[c] # Idle /\ executor[c] = None
    BY <1>23 DEF Send, Idle
  <2>2. \A l \in Link : conn[l] \in {"handle", "write"} => l[1] # c
    BY <1>23 DEF Send
  <2>3. \A l \in Link : conn'[l] \in {"handle", "write"} => conn[l] \in {"handle", "write"}
    <3>1. CASE UNCHANGED conn
      BY <3>1
    <3>2. ASSUME NEW k \in Link, conn' = [conn EXCEPT ![k] = "backlog"]
          PROVE  \A l \in Link : conn'[l] \in {"handle", "write"} => conn[l] \in {"handle", "write"}
      BY <3>2 DEF TypeOK
    <3> QED
      BY <1>23, <3>1, <3>2, SendEffect
  <2>4. /\ call' \in {[call EXCEPT ![c] = [call[c] EXCEPT !.pc = "sent"]], [call EXCEPT ![c] = Idle]}
        /\ UNCHANGED executor
    BY <1>23 DEF Send
  <2>5. \A d \in Client : d # c => call'[d] = call[d]
    BY <2>4 DEF TypeOK
  <2>6. \/ call'[c] = Idle
        \/ call'[c].addr = call[c].addr /\ call'[c].service = call[c].service
    <3>1. call[c] \in Request /\ call \in [Client -> Request \cup {Idle}]
      BY <2>1 DEF TypeOK
    <3>2. CASE call' = [call EXCEPT ![c] = [call[c] EXCEPT !.pc = "sent"]]
      BY <3>1, <3>2 DEF Request
    <3>3. CASE call' = [call EXCEPT ![c] = Idle]
      BY <3>1, <3>3
    <3> QED
      BY <2>4, <3>2, <3>3
  <2>7. \A l \in Link : conn'[l] \in {"handle", "write"} => Sent(l)'
    BY <2>2, <2>3, <2>5
  <2>8. \A d \in Client : call'[d] # Idle => Final(call'[d].addr, call'[d].service)
    BY <2>1, <2>5, <2>6
  <2>9. \A d \in Client : executor'[d] # None =>
          d # c /\ call'[d].pc = "sent" /\ executor'[d] = call'[d].service
    BY <2>1, <2>4, <2>5
  <2> HIDE DEF Sent
  <2> QED
    BY <2>7, <2>8, <2>9
<1>24. ASSUME NEW c \in Client, Fail(c) PROVE Routed'
  <2>1. PICK l \in Link : l[1] = c /\ Sent(l) /\ conn[l] = "closed"
    <3>1. call[c] \in Request
      BY <1>24 DEF Fail, TypeOK, Idle
    <3>2. <<c, call[c].addr>> \in Link
      BY <3>1 DEF Request
    <3> QED
      BY <1>24, <3>2 DEF Fail
  <2>2. call' = [call EXCEPT ![c] = Idle] /\ executor' = [executor EXCEPT ![c] = None] /\ UNCHANGED conn
    BY <1>24 DEF Fail
  <2>3. \A k \in Link : conn'[k] \in {"handle", "write"} => Sent(k) /\ k[1] # c
    BY <2>1, <2>2, LinkEqual
  <2>4. \A d \in Client : d # c => call'[d] = call[d] /\ executor'[d] = executor[d]
    BY <2>2 DEF TypeOK
  <2>5. call'[c] = Idle /\ executor'[c] = None
    BY <2>2 DEF TypeOK
  <2> QED
    BY <2>2, <2>3, <2>4, <2>5
<1>25. CASE UNCHANGED vars
  BY <1>25 DEF vars, TypeOK, Idle
<1> QED
  BY <1>1, <1>2, <1>3, <1>4, <1>5, <1>6, <1>7, <1>8, <1>9, <1>10, <1>11, <1>12, <1>13,
     <1>14, <1>15, <1>16, <1>17, <1>18, <1>19, <1>20, <1>21, <1>22, <1>23, <1>24,
     <1>25 DEF Next

\* Every action keeps InRegistry.
LEMMA InRegistryStep ==
  ASSUME Apart, TypeOK, Own, InRegistry, [Next]_vars PROVE InRegistry'
<1> USE ServerAssumption, LinkParts DEF setup, shared, listeners, clients, handlers,
      Goto, InRegistry, Applied, Contexts
<1>1. ASSUME NEW s \in Server, NewServer(s) PROVE InRegistry'
  BY <1>1 DEF NewServer, NewService, TypeOK
<1>2. ASSUME NEW s \in Server, Register(s) PROVE InRegistry'
  BY <1>2 DEF Register, NewService, HasHandlers, TypeOK
<1>3. ASSUME NEW s \in Server, Serve(s) PROVE InRegistry'
  BY <1>3 DEF Serve, TypeOK
<1>4. ASSUME NEW s \in Server, InitTracing(s) PROVE InRegistry'
  BY <1>4 DEF InitTracing, TypeOK
<1>5. ASSUME NEW s \in Server, InitResolver(s) PROVE InRegistry'
  BY <1>5 DEF InitResolver, Announced, TypeOK
<1>6. ASSUME NEW s \in Server, Put(s) PROVE InRegistry'
  <2>1. consul[Home[s]] = [name |-> service[s].name, addr |-> s]
    BY <1>6 DEF Put, Own
  <2>2. registry' = registry \cup {<<service[s].name, s>>}
    BY <1>6, <2>1 DEF Put
  <2>3. main[s] = "put" /\ main' = [main EXCEPT ![s] = "plugins"] /\ UNCHANGED service
    BY <1>6 DEF Put
  <2>4. todo' = [todo EXCEPT ![s] = @ \ {"consul"}]
    BY <1>6 DEF Put
  <2> QED
    BY <2>2, <2>3, <2>4 DEF TypeOK
<1>7. ASSUME NEW s \in Server, Prepare(s) PROVE InRegistry'
  BY <1>7 DEF Prepare, Prepared, PluginsReady, TypeOK
<1>8. ASSUME NEW s \in Server, ApplyOptions(s) PROVE InRegistry'
  BY <1>8 DEF ApplyOptions, TypeOK
<1>9. ASSUME NEW s \in Server, Listen(s) PROVE InRegistry'
  <2>1. \E label \in {"wait", "signal"} : main' = [main EXCEPT ![s] = label]
    BY <1>9 DEF Listen
  <2> QED
    BY <1>9, <2>1 DEF Listen, TypeOK
<1>10. ASSUME NEW s \in Server, ServeDone(s) PROVE InRegistry'
  BY <1>10 DEF ServeDone, TypeOK
<1>11. ASSUME NEW s \in Server, Close(s) PROVE InRegistry'
  BY <1>11 DEF Close, Cancelled, TypeOK
<1>12. ASSUME NEW s \in Server, Signal(s) PROVE InRegistry'
  BY <1>12 DEF Signal, Cancelled, TypeOK
<1>13. ASSUME NEW s \in Server, ServeTop(s) PROVE InRegistry'
  BY <1>13 DEF ServeTop, Ctx, TypeOK
<1>14. ASSUME NEW s \in Server, AcceptErr(s) PROVE InRegistry'
  BY <1>14 DEF AcceptErr, TypeOK
<1>15. ASSUME NEW p \in Process, Exit(p) PROVE InRegistry'
  BY <1>15 DEF Exit, In, TypeOK
<1>16. ASSUME NEW l \in Link, Accept(l) PROVE InRegistry'
  BY <1>16 DEF Accept, TypeOK
<1>17. ASSUME NEW l \in Link, ConnTop(l) PROVE InRegistry'
  BY <1>17 DEF ConnTop, ConnDone, Ctx, TypeOK
<1>18. ASSUME NEW l \in Link, Read(l) PROVE InRegistry'
  BY <1>18 DEF Read, Sent, TypeOK
<1>19. ASSUME NEW l \in Link, Handle(l) PROVE InRegistry'
  BY <1>19 DEF Handle, Handler, Ctx, TypeOK
<1>20. ASSUME NEW l \in Link, Write(l) PROVE InRegistry'
  BY <1>20 DEF Write, TypeOK
<1>21. ASSUME NEW l \in Link, Evict(l) PROVE InRegistry'
  BY <1>21 DEF Evict, Sent, TypeOK
<1>22. ASSUME NEW c \in Client, Select(c) PROVE InRegistry'
  BY <1>22 DEF Select, Listed, TypeOK
<1>23. ASSUME NEW c \in Client, Send(c) PROVE InRegistry'
  BY <1>23 DEF Send, TypeOK
<1>24. ASSUME NEW c \in Client, Fail(c) PROVE InRegistry'
  BY <1>24 DEF Fail, TypeOK
<1>25. CASE UNCHANGED vars
  BY <1>25 DEF vars, TypeOK
<1> QED
  BY <1>1, <1>2, <1>3, <1>4, <1>5, <1>6, <1>7, <1>8, <1>9, <1>10, <1>11, <1>12, <1>13,
     <1>14, <1>15, <1>16, <1>17, <1>18, <1>19, <1>20, <1>21, <1>22, <1>23, <1>24,
     <1>25 DEF Next
-----------------------------------------------------------------------------
(* The theorems about servers in processes of their own *)

\* A client that asks for a service is never answered by another, whatever
\* crashed, was started again, or is left in the registry from before.
THEOREM RequestsReachTheirService ==
  ASSUME Apart, NoPrefix
  PROVE  Spec => []RightService
<1> DEFINE Inv == Ready /\ Own /\ Routed
<1>1. Init => Inv
  BY InitReady, InitOwn
<1>2. Inv /\ [Next]_vars => Inv'
  BY ReadyStep, OwnStep, RoutedStep DEF Ready
<1>3. Inv => RightService
  BY DEF Routed, RightService
<1> QED
  BY <1>1, <1>2, <1>3, PTL DEF Spec

\* Whoever listens was announced, and still is.
THEOREM ListenersAreFound ==
  ASSUME Apart
  PROVE  Spec => []ListenersAreListed
<1> DEFINE Inv == Ready /\ Own /\ InRegistry
<1>1. Init => Inv
  BY InitReady, InitOwn
<1>2. Inv /\ [Next]_vars => Inv'
  BY ReadyStep, OwnStep, InRegistryStep DEF Ready
<1>3. ASSUME Inv PROVE ListenersAreListed
  <2>1. SUFFICES ASSUME NEW s \in Server, socket[s] = s, "consul" \in Plugins[s]
                 PROVE  <<service[s].name, s>> \in registry
    BY DEF ListenersAreListed
  <2>2. main[s] \in Contexts
    BY <1>3, <2>1, ServerAssumption DEF Ready, SetUp, Contexts
  <2> QED
    BY <1>3, <2>1, <2>2 DEF InRegistry
<1> QED
  BY <1>1, <1>2, <1>3, PTL DEF Spec
=============================================================================
