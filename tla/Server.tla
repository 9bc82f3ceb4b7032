------------------------------- MODULE Server --------------------------------
(***************************************************************************)
(* Server and service: how a server is set up, announced in the registry   *)
(* by the consul plugin, served by the transport and closed, and how a     *)
(* request is discovered, dispatched and answered.                         *)
(*                                                                         *)
(* A process runs one server or more.  They share what Go keeps in package *)
(* variables: the options of DefaultServerTransport and of ConsulSvr.  The *)
(* registry outlives the processes.  A server is named by the address it   *)
(* is configured with, and so is the listener at that address.             *)
(***************************************************************************)
EXTENDS Naturals, Sequences

CONSTANTS
  Process, Server,
  Home,       \* the process a server runs in
  Program,    \* the services its main function registers, in this order
  Plugins,    \* its plugins, of "consul" and "jaeger"
  Service,
  Valid,      \* services all of whose methods have the shape of a handler
  Methods,    \* the methods of a service
  Extends,    \* services whose names begin with the name of this one
  Client,     \* goroutines that call Invoke, with the consul selector
  MaxCalls,   \* bounds the calls each of them makes
  MaxStarts,  \* bounds how often a server is started
  None

ASSUME ServerAssumption ==
  /\ Home \in [Server -> Process]
  /\ Program \in [Server -> Seq(Service)]
  /\ Plugins \in [Server -> SUBSET {"consul", "jaeger"}]
  /\ Valid \subseteq Service /\ DOMAIN Methods = Service
  /\ Extends \in [Service -> SUBSET Service] /\ \A n \in Service : n \in Extends[n]
  /\ MaxCalls \in Nat /\ MaxStarts \in Nat
  /\ None \notin Service \cup Server

VARIABLES
  main,       \* the goroutine that sets up and serves a server
  starts,     \* how often it was started
  registered, \* the services of Program it has registered
  todo,       \* plugins InitPlugins has not come to
  service,    \* s.service
  consul,     \* ConsulSvr.opts of a process
  transport,  \* DefaultServerTransport.opts of a process
  registry,   \* the keys "service/address" in consul
  socket,     \* the server whose context the accept loop at an address has
  acceptor,   \* that loop: "top", "accept", "gone"
  call,       \* what a client is doing
  calls,      \* calls it has begun
  open,       \* it holds a connection to an address
  conn,       \* the server's goroutine for that connection: "none", "backlog",
              \* "top", "read", "handle", "write", "closed"
  executor,   \* the service that executed the client's request
  late        \* requests executed on a connection since its server was closed

setup == <<main, starts, registered, todo, service>>
shared == <<consul, transport>>
listeners == <<socket, acceptor>>
clients == <<call, calls, open>>
handlers == <<conn, executor, late>>
vars == <<setup, shared, registry, listeners, clients, handlers>>

Link == Client \X Server
Name == Valid \cup {None}  \* of a service that can be served
Request == [pc : {"get", "sent"}, service : Service,
            method : UNION {Methods[n] : n \in Service}, addr : Server]
Idle == [pc |-> "idle", service |-> None, method |-> None, addr |-> None]

\* NewService makes one with its server's options; Register makes one without.
\* Neither has a context before it is served.
NewService(n, opts) == [name |-> n, opts |-> opts, ctx |-> "none"]

Goto(s, label) == main' = [main EXCEPT ![s] = label]
-----------------------------------------------------------------------------
Init ==
  /\ main = [s \in Server |-> "down"]
  /\ starts = [s \in Server |-> 0]
  /\ registered = [s \in Server |-> 0]
  /\ todo = [s \in Server |-> {}]
  /\ service = [s \in Server |-> NewService(None, TRUE)]
  /\ consul = [p \in Process |-> [name |-> None, addr |-> None]]
  /\ transport = [p \in Process |-> [addr |-> None, handler |-> None]]
  /\ registry = {}
  /\ socket = [a \in Server |-> None]
  /\ acceptor = [a \in Server |-> "gone"]
  /\ call = [c \in Client |-> Idle]
  /\ calls = [c \in Client |-> 0]
  /\ open = [l \in Link |-> FALSE]
  /\ conn = [l \in Link |-> "none"]
  /\ executor = [c \in Client |-> None]
  /\ late = [l \in Link |-> 0]
-----------------------------------------------------------------------------
(* A process: NewServer, RegisterService, Serve *)

NewServer(s) ==
  /\ main[s] = "down" /\ starts[s] < MaxStarts
  /\ starts' = [starts EXCEPT ![s] = @ + 1]
  /\ registered' = [registered EXCEPT ![s] = 0]
  /\ todo' = [todo EXCEPT ![s] = Plugins[s]]
  /\ service' = [service EXCEPT ![s] = NewService(None, TRUE)]
  /\ Goto(s, "setup")
  /\ UNCHANGED <<shared, registry, listeners, clients, handlers>>

\* checkMethod, for every method of the type.
AnyMethod(n) == TRUE
HasHandlers(n) == n \in Valid

\* RegisterService, and Register, which replaces the service: the last one that
\* can be registered is served.
Register(s) ==
  /\ main[s] = "setup" /\ registered[s] < Len(Program[s])
  /\ LET n == Program[s][registered[s] + 1] IN
       service' = [service EXCEPT ![s] = IF HasHandlers(n) THEN NewService(n, FALSE) ELSE @]
  /\ registered' = [registered EXCEPT ![s] = @ + 1]
  /\ UNCHANGED <<main, starts, todo, shared, registry, listeners, clients, handlers>>

Serve(s) ==
  /\ main[s] = "setup" /\ registered[s] = Len(Program[s])
  /\ Goto(s, "plugins")
  /\ UNCHANGED <<starts, registered, todo, service, shared, registry, listeners, clients, handlers>>

\* InitPlugins.  A tracing plugin adds an interceptor, which calls the handler
\* whatever it finds.  A plugin that fails makes Serve panic: see Exit.
InitTracing(s) ==
  /\ main[s] = "plugins" /\ "jaeger" \in todo[s]
  /\ todo' = [todo EXCEPT ![s] = @ \ {"jaeger"}]
  /\ UNCHANGED <<main, starts, registered, service, shared, registry, listeners, clients, handlers>>

\* Consul.Init applies the server's address and the name of its service, as they
\* are then, to ConsulSvr.opts ...
AnnouncedFirst(s) == Program[s][1]
Announced(s) == service[s].name
InitResolver(s) ==
  /\ main[s] = "plugins" /\ "consul" \in todo[s]
  /\ consul' = [consul EXCEPT ![Home[s]] = [name |-> Announced(s), addr |-> s]]
  /\ Goto(s, "put")
  /\ UNCHANGED <<starts, registered, todo, service, transport, registry, listeners, clients, handlers>>

\* ... and puts what it finds there into the registry.
Put(s) ==
  /\ main[s] = "put"
  /\ registry' = registry \cup {<<consul[Home[s]].name, consul[Home[s]].addr>>}
  /\ todo' = [todo EXCEPT ![s] = @ \ {"consul"}]
  /\ Goto(s, "plugins")
  /\ UNCHANGED <<starts, registered, service, shared, listeners, clients, handlers>>

\* service.Serve: the options of the server and a context are set ...
WithoutOptions(r) == [r EXCEPT !.ctx = "live"]
Prepared(r) == [r EXCEPT !.opts = TRUE, !.ctx = "live"]
IgnoresPlugins(s) == TRUE
PluginsReady(s) == todo[s] = {}
Prepare(s) ==
  /\ main[s] = "plugins" /\ PluginsReady(s)
  /\ service' = [service EXCEPT ![s] = Prepared(@)]
  /\ Goto(s, "apply")
  /\ UNCHANGED <<starts, registered, todo, shared, registry, listeners, clients, handlers>>

\* ... ListenAndServe writes its options into those of the transport ...
ApplyOptions(s) ==
  /\ main[s] = "apply"
  /\ transport' = [transport EXCEPT ![Home[s]] = [addr |-> s, handler |-> s]]
  /\ Goto(s, "listen")
  /\ UNCHANGED <<starts, registered, todo, service, consul, registry, listeners, clients, handlers>>

\* ... and listens at the address it finds there.  If it cannot, service.Serve
\* returns, and Server.Serve waits for a signal all the same.
Listen(s) ==
  /\ main[s] = "listen"
  /\ LET a == transport[Home[s]].addr IN
       \/ /\ socket[a] = None
          /\ socket' = [socket EXCEPT ![a] = s]
          /\ acceptor' = [acceptor EXCEPT ![a] = "top"]
          /\ Goto(s, "wait")
       \/ Goto(s, "signal") /\ UNCHANGED listeners
  /\ UNCHANGED <<starts, registered, todo, service, shared, registry, clients, handlers>>

\* The context is done: only now Server.Serve asks for signals.
ServeDone(s) ==
  /\ main[s] = "wait" /\ service[s].ctx = "done"
  /\ Goto(s, "signal")
  /\ UNCHANGED <<starts, registered, todo, service, shared, registry, listeners, clients, handlers>>

\* Server.Close, by another goroutine at any time, and by Server.Serve after a
\* signal.  Before service.Serve has set cancel it has no effect: nothing reads
\* the flags closing.
Cancelled(r) == [r EXCEPT !.ctx = IF @ = "live" THEN "done" ELSE @]
Close(s) ==
  /\ service[s].ctx = "live" /\ main[s] # "down"
  /\ service' = [service EXCEPT ![s] = Cancelled(@)]
  /\ UNCHANGED <<main, starts, registered, todo, shared, registry, listeners, clients, handlers>>
Signal(s) ==
  /\ main[s] = "signal"
  /\ service' = [service EXCEPT ![s] = Cancelled(@)]
  /\ Goto(s, "returned")
  /\ UNCHANGED <<starts, registered, todo, shared, registry, listeners, clients, handlers>>

\* The process ends: it crashes, main returns, a plugin makes it panic, or a
\* signal comes before Server.Serve asks for it.  The kernel closes what it had
\* open; nothing is taken out of the registry.
In(p) == {s \in Server : Home[s] = p}
Exit(p) ==
  /\ \E s \in In(p) : main[s] # "down"
  /\ main' = [s \in Server |-> IF s \in In(p) THEN "down" ELSE main[s]]
  /\ socket' = [a \in Server |-> IF socket[a] \in In(p) THEN None ELSE socket[a]]
  /\ acceptor' = [a \in Server |-> IF socket[a] \in In(p) THEN "gone" ELSE acceptor[a]]
  /\ conn' = [l \in Link |->
                IF socket[l[2]] \in In(p) /\ conn[l] # "none" THEN "closed" ELSE conn[l]]
  /\ consul' = [consul EXCEPT ![p] = [name |-> None, addr |-> None]]
  /\ transport' = [transport EXCEPT ![p] = [addr |-> None, handler |-> None]]
  /\ UNCHANGED <<starts, registered, todo, service, registry, clients, executor, late>>
-----------------------------------------------------------------------------
(* serve and handleConn *)

\* The context that was passed to serve for an address.
Ctx(a) == service[socket[a]].ctx

ServeTop(a) ==
  /\ socket[a] # None /\ acceptor[a] = "top"
  /\ acceptor' = [acceptor EXCEPT ![a] = IF Ctx(a) = "done" THEN "gone" ELSE "accept"]
  /\ UNCHANGED <<setup, shared, registry, socket, clients, handlers>>

\* An error of Accept that is not temporary, or of SetKeepAlive, ends the loop
\* and nothing else; the connection is left alone.
AcceptErr(a) ==
  /\ acceptor[a] = "accept"
  /\ acceptor' = [acceptor EXCEPT ![a] = "gone"]
  /\ UNCHANGED <<setup, shared, registry, socket, clients, handlers>>

Accept(l) ==
  /\ acceptor[l[2]] = "accept" /\ conn[l] = "backlog"
  /\ conn' = [conn EXCEPT ![l] = "top"]
  /\ acceptor' = [acceptor EXCEPT ![l[2]] = "top"]
  /\ UNCHANGED <<setup, shared, registry, socket, clients, executor, late>>

NeverDone(a) == FALSE
ConnDone(a) == Ctx(a) = "done"
ConnTop(l) ==
  /\ conn[l] = "top"
  /\ conn' = [conn EXCEPT ![l] = IF ConnDone(l[2]) THEN "closed" ELSE "read"]
  /\ UNCHANGED <<setup, shared, registry, listeners, clients, executor, late>>

\* The request of the client, or the end of the stream.
Sent(l) == call[l[1]].pc = "sent" /\ call[l[1]].addr = l[2]
Read(l) ==
  /\ conn[l] = "read"
  /\ \/ Sent(l) /\ conn' = [conn EXCEPT ![l] = "handle"]
     \/ ~open[l] /\ conn' = [conn EXCEPT ![l] = "closed"]
  /\ UNCHANGED <<setup, shared, registry, listeners, clients, executor, late>>

\* handle and service.Handle: the Handler of the transport's options looks for
\* the method, and only for the method, among its handlers.
Handler(a) == transport[Home[socket[a]]].handler
Handle(l) ==
  /\ conn[l] = "handle"
  /\ LET n == service[Handler(l[2])].name IN
       executor' = [executor EXCEPT ![l[1]] =
                      IF n # None /\ call[l[1]].method \in Methods[n] THEN n ELSE @]
  /\ late' = [late EXCEPT ![l] = IF Ctx(l[2]) = "done" THEN @ + 1 ELSE @]
  /\ conn' = [conn EXCEPT ![l] = "write"]
  /\ UNCHANGED <<setup, shared, registry, listeners, clients>>

\* The client receives the response, and its call returns.
Write(l) ==
  /\ conn[l] = "write"
  /\ conn' = [conn EXCEPT ![l] = "top"]
  /\ call' = [call EXCEPT ![l[1]] = Idle]
  /\ executor' = [executor EXCEPT ![l[1]] = None]
  /\ UNCHANGED <<setup, shared, registry, listeners, calls, open, late>>
-----------------------------------------------------------------------------
(* A client: SendTcpReq with the consul selector *)

\* Resolve lists the keys that begin with the name of the service.
ListedAll(n) == registry
Listed(n) == {key \in registry : key[1] \in Extends[n]}

\* Select takes one of them, the random balancer any.  Without any the call
\* fails.
Select(c) ==
  /\ call[c].pc = "idle" /\ calls[c] < MaxCalls
  /\ calls' = [calls EXCEPT ![c] = @ + 1]
  /\ \E n \in Service :
       \/ \E m \in Methods[n], key \in Listed(n) :
            call' = [call EXCEPT ![c] =
                       [pc |-> "get", service |-> n, method |-> m, addr |-> key[2]]]
       \/ Listed(n) = {} /\ UNCHANGED call
  /\ UNCHANGED <<setup, shared, registry, listeners, open, handlers>>

\* Pool.Get and Write: on a connection the pool holds, or a new one, which the
\* kernel completes while the listener is open.  To keep a name for every
\* connection, a client dials an address again when the old one has ended.
Send(c) ==
  /\ call[c].pc = "get"
  /\ LET l == <<c, call[c].addr>> IN
       \/ /\ open[l]
          /\ call' = [call EXCEPT ![c].pc = "sent"]
          /\ UNCHANGED <<open, conn, late>>
       \/ /\ ~open[l] /\ socket[l[2]] # None /\ conn[l] \in {"none", "closed"}
          /\ call' = [call EXCEPT ![c].pc = "sent"]
          /\ open' = [open EXCEPT ![l] = TRUE]
          /\ conn' = [conn EXCEPT ![l] = "backlog"]
          /\ late' = [late EXCEPT ![l] = 0]
       \/ /\ ~open[l] /\ socket[l[2]] = None
          /\ call' = [call EXCEPT ![c] = Idle]
          /\ UNCHANGED <<open, conn, late>>
  /\ UNCHANGED <<setup, shared, registry, listeners, calls, executor>>

\* The connection breaks under the call.
Fail(c) ==
  /\ call[c].pc = "sent"
  /\ LET l == <<c, call[c].addr>> IN
       /\ conn[l] = "closed"
       /\ open' = [open EXCEPT ![l] = FALSE]
  /\ call' = [call EXCEPT ![c] = Idle]
  /\ executor' = [executor EXCEPT ![c] = None]
  /\ UNCHANGED <<setup, shared, registry, listeners, calls, conn, late>>

\* The checker closes a connection no call is using.
Evict(l) ==
  /\ open[l] /\ ~Sent(l)
  /\ open' = [open EXCEPT ![l] = FALSE]
  /\ UNCHANGED <<setup, shared, registry, listeners, call, calls, handlers>>
-----------------------------------------------------------------------------
Next ==
  \/ \E s \in Server :
       \/ NewServer(s) \/ Register(s) \/ Serve(s) \/ InitTracing(s) \/ InitResolver(s)
       \/ Put(s) \/ Prepare(s) \/ ApplyOptions(s) \/ Listen(s) \/ ServeDone(s)
       \/ Close(s) \/ Signal(s) \/ ServeTop(s) \/ AcceptErr(s)
  \/ \E p \in Process : Exit(p)
  \/ \E l \in Link : Accept(l) \/ ConnTop(l) \/ Read(l) \/ Handle(l) \/ Write(l) \/ Evict(l)
  \/ \E c \in Client : Select(c) \/ Send(c) \/ Fail(c)

Spec == Init /\ [][Next]_vars
-----------------------------------------------------------------------------
(* Properties *)

\* The variables keep their types.
TypeOK ==
  /\ main \in [Server -> {"down", "setup", "plugins", "put", "apply", "listen", "wait",
                          "signal", "returned"}]
  /\ starts \in [Server -> 0..MaxStarts]
  /\ registered \in [Server -> Nat]
  /\ \A s \in Server : registered[s] <= Len(Program[s])
  /\ todo \in [Server -> SUBSET {"consul", "jaeger"}]
  /\ service \in [Server -> [name : Name, opts : BOOLEAN, ctx : {"none", "live", "done"}]]
  /\ consul \in [Process -> [name : Name, addr : Server \cup {None}]]
  /\ transport \in [Process -> [addr : Server \cup {None}, handler : Server \cup {None}]]
  /\ registry \subseteq Name \X Server
  /\ socket \in [Server -> Server \cup {None}]
  /\ acceptor \in [Server -> {"top", "accept", "gone"}]
  /\ calls \in [Client -> 0..MaxCalls]
  /\ call \in [Client -> Request \cup {Idle}]
  /\ open \in [Link -> BOOLEAN]
  /\ conn \in [Link -> {"none", "backlog", "top", "read", "handle", "write", "closed"}]
  /\ executor \in [Client -> Name]
  /\ late \in [Link -> Nat]

\* A request is executed by the service it names.  handle looks at the method
\* only, so this rests on the registry: an address is listed under a service
\* only if the server at that address, whichever incarnation answers, serves it.
RightService == \A c \in Client : executor[c] \in {None, call[c].service}

\* A request finds a handler with everything service.Handle uses, although the
\* goroutine that sets it up is not the one that serves: the options of the
\* service and its context are there before a connection can be.
HandlerReady ==
  \A l \in Link : conn[l] = "handle" =>
    /\ Handler(l[2]) # None
    /\ service[Handler(l[2])].opts /\ service[Handler(l[2])].ctx # "none"

\* A server that listens can be found, if it has the plugin for it.
ListenersAreListed ==
  \A s \in Server : socket[s] = s /\ "consul" \in Plugins[s] =>
    <<service[s].name, s>> \in registry

\* After Close a connection executes at most the request it was reading or
\* handling then.
AtMostOneMore == \A l \in Link : late[l] <= 1
=============================================================================
