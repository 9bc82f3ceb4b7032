# A TLA+ verification of go-lrpcx

go-lrpcx is a small RPC framework in Go: a server publishes the methods of a Go
value, a client calls them over TCP (or UDP) through a pool of connections, and
plugins add service discovery through consul and tracing through jaeger. This
directory holds TLA+ models of it, the TLC runs that check them, and proofs of
their main properties for the TLA+ proof system. Paths below are those of the
repository; line numbers are of the commit beside which this project is kept.

Contents: [the system](#the-system) · [what makes it hard](#what-makes-it-hard) ·
[the modules](#the-modules) · [the runs](#the-runs) · [findings](#findings) ·
[fairness](#fairness) · [the proofs](#the-proofs) · [what is not modelled](#what-is-not-modelled) ·
[the plan](#the-plan)

One remark before all others. At this commit the repository does not compile: `transport`
and its two subpackages import each other, and the examples have syntax errors; there
are no tests. The models follow the functions as they are written, that is, as
they would run with the import cycle broken.

## The system

| Component | State | Operations | Talks to |
|---|---|---|---|
| Connection pool of one address, `sonConnPool` and `PoolConn` (pool/connpool) | the channel `conns`, `mu`, `Dial`; per connection `unusable`, `t`, `mu`, the socket | `Get`, `Put`, `Close`, the checker goroutine; `PoolConn.Read`, `Write`, `Close`, `MarkUnusable` | callers, the checker, the kernel |
| Table of pools, `poolManager` | a `sync.Map` from address to pool, `opts.initialCap` | `Get`, `NewSonConnPool`, `RegisterChecker` | the pools it makes |
| Client transport (transport/client_transport) | one `DefaultClientTransport` with its options | `Send`, `SendTcpReq`, `SendUdpReq` | selector, pool, server |
| Client (client, interceptor, stream) | the `ClientOptions` shared by all its calls; a client stream per context | `Invoke`, the interceptor chain, `invoke`, `addReqHeader` | client transport |
| Server and service (server.go, service.go) | the service, its options and context, the list of plugins | `NewServer`, `RegisterService`, `Serve`, `Close`, `Handle` | plugins, server transport |
| Server transport | one `DefaultServerTransport` with its options; a goroutine for the listener and one per connection | `ListenAndServe`, `serve`, `handleConn`, `handle`, `write` | the service through `Handler` |
| Consul plugin | the options and client of the one `ConsulSvr`; the registry itself is another process | `Init`, `Resolve`, `Select` | consul, a balancer |
| Balancers (selector/loadbalance) | a picker per service in a `sync.Map` | `Balance`, `pick` | consul's `Select` |
| Framer (transport/transport.go) | per connection a buffer and the number of its resizes | `ReadFrame` | both transports, TCP |
| UDP, both ends (client_transport_udp.go, server_transport_udp.go) | a socket per call; one socket and one buffer in the server, a goroutine per datagram | `SendUdpReq`; `ListenAndServeUdp`, `handleUdpConn` | client, the service through `Handler` |
| Codec, serialization | a `sync.Pool` of buffers | `Encode`, `Decode`, `Marshal`, `Unmarshal` | both transports |
| Jaeger plugin, metadata | values in contexts | two interceptors | interceptor chain |

A call goes like this. `client.Invoke` writes the call's options into the client's, splits
the path, puts it into a client stream in the context and runs the interceptors,
the last of which is `invoke`: marshal, add the header, encode, `Send`. `Send` writes
its options into the one transport; `SendTcpReq` asks the selector for an
address, leases a connection from the pool of that address, writes the request,
looks once at the context, reads a frame, and gives the connection back in a
deferred `Close`. At the other end `handleConn` reads a frame, has the
`Handler` (the service) find the method and run it, and writes the response. A
server registers its services, initialises its plugins (consul writes
`service/address` into the registry), and listens.

What makes each part correct:

- *pool*: a connection has one owner at a time, no socket is forgotten, what is in the
  channel can be used, healthy connections are kept and dead ones are purged, giving back
  never blocks nor panics, and `Close` leaves nothing behind;
- *table*: a caller gets a connection to the address it asked for; pools that
  callers find are looked after, and those that lose the race to be found are bounded and drain;
- *call*: the answer a call gets is its own and was computed for it, a request
  is executed at most once, and a call returns; over UDP, where requests are repeated,
  the answer is still the call's own;
- *response*: what the client takes for a success is the result of a method that succeeded;
- *framer*: the buffer is long enough for every frame that is not refused;
- *client*: a call is about what its caller said, whatever calls run beside it;
- *balancer*: the answer is a node of the list, and nodes take turns, or get shares by weight;
- *server*: a request is executed by the service it names; nothing is served before
  it is set up; what listens can be found; what is closed comes to rest.

## What makes it hard

- Goroutines share fields without locks: `c.conns` and `c.Dial` between `Get` and `Close`,
  the options of client and transports, the pickers.
- Locks are taken again by the goroutine that holds them (`PoolConn.Close` calls `Put`, which may
  call `PoolConn.Close`), and Go's `RWMutex` keeps new readers waiting behind a writer.
- Load and Store of the table of pools are two steps with network calls in between.
- Nothing in a frame pairs a response with its request (`StreamID` is never set), and connections
  are reused, so that all depends on what a connection carries when it is given back.
- Contexts end at any point, servers stop between two frames, connections break,
  frames are too big, and the checker evicts connections at the same time.
- The registry outlives the servers and nobody removes an entry.
- The UDP server reads every datagram into the same buffer, and hands a slice of it to a goroutine.
- The framer's buffer and its count of resizes live as long as the connection, whatever frames come.
- A picker is refreshed by length and age, not by what the list says.

The hazards are listed one by one, with the line where each bites and the properties that
watch it, in `PROJECT.json`.

## The modules

| Module | Models | Lines of the source |
|---|---|---|
| `ConnLease` | abstract: who owns a connection, and that what nobody owns is closed | what the pool promises |
| `ConnPool` | one `sonConnPool`, its connections, callers, checker and closers | connection_pool.go 91-265, pool_conn.go |
| `PoolManager` | the table of pools, and how pools are filled | connection_pool.go 72-139 |
| `Rpc` | abstract: a remote call, executed at most once, answered with its own answer | what a call promises |
| `RpcCall` | a call over TCP, both ends, on connections leased as in `ConnLease` | client_transport.go, server_transport.go, transport.go |
| `ClientCall` | where a call keeps what it is about | client.go, interceptor.go, client_stream.go, client_transport.go 48-63 |
| `Framer` | the framers of a server: the buffer that grows with the frames | transport.go |
| `Exchange` | a request and its response over TCP or UDP, with every way it can end | client_transport_udp.go, server_transport_udp.go, server_transport.go 155-268, service.go 110-, server.go 170-, client.go 91-151 |
| `RoundRobin` | the round robin picker, access by access | round_robin.go |
| `WeightedRoundRobin` | the weighted picker: smooth weighted round robin over a list that changes | weighted_round_robin.go |
| `Balancers` | the balancer a name stands for | balancer.go, consul.go |
| `Server` | set-up, discovery, dispatch, close and restart of servers | server.go, service.go, server_transport.go, consul.go |
| `MCConnPool`, `MCRpcCall`, `MCStages`, `MCServer` | symmetry and values of constants for TLC; `MCStages` has `ClientCall`, `Balancers` and `Exchange` side by side | |
| `ConnPoolProofs`, `PoolManagerProofs`, `RpcCallProofs`, `ClientCallProofs`, `ExchangeProofs`, `WeightedRoundRobinProofs`, `BalancersProofs`, `ServerProofs` | theorems | |

`ConnLease` sits between the two halves of the client: `ConnPool` is shown to implement
it, with channel, locks and checker, and `RpcCall` takes its steps (`Lease!Borrow`, `Lease!Return`,
...) as the whole of what it knows of the pool. `Rpc` is what `RpcCall` in turn implements. `Exchange`
extends `Framer`, whose actions are parts of its own, and looks at what `RpcCall` leaves out: what a frame holds,
how long it is, the other network, and what the client makes of the response. `Balancers` puts the
two balancers that keep a state behind the one name consul is given. As the code stands that name is empty
(`Consul.balancerName` is assigned nowhere), which means the random balancer: the other two are modelled as what they
are when a name selects them.

### How state and actions correspond to the code

**ConnPool.** A step is a piece of code whose effect others see at one
point. `conns` and `chan` are the channel and the field that holds it, which are not the same after
`Close` has set the field to nil and before it has closed the channel. `writer` and `depth` are
`c.mu`: the writer that new readers wait behind and the read locks a goroutine has, one per nested
`Put`. `PoolConn.mu` is there only where a goroutine asks for a lock it holds: `HoldsConnLock` and
the label `stuck`. `Get` is `GetStart` (line 145), `GetRecv` (148-158), `GetDial` (160,
the evaluation of `c.Dial`) and `Dialled`; `Put` is `PutStart` (189-194) and `PutSend` (196-202);
the checker is `CheckLen`, `CheckSelect`, `CheckRecv`, `CheckConn` and `Put`; `Close` is `CloseLock`,
`CloseNil`, `CloseChan` and `CloseDrain`. A socket is closed, up, up with unread bytes, at the
end of its stream, or reset: what `isConnAlive` and a caller's reads tell apart. The clock is `AgeOut`.
A panic sets `panic` and stops everything.

**PoolManager.** Inside, a pool is the set of its idle connections. `Load` and
`Store` are the two accesses to the table; `Make`, `Fill` and `RegisterChecker` are `NewSonConnPool`,
one connection at a time, any of which may fail to be dialled. `Purge` is a checker, `Collect` the finalizers
Go's net package sets, for pools nothing refers to.

**RpcCall.** Each connection is a stream of requests and one of responses. A request is the
call it belongs to; a response also has a size, readable or too big. The caller's labels
are the stages of `SendTcpReq`, the server's those of `handleConn`: each looks at its context where
the code does and blocks where the code does. `GetDial` succeeds
even when nobody accepts any more, since the listener stays open. `Write` may succeed or fail on
a connection whose other end has closed. `Forget` frees the name of a connection that both ends
have closed.

**ClientCall.** The shared variables are the fields that `Invoke` and `Send` write and read
back: `target` and `chain` of the client's options and `sendTo` of the transport's; the other options go the way of the target.
Each access is a step. `frames` is a goroutine's stack of calls, since an interceptor may make a call, with the
context it was given or another: `Intercept` chooses. `lent` and `alone` are history: a call has `lent` its context when
an interceptor of it has made a call with it, and it is `alone` until another goroutine's call begins.

**RoundRobin.** One action per access to the picker's fields. `rp.lastIndex += 1` is a read and a write,
and the index expression reads the field again or uses a value the compiler has kept.
`round` and `overlapped` are history: who has had a turn, and whether two calls of `Balance` have ever overlapped.

**WeightedRoundRobin.** A call of `Balance` is one step, since the balancer serves one caller at a time: `Balance`
takes the list it is given if there is no picker or it is stale (another length, or
older than `Duration`) and then picks. `current` are the current weights, which start at the weights themselves
(line 93), `picked` is history: how often each node was answered in the round. `unseen` is
history, too: how long ago a node was last listed.

**Framer and Exchange.** `ReadFrame` is `Header` (line 70-73), `Resize`, once per turn of its loop, and `Body`.
A request is named by its call, and `requests` is a set: taking from it a datagram without removing it is the
network repeating it, and the order of taking is the network's. `srv[g]` is a goroutine
of the server, that of `g`'s connection over TCP, any of those the loop starts over UDP.
`ReadFrom` is a turn of the UDP loop with the `go` statement at its end; `received` is what its buffer holds, and `Contents(g)`
is what goroutine `g` finds in its slice of it: its own request if the buffer is as it was, otherwise
that or anything else, since the loop and the goroutine race. `Handle` chooses among the `End`s of `Handle` and of the
handlers `getServiceMethods` makes: a method that fails ends with a result like one that returns, since the handler drops its error, and an
interceptor's error may have the code 0. `RetCode` and `ResponseTo` are `addRspHeader`; `Payload` says whose result a response carries;
`Result` is how `invoke` takes the answer. `about` and `disturbed` are history.

**Server.** `main` is the goroutine that runs a server's `main`, stage by stage; `Serve`,
`InitTracing`, `InitResolver`, `Put`, `Prepare`, `ApplyOptions` and `Listen` are `Server.Serve` down to
`net.Listen`. `consul` and `transport` are the package variables' options, one per process. `Close` is
called by anybody at any time, `Signal` is what follows a signal once it is asked for, and `Exit`
is a crash, the end of `main`, a panic, or a signal that comes too early. `Server` restarts by
`NewServer`. Connections of a client are named by client and address; a request is `Sent`,
taken by `Read`, executed by `Handle`, answered by `Write`.

### Abstractions common to all

Data is reduced to what a property tells apart: connections, calls, services, addresses are model values.
Formatting, logging and byte layouts are left out. Identities that the program never
runs out of (connections, pools) are a finite set, reused when the object is gone, except that
`PoolId` is not reused: the runs give more than they need or let the action wait.

## The runs

States are distinct states, modulo symmetry where a run uses it; a run that ends in a violation ends at
the first. Liveness is checked without symmetry.

| Run | Instance | States | Checks |
|---|---|---|---|
| `pool_shared` | 2 callers, checker, 1 closer, 3 connections, capacity 1, stack of 2 | 390 000 | `TypeOK`, `ExclusiveOwner`, `NoLeak`, `Usable`, `NoSendOnClosed`, `ClosedPoolStaysEmpty`, `NeverClosesHealthy`, `ImplementsLease` |
| `pool_live` | 1 caller, checker, 1 closer, 3 connections, capacity 2, fair | 210 000 | `CapacityBound`, `NoPanic`, `DueIsPurged`, `CloseCompletes` |
| `pool_full` | 2 callers, capacity 1, stack of 3 | violation | `FullPoolSafe` |
| `manager` | 2 callers, 2 addresses, 3 pools, 3 connections, 2 to dial, fair | 277 000 | `TypeOK`, `RightPeer`, `PublishedIsChecked`, `BoundedCheckers`, `LosersDrain` |
| `call_path` | 2 callers, 2 calls each, 2 connections, nobody cancels, server may stop | 176 000 | `TypeOK`, `ReadsOwnReply`, `IdleIsQuiet`, `ImplementsRpc` |
| `call_live` | 2 callers, 1 call each, any cancellation, responses too big, fair | 58 000 | `AtMostOnce`, `CallReturns` |
| `call_cancel` | 1 caller, 2 calls, cancellation | violation | `ReadsOwnReply` |
| `call_stages` | 2 callers. Client: 2 services, interceptors that call, chain up to 2. Balancers: lists of 0 to 3 of 3 nodes, weights 0, 1 and 3, `Duration` of one tick. Exchange: over TCP 2 calls each, over UDP 1; frames of 1000, 70 000, 4 194 304 and 4 194 305 bytes | 986 000 | `TypeOK`, `FrameFits`, `OwnAnswer` (`Exchange`), `OwnPath`, `OwnTargetAlone` (`ClientCall`), `TakesTurns`, `Share`, `Known` (`Balancers`) |
| `round_robin_race` | 2 callers, lists of up to 2 nodes | violation | `InRange` |
| `exchange_error` | as `call_stages` | violation | `ErrorsAreTold` |
| `server` | 2 processes with a server each, 3 calls, 2 starts | 1 350 000 | `TypeOK`, `RightService`, `HandlerReady`, `ListenersAreListed`, `AtMostOneMore` |
| `server_prefix` | the same, one service name a prefix of the other | violation | `RightService` |

`call_stages` takes three modules at a time because they share no variable: `stage` says which of them a behaviour is about, and the
others stay in an initial state. It is the union of three runs, not a composition, and finds what three runs would. `MCStages` gives
the properties of `ClientCall` and `Balancers` their names again; they are the definitions the theorems speak of.

Why the bounds are enough. *Pool*: two callers and a capacity of one fill the channel,
let a caller take what another or the checker has put back, and let `Close` come between
every two steps; a third connection makes one more than callers can hold. The stack is two
`Put` calls deep, which distinguishes the first call from a nested one; the depth in code is
bounded by memory only. *Pool, live*: a capacity of two is caller plus
checker, the least with which `Put` always finds room; the claims are about that case, and, but
for `CapacityBound` and `CloseCompletes`, about the time before a `Close`: after one, a late `Put` blocks or panics (below).
*Manager*: two callers are what the race needs, two addresses what a mix-up
needs, and three pools one more than may be found at once. With two connections to dial, dialling
can fail half way. *Call*: with two calls each, a second call meets what a first left
behind, on the connection of either caller. *Client*: two goroutines and one level of nesting; an
interceptor's interceptors are the same code. *Exchange*: a buffer of 1024 bytes holds the first length, the second takes seven
resizes, the third is the greatest `ReadFrame` accepts, the last is refused; two frames on a connection come in every
order. Only the first fits a datagram. Over UDP two calls are what a mix-up takes, each of which the
network may repeat; what a late answer does to the next call of the same caller is left to the theorem.
*Balancers*: three nodes, so that lists grow and
shrink by more than one; weights that are nothing, one and more than all others; a tick less and a tick more than `Duration`. *Server*: two starts meet what the first left in the registry and
at clients; the first server registers a service, then one that is refused, then the one
it serves. *Counters*: `MaxCalls`, `MaxStarts`, `MaxChain`, `MaxNodes`, `Duration` (clocks stop beyond it) and `StackDepth` are the only bounds on
counters; all but `StackDepth` stand for "as often as you like".

`CHECK_DEADLOCK FALSE` is set where the system may really stop: a closed pool
(a caller blocked on itself), callers that have made their calls, a manager that has run
out of pools, servers that are down for good, a UDP call whose datagram was lost, a panic.

`AtMostOnce` is listed where a call may be cancelled; where none is, `ImplementsRpc` says it. `call_path` leaves out cancellation because cancellation breaks what it checks: that
is the finding of `call_cancel`. `call_live` keeps it in, and checks what still holds.
It assumes a server that answers and is not stopped, because the code gives no call a deadline
(`client.go:67` drops the context with the timeout) and nobody closes the listener: with a stopped server
a call may wait for ever. In `call_stages` interceptors make calls with a context of their own or with the one they were given. The latter is a call that finds the stream of the
outer one and writes its path into it: `OwnPath` claims the path of every call but such an outer one, which has `lent` its context.
`OwnTargetAlone` is about a call that is alone, since with two at a time a request may go to the target of the other (below).
`TakesTurns` is about callers whose calls do not overlap, and says nothing once two have; that the index leaves the list then is `round_robin_race`. `Share` says that in a
round of a list that does not change, no node is answered more often than its weight, and so all are
answered in proportion. `OwnAnswer` leaves out the calls in `disturbed`, those whose datagram the next one may have replaced in the
buffer before its goroutine had decoded it: without that it fails. `FrameFits` is about the
code as it is, with room for one resize more than the greatest frame takes.

## Findings

Five runs show the code do what its own comments exclude.

1. `pool_full`: on a full channel `Put` (connection_pool.go:201) calls `PoolConn.Close`, which
   calls `Put` again, since the connection is usable: unbounded recursion.
2. `call_cancel`: a call whose context ends between write and read gives its connection
   back with the response under way; the next call on it reads that response, and so on
   for every later call (client_transport.go:95).
3. `server_prefix`: the server dispatches by method alone (service.go:128) and consul's listing is
   by prefix (consul.go:97): a request may be executed by another service.
4. `round_robin_race`: the round robin balancer keeps its pickers in a `sync.Map` "for concurrency safety"
   (round_robin.go:11-12), but two callers share the picker in it and increment its index
   between test and use: the second indexes the list out of range and panics (line 71-72). `ApartInRange` proves that
   nothing else leads there.
5. `exchange_error`: a method must return an error (server.go:261), and its handler, which says it determines it
   (184), drops it (185, 192): the client is told of a success.

Seen while modelling and not made into runs, most because nothing in the repository states the
contrary:

- *Pool.* A `Put` in a closed pool blocks on its own lock (connection_pool.go:192), and `Get` meets a nil
  `Dial` there (160); `PoolConn.t` is never renewed (pool_conn.go:19).
- *Client.* The options of a call live in the options all calls share (client.go:62, client_transport.go:50), so that of two
  calls at a time one may go to the target of the other, and interceptors given to one call stay for all later ones.
- *UDP.* The server's goroutine looks at a buffer that the loop may have filled again
  (server_transport_udp.go:49); a client whose datagram is lost waits for ever, since no deadline is set
  (client_transport_udp.go:40); the deferred `Close` comes before the check of the error of `ListenPacket` (line 15).
- *Service.* The request an interceptor puts in the place of the one it
  got is ignored (server.go:190); an interceptor's error with the code 0 is sent as a success (server_transport.go:238), which only the empty
  payload gives away; a result that marshals to nothing is an error for the client, which cannot
  unmarshal an empty payload.
- *Balancers.* `Consul.balancerName` is never set, so that the balancer is always the random one (consul.go:84); consul gives all
  nodes weight 0, with which the weighted picker always answers the first (weighted_round_robin.go:74); since current weights start at
  the weights (93), the first round is less smooth than later ones.
- *Server.* Two servers in one process share a transport, so that the second takes the
  first's requests (server_transport.go:61).

## Fairness

Only `pool_live`, `manager` and `call_live` use fairness. It is weak
fairness of each goroutine's own steps: the Go scheduler runs what can
run, `select` with a default does not block, and `RWMutex` does not starve. A caller
need not ask for a connection, nor give one back that still works (`ReturnStep`): a call on a failed
one returns, and its deferred `Close` runs. The checker's sleep ends. In `manager` a call ends and
checkers keep running; the garbage collector (`Collect`) is not fair. In `call_live` the methods
of the service return and the accept loop goes on. In `pool_live` nobody need close the pool, but who has begun to goes on. Nothing is assumed of the clock,
the network, or the peers, beyond that a written frame that nothing breaks is read.

## The proofs

Each theorem holds for every value of the constants that meets the named assumption of
its module, unless it says more.

| Theorem | Says |
|---|---|
| `TypeCorrect` | `TypeOK` of `ConnPool` |
| `Exclusive`, `Leakless`, `ConnectionsAreUsable` | `ExclusiveOwner`, `NoLeak`, `Usable` of `ConnPool` |
| `SendsBeforeClose`, `ClosedStaysEmpty`, `HealthyConnectionsStay` | `NoSendOnClosed`, `ClosedPoolStaysEmpty`, `NeverClosesHealthy` of `ConnPool` |
| `SocketsAreBounded` | `CapacityBound`, for finitely many callers |
| `RoomForAll` | `NoPanic`, if the capacity is at least the number of callers and one |
| `PoolImplementsLease` | `ConnPool` implements `ConnLease` |
| `ManagerTypeCorrect`, `PeersAreRight`, `TableIsChecked`, `CheckersAreBounded` | `TypeOK`, `RightPeer`, `PublishedIsChecked`, `BoundedCheckers` of `PoolManager` (the last for finitely many callers) |
| `CallTypeCorrect`, `ExecutedOnce` | `TypeOK`, `AtMostOnce` of `RpcCall`, whatever is cancelled, stopped or too big |
| `OwnReplies`, `IdleConnectionsAreQuiet`, `PathImplementsRpc` | `ReadsOwnReply`, `IdleIsQuiet` and `ImplementsRpc`, as long as `Kept` holds |
| `PatientCalls` | the same three of `Spec` alone, if nobody cancels and no response is too big |
| `CallsKeepTheLease` | `RpcCall` deals with connections as `ConnLease` allows |
| `ClientTypeCorrect`, `PathsAreOwn`, `AloneReachesTarget` | `TypeOK`, `OwnPath`, `OwnTargetAlone` of `ClientCall`, whatever context interceptors use |
| `ExchangeTypes`, `FramesFit`, `AnswersAreOwn` | `TypeOK`, `FrameFits`, `OwnAnswer` of `Exchange`, for any callers, calls and lengths |
| `ApartInRange` | `InRange` of `Balancers` until two calls overlap, for any callers and lists of any length |
| `ApartTakesTurns` | `TakesTurns` of `Balancers`, for any callers and lists of any length |
| `WeightsAreShares`, `NodesAreKnown` | `Share`, `Known` of `Balancers`, for lists of any length and weights that are not negative |
| `ServerTypeCorrect`, `HandlersAreReady`, `ClosedServersDrain` | `TypeOK`, `HandlerReady`, `AtMostOneMore` of `Server`, wherever servers run |
| `RequestsReachTheirService` | `RightService`, if every server has its process and no name begins with another |
| `ListenersAreFound` | `ListenersAreListed`, if every server has its process |

*ConnPool.* None of ownership, absence of leaks and usability is inductive alone: that a
received connection is not held follows from its being buffered once, that a buffered one is open
from `Put` being reached only with an unmarked connection, and that from the flag never being behind the
socket. `PoolInv` is their conjunction with `TypeOK`. What `Close` does to field and channel does not
disturb it, which is why the theorems hold with any number of closers. The refinement maps a connection's owner to the
pool when it is in the channel, to the goroutine that holds it, or to nobody; every action
is then one step of the lease of one connection or a stutter.

`Locked` says what `c.mu` is for: between its test and its send a goroutine in `Put` has a read lock, so that a
closer past `CloseLock` is alone; it gives the two properties about `Close`. `Counted` is the argument about capacity:
the connections in the channel and the goroutines that hold or dial one are never more than callers and checker, or than the
pool began with. It counts goroutines, not connections: a step of `Get` moves a connection from
the channel to a hand (`CountMoves`, `BusyMoves`). `OpenCount` then maps open sockets onto places. With `RoomForAll` the theorem says
when the recursion of finding 1 cannot come: the code does not ask for such a capacity, `pool_full` shows what happens without.

*RpcCall.* `Inv` follows a call through both ends. It is in one place (`OnePlace`): not written, in one stream of requests, in
the hands of one server goroutine, or executed; `Unused`, `Started` and `Fresh` tie the streams of a connection to
who has leased it, since the pool hands out a connection again. That is enough for at most one execution, whatever is cancelled. That
the answer read is one's own needs that a connection given back carries nothing, which is false once a call ends
between write and read. `Kept` excludes just this: no context is done when `isDone` looks at it, right after the write, and no response is too big to be read.
`OwnReplies` and its companions are theorems about all behaviours that keep `Kept`, not only those of a configuration without cancellation;
`call_cancel` is a behaviour that does not. Under it `PathInv` holds: a leased connection carries the request or the response of its
caller's call and nothing else (`Path`), an idle one nothing (`IdleIsQuiet`).

*ClientCall.* The properties speak of the innermost call; the invariant speaks of all calls in progress, since the outer one is
innermost again later. `Own` is about a frame alone. `Reserved` follows the target of a call that has the client for itself from
`Invoke` through both sets of options to the address. `Single` makes it inductive: there is at most one such call,
it is innermost, and the other goroutines are in none, so that every step that writes the options is its own or ends the privilege.
`Lends` is what `OwnPath` needs: a call that shares the stream of the outer one is the innermost, and the outer one has lent its context, so
that writing the inner path disturbs no call the property is about.

*PoolManager.* A caller's pool serves the address it wants, and is checked before it is published
(`MineServes`); what is idle in a pool is open to its address (`PeersOK`); a connection is in one place (`OnePlace`).
The bound on checkers counts: a caller that makes a second pool for an address had found the table empty,
so the pools of an address are matched one to one with callers.

*Exchange.* The buffer is 1024 bytes doubled as often as `counter` says (`Doubled`), and no frame that is being read
was one to refuse (`Accepted`): a buffer that may not grow any more holds them all. For answers, `Known` says that nothing under
way is about a call not yet made, so that a caller that starts a call has no answer waiting; `Undisturbed` says that a goroutine
that works for the call its caller waits in, and was not disturbed, finds its request in the buffer and has computed its response from it.
Lost, repeated and late datagrams are all covered by a request's being taken out of, or left in, a set.

*RoundRobin.* The indexes of a round are those from 1 to the last one, and `length` equals the length of the
list from `Refresh` on. Two fields and a history variable, place by place, for the one caller that is in `Balance`: as long as
`overlapped` is false there is at most one (`Alone`), and when there is none the picker is as `Quiet` says, whoever comes next.

*WeightedRoundRobin.* `Round` is the account of a picker. After `k` picks of a round, `r` of them
answered by a node of weight `w`, that node's current weight is `w(k + 1) - rt`, where `t` is the total (`Balanced`); and the
current weights add up to `t` (the `k + 1` is there because they start at the weights). In the next pick, a node that has had its share
is at most as heavy as `w` once the round has one pick left, and not positive before (`Spent`); a node that has not is then heavier than `t` (`Due`), and
before it some node is positive because the sum is. So the node answered is one with `r < w` (`PicksDue`), and when every
`r` is `w` the current weights are the weights again. The sums need induction along the list. The library's
induction theorems take an operator as a parameter, so `Induction` and `Along` state it for a set of numbers instead, from
the well-foundedness of inclusion among finite sets; and `Running` is a recursive function, which the prover can
unfold once it is shown to exist (`RunningSum`). `Listed` carries `Known`: what a picker holds was listed when it was last filled.
`BalancersProofs` shows that the balancer in use takes the steps of `WeightedRoundRobin`, and cites its theorems. The weights are
naturals, not Go's `int`: neither a negative weight nor a total beyond the width of an `int` is covered.

*Server.* `SetUp` says how far a server has come when its service has a context, when it is
in the transport, when it listens. `Draining` says that a connection that has executed a request
since the close does not come to read another. For `RightService`, `Own` describes what a server
alone in its process serves and puts into the registry (`Final` is the last registrable service of its
program, the same in every life), and `Routed` and `InRegistry` carry that to entries, to requests
under way and to executors.

Only model-checked: liveness (`DueIsPurged`, `CloseCompletes`, `LosersDrain`, `CallReturns`), which is beyond the
prover's reach, as `ENABLED` is. Every invariant and action property that a passing run checks is a theorem, some under the hypothesis the table
gives. No module declares a recursive operator.

## What is not modelled

- Tracing and metadata: values in contexts that calls do not share. `Server` takes the tracing plugin as one
  that is initialised or fails.
- The pool of protobuf buffers: each buffer has one user at a time.
- Random and consistent hash balancers: any node, and always nil. `Server` takes any listed node.
- The layout of headers, and serializations but for what can become of a value.
- Server streams, which nobody makes; return codes and path helpers; generated
  messages; the examples.
- In modelled components: the registry of pools by name, which error ends a call before it is sent (`Return` is all of them), what server interceptors do besides returning an error, `Handle`'s timeout context, a
  response over TCP that the client refuses in `Exchange` (`RpcCall` has it), and the values methods return.
- A server that starts again with another program at an address that consul still lists for the old one: an
  address runs the same program in every life.
- Two calls of the weighted balancer at a time, and the serialization of requests and responses, which a call looks up once.

## The plan

1. Done: the pool and its lease, the table of pools, the call end to end over TCP and UDP, the framer, what the client learns
   of its request, the client's shared state, the balancers, the server and discovery; theorems about all of them.
2. Next to model: several servers in one process with a transport they share; the context of a trace
   through the interceptors of both ends.
3. Next to prove: an abstract weighted balancer, with whole rounds as its steps, that the picker implements; so that
   `Share` follows from a specification without current weights.
