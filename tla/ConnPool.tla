------------------------------ MODULE ConnPool ------------------------------
(***************************************************************************)
(* One sonConnPool of pool/connpool: the idle connections of one address,  *)
(* the goroutines that borrow and return them, the background checker and  *)
(* the callers of sonConnPool.Close.                                       *)
(*                                                                         *)
(* A step is a maximal piece of code whose effect other goroutines see at  *)
(* one point: an evaluation of the unprotected field c.conns, a channel    *)
(* operation, the acquisition of c.mu, a system call on the socket.  The   *)
(* lock PoolConn.mu only matters where the goroutine that holds it asks    *)
(* for it again, see HoldsConnLock.                                        *)
(***************************************************************************)
EXTENDS Naturals, Sequences, FiniteSets

CONSTANTS
  User,        \* goroutines that call Get and then Close the connection
  Checker,     \* the goroutine started by RegisterChecker
  Closer,      \* goroutines that call sonConnPool.Close
  Conn,        \* identities of connections, reused once a connection is gone
  MaxCap,      \* capacity of the channel c.conns
  InitialCap,  \* connections dialled by the constructor
  StackDepth,  \* nested Put calls a goroutine stack has room for
  None

Worker == User \cup {Checker}

ASSUME ConnPoolAssumption ==
  /\ MaxCap \in Nat
  /\ InitialCap \in Nat /\ InitialCap <= MaxCap
  /\ StackDepth \in Nat \ {0}
  /\ Checker \notin User
  /\ Closer \cap Worker = {}
  /\ None \notin Conn \cup Closer \cup Worker
  /\ "pool" \notin Worker \cup {None}

VARIABLES
  conns,     \* the connections buffered in the channel, oldest first
  chan,      \* "live"; "nil": the field is nil; "closed": the channel is closed too
  writer,    \* the goroutine inside c.mu.Lock, which new readers wait behind
  depth,     \* read locks on c.mu a goroutine holds: its nested calls of Put
  pc,
  hand,      \* the connection a goroutine holds
  left,      \* iterations the checker has left in this round
  sock,      \* the socket: "closed", "up", "data": up with bytes to read,
             \* "fin": at end of stream, "rst": reset
  unusable,  \* PoolConn.unusable
  age,       \* "young"; "old": created idleTimeout ago
  panic      \* why the process died, "no" while it runs

connVars == <<sock, unusable, age>>
vars == <<conns, chan, writer, depth, pc, hand, left, connVars, panic>>

UserPC    == {"idle", "recv", "dial", "dialing", "use"}
CheckerPC == {"sleep", "loop", "recv", "check"}
PutPC     == {"put", "send", "stuck"}
CloserPC  == {"idle", "lock", "close", "drain", "done"}

Idle == {conns[i] : i \in 1..Len(conns)}
Held == {hand[w] : w \in Worker} \ {None}
OpenConns == {c \in Conn : sock[c] # "closed"}

\* What Checker answers no to: now is past t + idleTimeout, or isConnAlive reads
\* a byte or the end of the stream.  A read that times out, or fails in another
\* way, finds the connection alive.
DueOnAnyError(c) == TRUE
DueByAgeOnly(c) == age[c] # "young"
Due(c) == age[c] # "young" \/ sock[c] \in {"data", "fin"}

\* What PoolConn.Close asks before it gives the connection back.
AlwaysReusable(c) == TRUE
Reusable(c) == ~unusable[c]

\* The channel can take one more connection.
HasRoomOffByOne == Len(conns) < MaxCap - 1
HasRoom == Len(conns) < MaxCap

\* What a receive leaves in the channel.
Peek == conns
Received == Tail(conns)

\* len(c.conns) iterations have been made.
NeverOver == FALSE
RoundOver == left = 0

\* Lock waits for the readers that came before it.
NoWait == TRUE
NoReader == \A w \in Worker : depth[w] = 0

\* MarkUnusable followed by the close of the socket.
MarkOnly(c) ==
  /\ unusable' = [unusable EXCEPT ![c] = TRUE]
  /\ UNCHANGED <<sock, age>>
Discard(c) ==
  /\ unusable' = [unusable EXCEPT ![c] = TRUE]
  /\ sock' = [sock EXCEPT ![c] = "closed"]
  /\ age' = [age EXCEPT ![c] = "young"]

\* A worker is inside PoolConn.Close, whose RLock on PoolConn.mu is released
\* only when Put returns.  The checker's own call of Put is not.
HoldsConnLock(w) == w \in User \/ depth[w] > 0

Goto(w, label) == pc' = [pc EXCEPT ![w] = label]

\* A worker that is through with Put or Close continues its loop.
Rest(w) == IF w = Checker THEN "loop" ELSE "idle"
-----------------------------------------------------------------------------
(* NewSonConnPool has dialled and buffered InitialCap connections. *)

Init ==
  /\ conns \in {s \in [1..InitialCap -> Conn] :
                  \A i, j \in 1..InitialCap : s[i] = s[j] => i = j}
  /\ chan = "live"
  /\ writer = None
  /\ depth = [w \in Worker |-> 0]
  /\ pc = [p \in Worker \cup Closer |-> IF p = Checker THEN "sleep" ELSE "idle"]
  /\ hand = [w \in Worker |-> None]
  /\ left = 0
  /\ sock = [c \in Conn |-> IF c \in Idle THEN "up" ELSE "closed"]
  /\ unusable = [c \in Conn |-> FALSE]
  /\ age = [c \in Conn |-> "young"]
  /\ panic = "no"
-----------------------------------------------------------------------------
(* sonConnPool.Get *)

\* c.conns is not nil, neither where it is tested nor where the select
\* evaluates it.  A Close between the two leads to the same nil Dial as a Close
\* after the receive, see GetDial.
GetStartDials(u) ==
  /\ pc[u] = "idle" /\ chan = "live"
  /\ Goto(u, "dial")
  /\ UNCHANGED <<conns, chan, writer, depth, hand, left, connVars, panic>>
GetStart(u) ==
  /\ pc[u] = "idle" /\ chan = "live"
  /\ Goto(u, "recv")
  /\ UNCHANGED <<conns, chan, writer, depth, hand, left, connVars, panic>>

\* The receive finds a connection, a closed and empty channel, or nothing.
GetRecv(u) ==
  /\ pc[u] = "recv"
  /\ IF conns # <<>>
     THEN /\ conns' = Received
          /\ IF unusable[Head(conns)]
             THEN Goto(u, "idle") /\ UNCHANGED hand
             ELSE Goto(u, "use") /\ hand' = [hand EXCEPT ![u] = Head(conns)]
     ELSE /\ Goto(u, IF chan = "closed" THEN "idle" ELSE "dial")
          /\ UNCHANGED <<conns, hand>>
  /\ UNCHANGED <<chan, writer, depth, left, connVars, panic>>

\* c.Dial is evaluated without the lock; Close sets it to nil.
GetDial(u) ==
  /\ pc[u] = "dial"
  /\ IF chan = "live"
     THEN Goto(u, "dialing") /\ UNCHANGED panic
     ELSE panic' = "nil Dial" /\ UNCHANGED pc
  /\ UNCHANGED <<conns, chan, writer, depth, hand, left, connVars>>

\* Dial returns a connection, or an error: the context is done or the dialling
\* failed.
Dialled(u) ==
  /\ pc[u] = "dialing"
  /\ \/ /\ \E c \in Conn \ (OpenConns \cup Idle \cup Held) :
             /\ hand' = [hand EXCEPT ![u] = c]
             /\ sock' = [sock EXCEPT ![c] = "up"]
             /\ unusable' = [unusable EXCEPT ![c] = FALSE]
             /\ age' = [age EXCEPT ![c] = "young"]
        /\ Goto(u, "use")
     \/ Goto(u, "idle") /\ UNCHANGED <<hand, connVars>>
  /\ UNCHANGED <<conns, chan, writer, depth, left, panic>>
-----------------------------------------------------------------------------
(* PoolConn *)

\* Read or Write fails: the connection is marked and its socket closed.
UseErr(u) ==
  /\ pc[u] = "use"
  /\ LET c == hand[u] IN
       /\ ~unusable[c] /\ sock[c] \in {"fin", "rst"}
       /\ Discard(c)
  /\ UNCHANGED <<conns, chan, writer, depth, pc, hand, left, panic>>

\* Read returns what has arrived.
UseRead(u) ==
  /\ pc[u] = "use"
  /\ LET c == hand[u] IN
       /\ ~unusable[c] /\ sock[c] = "data"
       /\ sock' = [sock EXCEPT ![c] = "up"]
  /\ UNCHANGED <<conns, chan, writer, depth, pc, hand, left, unusable, age, panic>>

\* PoolConn.Close: an unusable connection's socket is closed (again), a usable
\* one goes to Put.
CloseConn(u) ==
  /\ pc[u] = "use"
  /\ IF Reusable(hand[u])
     THEN Goto(u, "put") /\ UNCHANGED <<hand, sock>>
     ELSE /\ sock' = [sock EXCEPT ![hand[u]] = "closed"]
          /\ hand' = [hand EXCEPT ![u] = None]
          /\ Goto(u, "idle")
  /\ UNCHANGED <<conns, chan, writer, depth, left, unusable, age, panic>>

(* sonConnPool.Put *)

\* c.mu.RLock, which waits behind a waiting writer, and the test of c.conns.
\* In a closed pool MarkUnusable needs PoolConn.mu for writing: a caller inside
\* PoolConn.Close holds it for reading and blocks on itself.
PutStart(w) ==
  /\ pc[w] = "put" /\ writer = None
  /\ \/ /\ chan = "live" \/ HoldsConnLock(w)
        /\ Goto(w, IF chan = "live" THEN "send" ELSE "stuck")
        /\ depth' = [depth EXCEPT ![w] = @ + 1]
        /\ UNCHANGED <<hand, connVars>>
     \/ /\ chan # "live" /\ ~HoldsConnLock(w)
        /\ Discard(hand[w])
        /\ hand' = [hand EXCEPT ![w] = None]
        /\ Goto(w, Rest(w))
        /\ UNCHANGED depth
  /\ UNCHANGED <<conns, chan, writer, left, panic>>

\* The send.  On a full channel Put calls PoolConn.Close, which, the connection
\* being usable, calls Put again.
PutSend(w) ==
  /\ pc[w] = "send"
  /\ \/ /\ chan # "closed" /\ HasRoom
        /\ conns' = Append(conns, hand[w])
        /\ depth' = [depth EXCEPT ![w] = 0]
        /\ hand' = [hand EXCEPT ![w] = None]
        /\ Goto(w, Rest(w))
        /\ UNCHANGED panic
     \/ /\ chan # "closed" /\ ~HasRoom /\ depth[w] < StackDepth
        /\ Goto(w, "put")
        /\ UNCHANGED <<conns, depth, hand, panic>>
     \/ /\ panic' = IF chan = "closed" THEN "send on closed" ELSE "stack overflow"
        /\ chan = "closed" \/ (~HasRoom /\ depth[w] = StackDepth)
        /\ UNCHANGED <<conns, depth, hand, pc>>
  /\ UNCHANGED <<chan, writer, left, connVars>>
-----------------------------------------------------------------------------
(* RegisterChecker's goroutine and Checker *)

\* After the sleep: length := len(c.conns), which is 0 for a nil channel.
CheckLen ==
  /\ pc[Checker] = "sleep"
  /\ left' = IF chan = "live" THEN Len(conns) ELSE 0
  /\ Goto(Checker, "loop")
  /\ UNCHANGED <<conns, chan, writer, depth, hand, connVars, panic>>

\* The loop's test, and the select's evaluation of c.conns.
CheckSelect ==
  /\ pc[Checker] = "loop"
  /\ IF RoundOver
     THEN Goto(Checker, "sleep") /\ UNCHANGED left
     ELSE /\ left' = left - 1
          /\ Goto(Checker, IF chan = "live" THEN "recv" ELSE "loop")
  /\ UNCHANGED <<conns, chan, writer, depth, hand, connVars, panic>>

\* The receive.  On a closed and empty channel it yields a nil connection,
\* which Checker dereferences.
CheckRecv ==
  /\ pc[Checker] = "recv"
  /\ IF conns # <<>>
     THEN /\ conns' = Received
          /\ hand' = [hand EXCEPT ![Checker] = Head(conns)]
          /\ Goto(Checker, "check")
          /\ UNCHANGED panic
     ELSE /\ IF chan = "closed"
             THEN panic' = "nil conn" /\ UNCHANGED pc
             ELSE Goto(Checker, "loop") /\ UNCHANGED panic
          /\ UNCHANGED <<conns, hand>>
  /\ UNCHANGED <<chan, writer, depth, left, connVars>>

\* Checker, with isConnAlive.  The reset it takes for a sign of life is reported
\* once; the next read finds the end of the stream.
CheckConn ==
  /\ pc[Checker] = "check"
  /\ LET c == hand[Checker] IN
       IF Due(c)
       THEN /\ Discard(c)
            /\ hand' = [hand EXCEPT ![Checker] = None]
            /\ Goto(Checker, "loop")
       ELSE /\ sock' = [sock EXCEPT ![c] = IF @ = "rst" THEN "fin" ELSE @]
            /\ Goto(Checker, "put")
            /\ UNCHANGED <<unusable, age, hand>>
  /\ UNCHANGED <<conns, chan, writer, depth, left, panic>>
-----------------------------------------------------------------------------
(* sonConnPool.Close *)

\* c.mu.Lock announces the writer; another writer waits for it.
CloseLock(k) ==
  /\ pc[k] = "idle"
  /\ writer = None
  /\ writer' = k
  /\ Goto(k, "lock")
  /\ UNCHANGED <<conns, chan, depth, hand, left, connVars, panic>>

\* The readers are gone: conns and Dial become nil and the lock is released.
CloseNil(k) ==
  /\ pc[k] = "lock"
  /\ NoReader
  /\ chan' = IF chan = "live" THEN "nil" ELSE chan
  /\ Goto(k, IF chan = "live" THEN "close" ELSE "done")
  /\ writer' = None
  /\ UNCHANGED <<conns, depth, hand, left, connVars, panic>>

CloseChan(k) ==
  /\ pc[k] = "close"
  /\ chan' = "closed"
  /\ Goto(k, "drain")
  /\ UNCHANGED <<conns, writer, depth, hand, left, connVars, panic>>

CloseForgets(k) ==
  /\ pc[k] = "drain"
  /\ Goto(k, "done")
  /\ UNCHANGED <<conns, chan, writer, depth, hand, left, connVars, panic>>

\* One iteration of the loop that empties the closed channel.
CloseDrain(k) ==
  /\ pc[k] = "drain"
  /\ IF conns # <<>>
     THEN /\ conns' = Received
          /\ Discard(Head(conns))
          /\ UNCHANGED pc
     ELSE Goto(k, "done") /\ UNCHANGED <<conns, connVars>>
  /\ UNCHANGED <<chan, writer, depth, hand, left, panic>>
-----------------------------------------------------------------------------
(* The server and the clock *)

\* A response arrives, or one nobody waits for any more.
PeerSends(c) ==
  /\ sock[c] = "up"
  /\ sock' = [sock EXCEPT ![c] = "data"]
  /\ UNCHANGED <<conns, chan, writer, depth, pc, hand, left, unusable, age, panic>>

\* The end of the stream is only seen behind the bytes that are left to read.
PeerGone(c) ==
  /\ \/ sock[c] = "up" /\ \E s \in {"fin", "rst"} : sock' = [sock EXCEPT ![c] = s]
     \/ sock[c] = "data" /\ sock' = [sock EXCEPT ![c] = "rst"]
  /\ UNCHANGED <<conns, chan, writer, depth, pc, hand, left, unusable, age, panic>>

\* idleTimeout has passed since wrapConn, which alone sets PoolConn.t: using a
\* connection does not make it younger.
AgeOut(c) ==
  /\ c \in OpenConns /\ age[c] = "young"
  /\ age' = [age EXCEPT ![c] = "old"]
  /\ UNCHANGED <<conns, chan, writer, depth, pc, hand, left, sock, unusable, panic>>
-----------------------------------------------------------------------------
PutStep(w) == PutStart(w) \/ PutSend(w)

UserStep(u) ==
  \/ GetStart(u) \/ GetRecv(u) \/ GetDial(u) \/ Dialled(u)
  \/ UseRead(u) \/ UseErr(u) \/ CloseConn(u) \/ PutStep(u)

CheckerStep == CheckLen \/ CheckSelect \/ CheckRecv \/ CheckConn \/ PutStep(Checker)

CloserStep(k) == CloseLock(k) \/ CloseNil(k) \/ CloseChan(k) \/ CloseDrain(k)

Environment == \E c \in Conn : PeerSends(c) \/ PeerGone(c) \/ AgeOut(c)

\* A panic in any goroutine ends the process.
Next ==
  /\ panic = "no"
  /\ \/ \E u \in User : UserStep(u)
     \/ CheckerStep
     \/ \E k \in Closer : CloserStep(k)
     \/ Environment

Spec == Init /\ [][Next]_vars

\* The Go scheduler runs every goroutine that can run.  Nobody is obliged to
\* call Get or the pool's Close, and a call may keep its connection for ever; a
\* call whose connection has failed returns, and its deferred Close runs.
ReturnStep(u) ==
  /\ panic = "no"
  /\ \/ GetRecv(u) \/ GetDial(u) \/ Dialled(u)
     \/ pc[u] = "use" /\ unusable[hand[u]] /\ CloseConn(u)
     \/ PutStep(u)

Fairness ==
  /\ \A u \in User : WF_vars(ReturnStep(u))
  /\ WF_vars(panic = "no" /\ CheckerStep)
  /\ \A k \in Closer : WF_vars(panic = "no" /\ pc[k] # "idle" /\ CloserStep(k))

FairSpec == Spec /\ Fairness
-----------------------------------------------------------------------------
(* Properties *)

ChannelOK ==
  /\ conns \in Seq(Conn)
  /\ chan \in {"live", "nil", "closed"}
  /\ writer \in Closer \cup {None}
  /\ depth \in [Worker -> Nat]
  /\ left \in Nat
  /\ panic \in {"no", "nil Dial", "nil conn", "send on closed", "stack overflow"}

LabelsOK ==
  /\ pc \in [Worker \cup Closer -> UserPC \cup CheckerPC \cup PutPC \cup CloserPC]
  /\ \A u \in User : pc[u] \in UserPC \cup PutPC
  /\ pc[Checker] \in CheckerPC \cup PutPC
  /\ \A k \in Closer : pc[k] \in CloserPC

HandsOK ==
  /\ hand \in [Worker -> Conn \cup {None}]
  /\ \A w \in Worker : hand[w] # None <=> pc[w] \in {"use", "check"} \cup PutPC

SocketsOK ==
  /\ sock \in [Conn -> {"closed", "up", "data", "fin", "rst"}]
  /\ unusable \in [Conn -> BOOLEAN]
  /\ age \in [Conn -> {"young", "old"}]

\* The variables keep their types, and a worker holds a connection exactly
\* while it uses, checks or returns one.
TypeOK == ChannelOK /\ LabelsOK /\ HandsOK /\ SocketsOK

\* Get, Put and the checker hand every connection to one goroutine at a time:
\* it is buffered at most once, and never while somebody holds it.  Two calls
\* on one connection would read each other's responses.
ExclusiveOwner ==
  /\ \A i, j \in 1..Len(conns) : conns[i] = conns[j] => i = j
  /\ \A w \in Worker : hand[w] \notin Idle
  /\ \A v, w \in Worker : hand[v] = hand[w] /\ hand[v] # None => v = w

\* No path through Get, Put, Checker or Close forgets an open socket: a
\* connection that is open is buffered or in the hands of a goroutine.
NoLeak == OpenConns \subseteq Idle \cup Held

\* What Get receives can be used: its test of pc.unusable never fires, because
\* every path that marks a connection also keeps it out of the channel.
IdleUsable == \A c \in Idle : sock[c] # "closed" /\ ~unusable[c]

\* A connection on its way back into the channel is open and unmarked, and one
\* in use is marked exactly when its socket is closed: the flag PoolConn.Close
\* goes by, set in a different step than the close, is never behind the socket.
ReturnsUsable ==
  \A w \in Worker :
    /\ pc[w] \in {"check"} \cup PutPC => sock[hand[w]] # "closed" /\ ~unusable[hand[w]]
    /\ pc[w] = "use" => (unusable[hand[w]] <=> sock[hand[w]] = "closed")

\* No goroutine meets a connection that a call, the checker or Close has done away
\* with: Get need not discard what it receives, and Put never buffers a dead one.
Usable == IdleUsable /\ ReturnsUsable

\* The unbounded dialling in Get is bounded by the callers: a pool that is not
\* closed never has more sockets than callers and checker can hold at once.
CapacityBound ==
  LET most == Cardinality(User) + 1 IN
    Cardinality(OpenConns) <= IF InitialCap > most THEN InitialCap ELSE most

\* With a capacity above that bound Put always finds room, so that no call of
\* Get, Put or the checker takes the process down while the pool is open.
NoPanic == chan = "live" => panic = "no"

\* While the pool is in use a connection is only torn down for a reason: it is
\* past its time, or its peer is gone.
NeverClosesHealthy ==
  [][\A c \in Conn : sock[c] = "up" /\ sock'[c] = "closed" =>
       age[c] # "young" \/ chan # "live"]_vars

\* The checker gets to every buffered connection that is past its time, has
\* unread bytes or has lost its peer: it is closed, unless a caller takes it out
\* of the channel first, or the pool is closed.
DueIsPurged ==
  \A c \in Conn :
    (c \in Idle /\ (age[c] # "young" \/ sock[c] \in {"data", "fin"}))
      ~> (sock[c] = "closed" \/ (\E u \in User : hand[u] = c) \/ chan # "live")

\* The Close that finds the pool open gets through: it is not kept from the lock
\* by readers that ask for it again, nor from emptying the channel by callers that
\* wait for ever in a closed pool.  (A later Close waits for those.)
CloseCompletes ==
  \A k \in Closer :
    pc[k] = "lock" /\ chan = "live" ~> pc[k] = "done" \/ panic # "no"

\* Put never sends on the channel that Close has closed: it tests and sends
\* under c.mu, which Close takes before it makes c.conns nil.
NoSendOnClosed == panic # "send on closed"

\* When Close has emptied the channel nobody puts a connection back into it:
\* the open sockets that are left belong to calls still under way.
ClosedPoolStaysEmpty ==
  chan = "closed" /\ (\A k \in Closer : pc[k] # "drain") => conns = <<>>

\* The pool as ConnLease describes it: the same connections change hands, and
\* channel, locks, checker and Close are its business.  It says of every step
\* what ExclusiveOwner, NoLeak and IdleUsable say of every state.
Pool == "pool"
OwnerOf(c) ==
  IF c \in Idle THEN Pool
  ELSE IF \E w \in Worker : hand[w] = c THEN CHOOSE w \in Worker : hand[w] = c
  ELSE None
Lease == INSTANCE ConnLease WITH
  Holder <- Worker,
  Nobody <- None,
  owner <- [c \in Conn |-> OwnerOf(c)],
  open <- [c \in Conn |-> sock[c] # "closed"]
ImplementsLease == Lease!LeaseSpec

\* Put on a full channel closes the connection and returns, as its comment says.
FullPoolSafe == panic # "stack overflow"
=============================================================================
