------------------------------ MODULE RpcCall -------------------------------
(***************************************************************************)
(* A remote call over TCP from end to end: SendTcpReq of the client        *)
(* transport on connections leased from the pool, and serve, handleConn,   *)
(* handle and write of the server transport at the other end.              *)
(*                                                                         *)
(* A connection is two streams of frames.  A request is named by its call; *)
(* what the client finds in its stream is a frame it can read or one that  *)
(* is too big, of which it reads the header only.  Nothing in a frame says *)
(* which request it answers: FrameHeader.StreamID is never set.            *)
(***************************************************************************)
EXTENDS Naturals, Sequences

CONSTANTS
  Caller,     \* goroutines that call Invoke
  MaxCalls,   \* calls each of them makes
  Conn,       \* identities of connections
  CanCancel,  \* the context of a call may be cancelled or reach its deadline
  CanStop,    \* the server's context may be cancelled
  Reply,      \* what handle makes of a request: "frame"; "big": a frame beyond
              \* MaxPayloadLength; "nothing": it returns no bytes
  Pool, Nobody, None

ASSUME RpcCallAssumption ==
  /\ MaxCalls \in Nat
  /\ CanCancel \in BOOLEAN /\ CanStop \in BOOLEAN
  /\ Reply \subseteq {"frame", "big", "nothing"} /\ Reply # {}
  /\ Pool # Nobody /\ {Pool, Nobody} \cap Caller = {}
  /\ None \notin Caller \cup Conn /\ {None} \cap (Caller \X Nat) = {}

Call == Caller \X (1..MaxCalls)

VARIABLES
  owner, open,  \* see ConnLease; open: the client's socket
  pc,           \* of a caller
  number,       \* calls it has started
  cancelled,    \* its context is done
  outcome,      \* "none", "ok", "error"
  parsed,       \* the call whose bytes ReadFrame last parsed for it
  up, down,     \* frames under way to the server, to the client
  srv,          \* the server's goroutine: "none", "backlog", "top", "read",
                \* "handle", "write", "closed"
  job,          \* the request it works on
  rsp,          \* what handle returned for it
  acceptor,     \* serve: "top", "accept", "gone"
  stopped,      \* the server's context is cancelled
  executed      \* how often a call has been executed

client == <<pc, number, cancelled, outcome, parsed>>
server == <<srv, job, rsp, acceptor, stopped, executed>>
lease == <<owner, open>>
streams == <<up, down>>
vars == <<lease, client, streams, server>>

Lease == INSTANCE ConnLease WITH Holder <- Caller

Current(u) == <<u, number[u]>>
Has(u, c) == owner[c] = u
Goto(u, label) == pc' = [pc EXCEPT ![u] = label]
-----------------------------------------------------------------------------
Init ==
  /\ owner = [c \in Conn |-> Nobody]
  /\ open = [c \in Conn |-> FALSE]
  /\ pc = [u \in Caller |-> "idle"]
  /\ number = [u \in Caller |-> 0]
  /\ cancelled = [u \in Caller |-> FALSE]
  /\ outcome = [u \in Caller |-> "none"]
  /\ parsed = [u \in Caller |-> None]
  /\ up = [c \in Conn |-> <<>>]
  /\ down = [c \in Conn |-> <<>>]
  /\ srv = [c \in Conn |-> "none"]
  /\ job = [c \in Conn |-> None]
  /\ rsp = [c \in Conn |-> "nothing"]
  /\ acceptor = "top"
  /\ stopped = FALSE
  /\ executed = [k \in Call |-> 0]
-----------------------------------------------------------------------------
(* The client: Invoke and SendTcpReq *)

Invoke(u) ==
  /\ pc[u] = "idle" /\ number[u] < MaxCalls
  /\ number' = [number EXCEPT ![u] = @ + 1]
  /\ cancelled' = [cancelled EXCEPT ![u] = FALSE]
  /\ Goto(u, "get")
  /\ UNCHANGED <<lease, streams, server, outcome, parsed>>

\* The caller cancels its context, or the deadline it has set passes.  The
\* context Invoke derives with opts.timeout is dropped and never asked.
CtxDone(u) ==
  /\ CanCancel /\ pc[u] # "idle" /\ ~cancelled[u]
  /\ cancelled' = [cancelled EXCEPT ![u] = TRUE]
  /\ UNCHANGED <<lease, streams, server, pc, number, outcome, parsed>>

\* Pool.Get finds an idle connection; only dialling looks at the context.
GetIdle(u) ==
  /\ pc[u] = "get"
  /\ \E c \in Conn : Lease!Borrow(u, c)
  /\ Goto(u, "write")
  /\ UNCHANGED <<streams, server, number, cancelled, outcome, parsed>>

\* It finds none, or none that the checker is not just looking at, and dials.
\* The kernel completes the connection whether serve still accepts or not: the
\* listener is never closed.
GetDial(u) ==
  /\ pc[u] = "get"
  /\ \/ /\ ~cancelled[u]
        /\ \E c \in Conn :
             /\ srv[c] = "none" /\ Lease!Create(u, c)
             /\ srv' = [srv EXCEPT ![c] = "backlog"]
        /\ Goto(u, "write")
        /\ UNCHANGED outcome
     \/ /\ outcome' = [outcome EXCEPT ![u] = "error"]
        /\ Goto(u, "close")
        /\ UNCHANGED <<lease, srv>>
  /\ UNCHANGED <<streams, job, rsp, acceptor, stopped, executed, number, cancelled, parsed>>

\* net.Conn.Write takes the whole request or fails; the first write after the
\* server has closed may do either.
Write(u) ==
  /\ pc[u] = "write"
  /\ \E c \in Conn :
       /\ Has(u, c)
       /\ \/ /\ up' = [up EXCEPT ![c] = Append(@, Current(u))]
             /\ Goto(u, "check")
             /\ UNCHANGED <<lease, outcome>>
          \/ /\ srv[c] = "closed"
             /\ Lease!Break(u, c)
             /\ outcome' = [outcome EXCEPT ![u] = "error"]
             /\ Goto(u, "close")
             /\ UNCHANGED up
  /\ UNCHANGED <<down, server, number, cancelled, parsed>>

\* isDone(ctx), after the write.  On the way out the deferred conn.Close finds
\* nothing wrong with the connection.
DoneInverted(u) == ~cancelled[u]
Done(u) == cancelled[u]
IsDone(u) ==
  /\ pc[u] = "check"
  /\ IF Done(u)
     THEN outcome' = [outcome EXCEPT ![u] = "error"] /\ Goto(u, "close")
     ELSE Goto(u, "read") /\ UNCHANGED outcome
  /\ UNCHANGED <<lease, streams, server, number, cancelled, parsed>>

\* ReadFrame.  A frame that is too long is an error of the call, not of the
\* connection: its body stays in the stream, and what is read of it later has
\* not the magic number.
Read(u) ==
  /\ pc[u] = "read"
  /\ \E c \in Conn :
       /\ Has(u, c) /\ down[c] # <<>>
       /\ LET frame == Head(down[c]) IN
            /\ parsed' = [parsed EXCEPT ![u] = frame.call]
            /\ IF frame.size = "frame"
               THEN /\ down' = [down EXCEPT ![c] = Tail(@)]
                    /\ outcome' = [outcome EXCEPT ![u] = "ok"]
               ELSE /\ outcome' = [outcome EXCEPT ![u] = "error"]
                    /\ UNCHANGED down
  /\ Goto(u, "close")
  /\ UNCHANGED <<lease, up, server, number, cancelled>>

\* The end of the stream, or a reset: the server closed with requests unread.
ReadErr(u) ==
  /\ pc[u] = "read"
  /\ \E c \in Conn :
       /\ Has(u, c) /\ srv[c] = "closed"
       /\ down[c] = <<>> \/ up[c] # <<>>
       /\ Lease!Break(u, c)
  /\ outcome' = [outcome EXCEPT ![u] = "error"]
  /\ Goto(u, "close")
  /\ UNCHANGED <<streams, server, number, cancelled, parsed>>

\* The deferred conn.Close, if there is a connection, and the return of
\* SendTcpReq.
GiveBack(u, c) == IF open[c] THEN Lease!Return(u, c) ELSE Lease!Retire(u, c)
Close(u) ==
  /\ pc[u] = "close"
  /\ \/ \E c \in Conn : Has(u, c) /\ GiveBack(u, c)
     \/ (\A c \in Conn : ~Has(u, c)) /\ UNCHANGED lease
  /\ outcome' = [outcome EXCEPT ![u] = "none"]
  /\ parsed' = [parsed EXCEPT ![u] = None]
  /\ Goto(u, "idle")
  /\ UNCHANGED <<streams, server, number, cancelled>>

\* The checker finds an idle connection past its time, with bytes to read, or
\* at the end of its stream.
Evict(c) ==
  /\ Lease!Retire(Pool, c)
  /\ UNCHANGED <<client, streams, server>>
-----------------------------------------------------------------------------
(* The server: serve and handleConn *)

\* serve looks at its context, and then blocks in AcceptTCP.
ServeTop ==
  /\ acceptor = "top"
  /\ acceptor' = IF stopped THEN "gone" ELSE "accept"
  /\ UNCHANGED <<lease, client, streams, srv, job, rsp, stopped, executed>>

AcceptOnce(c) ==
  /\ acceptor = "accept" /\ srv[c] = "backlog"
  /\ srv' = [srv EXCEPT ![c] = "top"]
  /\ acceptor' = "gone"
  /\ UNCHANGED <<lease, client, streams, job, rsp, stopped, executed>>
Accept(c) ==
  /\ acceptor = "accept" /\ srv[c] = "backlog"
  /\ srv' = [srv EXCEPT ![c] = "top"]
  /\ acceptor' = "top"
  /\ UNCHANGED <<lease, client, streams, job, rsp, stopped, executed>>

\* handleConn looks at its context, closes the connection or reads on.
ConnTop(c) ==
  /\ srv[c] = "top"
  /\ srv' = [srv EXCEPT ![c] = IF stopped THEN "closed" ELSE "read"]
  /\ UNCHANGED <<lease, client, streams, job, rsp, acceptor, stopped, executed>>

SameRequests(c) == up[c]
Requests(c) == Tail(up[c])
SrvRead(c) ==
  /\ srv[c] = "read" /\ up[c] # <<>>
  /\ job' = [job EXCEPT ![c] = Head(up[c])]
  /\ up' = [up EXCEPT ![c] = Requests(c)]
  /\ srv' = [srv EXCEPT ![c] = "handle"]
  /\ UNCHANGED <<lease, client, down, rsp, acceptor, stopped, executed>>

\* The client has closed: the end of the stream behind its requests, or a reset
\* because it had not read all that was sent to it.
SrvEnd(c) ==
  /\ srv[c] = "read" /\ ~open[c]
  /\ up[c] = <<>> \/ down[c] # <<>>
  /\ srv' = [srv EXCEPT ![c] = "closed"]
  /\ UNCHANGED <<lease, client, streams, job, rsp, acceptor, stopped, executed>>

\* handle: the service's method runs; an answer that cannot be marshalled
\* leaves rsp nil.
SrvHandle(c) ==
  /\ srv[c] = "handle"
  /\ executed' = [executed EXCEPT ![job[c]] = @ + 1]
  /\ \E r \in Reply : rsp' = [rsp EXCEPT ![c] = r]
  /\ srv' = [srv EXCEPT ![c] = "write"]
  /\ UNCHANGED <<lease, client, streams, job, acceptor, stopped>>

\* write: its error is logged and dropped, and so is the one of handle.  Nothing
\* arrives at a client that has closed, and a nil rsp is nothing to arrive.
AnswersAnyway(c) == open[c]
Answers(c) == open[c] /\ rsp[c] # "nothing"
SrvWrite(c) ==
  /\ srv[c] = "write"
  /\ down' = [down EXCEPT ![c] =
                IF Answers(c) THEN Append(@, [call |-> job[c], size |-> rsp[c]])
                ELSE @]
  /\ job' = [job EXCEPT ![c] = None]
  /\ srv' = [srv EXCEPT ![c] = "top"]
  /\ UNCHANGED <<lease, client, up, rsp, acceptor, stopped, executed>>

\* Server.Close cancels the context.
Stop ==
  /\ CanStop /\ ~stopped
  /\ stopped' = TRUE
  /\ UNCHANGED <<lease, client, streams, srv, job, rsp, acceptor, executed>>

\* Both ends are closed: the name of the connection can be used again.
Forget(c) ==
  /\ owner[c] = Nobody /\ srv[c] = "closed"
  /\ srv' = [srv EXCEPT ![c] = "none"]
  /\ up' = [up EXCEPT ![c] = <<>>]
  /\ down' = [down EXCEPT ![c] = <<>>]
  /\ UNCHANGED <<lease, client, job, rsp, acceptor, stopped, executed>>
-----------------------------------------------------------------------------
CallerStep(u) ==
  \/ GetIdle(u) \/ GetDial(u) \/ Write(u) \/ IsDone(u)
  \/ Read(u) \/ ReadErr(u) \/ Close(u)

ConnStep(c) == ConnTop(c) \/ SrvRead(c) \/ SrvEnd(c) \/ SrvHandle(c) \/ SrvWrite(c)

Next ==
  \/ \E u \in Caller : Invoke(u) \/ CtxDone(u) \/ CallerStep(u)
  \/ \E c \in Conn : Evict(c) \/ Accept(c) \/ ConnStep(c) \/ Forget(c)
  \/ ServeTop \/ Stop

Spec == Init /\ [][Next]_vars

\* Goroutines that can run do, and the methods of the service return.  A free
\* name for a new connection is not for ever out of reach.
Fairness ==
  /\ \A u \in Caller : WF_vars(CallerStep(u))
  /\ \A c \in Conn : WF_vars(Accept(c)) /\ WF_vars(ConnStep(c))
  /\ WF_vars(ServeTop)

FairSpec == Spec /\ Fairness
-----------------------------------------------------------------------------
(* Properties *)

TypeOK ==
  /\ owner \in [Conn -> Caller \cup {Pool, Nobody}]
  /\ open \in [Conn -> BOOLEAN]
  /\ pc \in [Caller -> {"idle", "get", "write", "check", "read", "close"}]
  /\ number \in [Caller -> 0..MaxCalls]
  /\ cancelled \in [Caller -> BOOLEAN]
  /\ outcome \in [Caller -> {"none", "ok", "error"}]
  /\ parsed \in [Caller -> Call \cup {None}]
  /\ up \in [Conn -> Seq(Call)]
  /\ down \in [Conn -> Seq([call : Call, size : {"frame", "big"}])]
  /\ srv \in [Conn -> {"none", "backlog", "top", "read", "handle", "write", "closed"}]
  /\ job \in [Conn -> Call \cup {None}]
  /\ rsp \in [Conn -> {"frame", "big", "nothing"}]
  /\ acceptor \in {"top", "accept", "gone"}
  /\ stopped \in BOOLEAN
  /\ executed \in [Call -> Nat]

\* The response a call gets is the response to its request, although nothing in
\* the protocol says so: connections carry one call at a time, and one that has
\* more to say is not reused.
ReadsOwnReply ==
  \A u \in Caller : parsed[u] \in {None, Current(u)}

\* An idle connection is quiet: no request and no response is under way on it,
\* and the server is not working for it.
IdleIsQuiet ==
  \A c \in Conn : owner[c] = Pool =>
    (srv[c] # "closed" => up[c] = <<>>) /\ down[c] = <<>> /\ job[c] = None

\* The server never executes a request twice, whatever is cancelled, evicted or
\* stopped.
AtMostOnce == \A k \in Call : executed[k] <= 1

\* The whole path implements the promise of a remote call.
phase == [u \in Caller |->
  IF pc[u] = "idle" THEN "idle"
  ELSE IF pc[u] # "close" THEN "pending"
  ELSE IF outcome[u] = "ok" THEN "replied" ELSE "failed"]
Abstract == INSTANCE Rpc WITH answer <- [u \in Caller |-> IF outcome[u] = "ok" THEN parsed[u] ELSE None]
ImplementsRpc == Abstract!RpcSpec

\* Every call returns.
CallReturns == \A u \in Caller : pc[u] # "idle" ~> pc[u] = "idle"
=============================================================================
