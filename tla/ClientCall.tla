----------------------------- MODULE ClientCall -----------------------------
(***************************************************************************)
(* defaultClient.Invoke and clientTransport.Send: where a call keeps what  *)
(* it is about.  A call is made with options, which are written into the   *)
(* ClientOptions all calls of a client share and from there into the       *)
(* ClientTransportOptions all clients share; its path goes into the client *)
(* stream, an object found through the call's context.                     *)
(*                                                                         *)
(* A call is about a service.  It names the service in its path and the    *)
(* server that provides it as its target; a server is named by its         *)
(* service.  The other options of a call go the way of the target.  A      *)
(* client interceptor may make a call of its own, with the context it was  *)
(* given or another.                                                       *)
(***************************************************************************)
EXTENDS Naturals, Sequences

CONSTANTS
  Caller,    \* goroutines that call Invoke
  Service,   \* services they call
  MaxChain,  \* bounds the interceptors of the shared options
  None

VARIABLES
  target,  \* c.opts.target
  chain,   \* the number of interceptors in c.opts.interceptors
  sendTo,  \* Target of the transport's options
  frames   \* the calls a goroutine is in, innermost first
vars == <<target, chain, sendTo, frames>>

\* A call in progress.
Maybe == Service \cup {None}
Frame == [
  service : Service,  \* what it is about
  pc : {"stream", "intercept", "options", "apply", "select", "receive"},
  shares : BOOLEAN,   \* its context has the client stream of an outer call
  stream : Maybe,     \* the service in its client stream
  ahead : Nat,        \* interceptors that have not run yet
  path : Maybe,       \* service the request names
  to : Maybe,         \* target taken from the client's options
  addr : Maybe,       \* address taken from the transport's options
  lent : BOOLEAN,     \* history: an interceptor of it has begun a call with the
                      \* context it was given
  alone : BOOLEAN]    \* history: nobody else was in a call when it began, and
                      \* nobody has begun one since

\* The innermost call of a goroutine.
Active(u) == frames[u] # <<>>
Top(u) == Head(frames[u])
At(u, label) == Active(u) /\ Top(u).pc = label

\* The innermost call goes on as f.
Becomes(u, f) == frames' = [frames EXCEPT ![u] = <<f>> \o Tail(@)]
-----------------------------------------------------------------------------
Init ==
  /\ target = None
  /\ chain = 0
  /\ sendTo = None
  /\ frames = [u \in Caller |-> <<>>]
-----------------------------------------------------------------------------
(* defaultClient.Invoke *)

NewFrame(s, shares, alone) == [
  service |-> s, pc |-> "stream", shares |-> shares, stream |-> None, ahead |-> 0,
  path |-> None, to |-> None, addr |-> None, lent |-> FALSE, alone |-> alone]

\* Invoke applies the options of the call, WithInterceptor among them or not, to
\* c.opts, where they stay.  The calls the goroutine is in are outer, and its
\* context is theirs if it shares their stream.
Begins(u, s, shares, outer) ==
  /\ target' = s
  /\ \/ chain < MaxChain /\ chain' = chain + 1
     \/ UNCHANGED chain
  /\ LET alone == \A v \in Caller \ {u} : ~Active(v)
         others == [frames EXCEPT ![u] = outer]
         disturbed == [v \in Caller |->
           [i \in DOMAIN others[v] |-> [others[v][i] EXCEPT !.alone = FALSE]]]
     IN frames' = [disturbed EXCEPT ![u] = <<NewFrame(s, shares, alone)>> \o @]
  /\ UNCHANGED sendTo

Invoke(u) == ~Active(u) /\ \E s \in Service : Begins(u, s, FALSE, <<>>)

\* NewClientStream finds the stream of an outer call in the context, or makes
\* one; the path is written into it.
AlwaysShares(u) == TRUE
SharesStream(u) == Top(u).shares
NewStream(u) ==
  /\ At(u, "stream")
  /\ frames' = [frames EXCEPT ![u] = [i \in DOMAIN @ |->
       IF i = 1 THEN [@[1] EXCEPT !.stream = Top(u).service, !.pc = "intercept", !.ahead = chain]
       ELSE IF SharesStream(u) THEN [@[i] EXCEPT !.stream = Top(u).service]
       ELSE @[i]]]
  /\ UNCHANGED <<target, chain, sendTo>>

\* getInvoker's test for the last interceptor.
HasNext(u) == Top(u).ahead > 0

\* ClientIntercept: the next interceptor runs, and may make a call of its own
\* before it calls the rest, with the context it was given or another.
Intercept(u) ==
  /\ At(u, "intercept") /\ HasNext(u)
  /\ LET rest == [Top(u) EXCEPT !.ahead = @ - 1] IN
       \/ Becomes(u, rest) /\ UNCHANGED <<target, chain, sendTo>>
       \/ /\ Len(frames[u]) = 1
          /\ \E s \in Service, given \in BOOLEAN :
               Begins(u, s, given, <<[rest EXCEPT !.lent = @ \/ given]>>)

\* defaultClient.invoke, behind the last interceptor, and addReqHeader: the path
\* of the request is what the client stream says.
Header(u) ==
  /\ At(u, "intercept") /\ ~HasNext(u)
  /\ Becomes(u, [Top(u) EXCEPT !.path = Top(u).stream, !.pc = "options"])
  /\ UNCHANGED <<target, chain, sendTo>>

\* The options for the transport are made.
Options(u) ==
  /\ At(u, "options")
  /\ Becomes(u, [Top(u) EXCEPT !.to = target, !.pc = "apply"])
  /\ UNCHANGED <<target, chain, sendTo>>

\* clientTransport.Send applies them to the options of the transport.
FirstTarget(u) == IF sendTo = None THEN Top(u).to ELSE sendTo
Target(u) == Top(u).to
Apply(u) ==
  /\ At(u, "apply")
  /\ sendTo' = Target(u)
  /\ Becomes(u, [Top(u) EXCEPT !.pc = "select"])
  /\ UNCHANGED <<target, chain>>

\* SendTcpReq: the default selector knows no address, and the target is taken.
\* The request goes there.
Select(u) ==
  /\ At(u, "select")
  /\ Becomes(u, [Top(u) EXCEPT !.addr = sendTo, !.pc = "receive"])
  /\ UNCHANGED <<target, chain, sendTo>>

\* The call returns: the response has come, or there is none because the path does
\* not parse, an interceptor does not call the rest, or the request cannot be
\* marshalled or sent.
Return(u) ==
  /\ Active(u) /\ ~At(u, "apply")
  /\ frames' = [frames EXCEPT ![u] = Tail(@)]
  /\ UNCHANGED <<target, chain, sendTo>>
-----------------------------------------------------------------------------
Next ==
  \E u \in Caller :
    \/ Invoke(u) \/ NewStream(u) \/ Intercept(u) \/ Header(u) \/ Options(u) \/ Apply(u)
    \/ Select(u) \/ Return(u)

Spec == Init /\ [][Next]_vars
-----------------------------------------------------------------------------
(* Properties *)

\* The variables keep their types; calls nest at most once.
TypeOK ==
  /\ target \in Maybe /\ sendTo \in Maybe
  /\ chain \in Nat
  /\ frames \in [Caller -> Seq(Frame)]
  /\ \A u \in Caller : Len(frames[u]) <= 2

\* A request names the service its call is about, whatever calls run beside it
\* or are made by its interceptors, provided none of those made its call with the
\* context it was given.  That call finds the client stream of the outer one and
\* writes its own path into it: its own request is right, and the outer is not.
OwnPath ==
  \A u \in Caller : Active(u) /\ ~Top(u).lent => Top(u).path \in {None, Top(u).service}

\* A request is sent to the target its call was made with, provided the call had
\* the client for itself: whatever calls came before have left in the two sets of
\* options, and although interceptors may run in between.
OwnTargetAlone ==
  \A u \in Caller : Active(u) /\ Top(u).alone => Top(u).addr \in {None, Top(u).service}
=============================================================================
