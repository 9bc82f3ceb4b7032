---------------------------- MODULE RpcCallProofs ----------------------------
(***************************************************************************)
(* Proofs about RpcCall, for any number of callers, calls and connections: *)
(* TypeOK and AtMostOnce whatever happens; ReadsOwnReply, IdleIsQuiet and  *)
(* ImplementsRpc if no context ends and no response is too big.            *)
(***************************************************************************)
EXTENDS RpcCall, SequenceTheorems, TLAPS

(* What holds whatever happens *)

\* A goroutine of the server has a request exactly while it works on it.
Working == \A c \in Conn : job[c] # None <=> srv[c] \in {"handle", "write"}

\* A connection that the server does not know is empty and belongs to nobody.
Unused ==
  \A c \in Conn : srv[c] = "none" => owner[c] = Nobody /\ up[c] = <<>> /\ down[c] = <<>>

\* A request that has not been written is nowhere.
Unsent(k) ==
  \/ k[2] > number[k[1]]
  \/ k[2] = number[k[1]] /\ pc[k[1]] \in {"get", "write"}
Waits(k, c) == \E i \in 1..Len(up[c]) : up[c][i] = k
Fresh ==
  \A k \in Call : Unsent(k) =>
    executed[k] = 0 /\ \A c \in Conn : ~Waits(k, c) /\ job[c] # k

\* A request that waits, or is about to be executed, is in one place and has not
\* been executed.
OnePlace ==
  \A c, d \in Conn : \A i \in 1..Len(up[c]), j \in 1..Len(up[d]) :
    up[c][i] = up[d][j] => c = d /\ i = j
Pending ==
  /\ \A c \in Conn : \A i \in 1..Len(up[c]) :
       executed[up[c][i]] = 0 /\ \A d \in Conn : job[d] # up[c][i]
  /\ \A c \in Conn : srv[c] = "handle" => executed[job[c]] = 0
  /\ \A c, d \in Conn : job[c] # None /\ job[c] = job[d] => c = d

\* A request with a response under way has been executed.
Answered ==
  /\ \A c \in Conn : \A i \in 1..Len(down[c]) : executed[down[c][i].call] = 1
  /\ \A c \in Conn : srv[c] = "write" => executed[job[c]] = 1

Started == \A u \in Caller : pc[u] # "idle" => number[u] # 0

Rest ==
  Working /\ Unused /\ Started /\ Fresh /\ OnePlace /\ Pending /\ Answered /\ AtMostOnce
Inv == TypeOK /\ Rest

(* What holds if no call gives up between its request and its response *)

\* No context is done when isDone asks for it, and no response is too long for
\* the ReadFrame of the client.
Kept ==
  /\ \A u \in Caller : pc[u] = "check" => ~cancelled[u]
  /\ \A c \in Conn : srv[c] = "write" => rsp[c] # "big"
Readable == \A c \in Conn : \A i \in 1..Len(down[c]) : down[c][i].size = "frame"

\* A caller has one connection, and only while it uses it.
OneConnection ==
  /\ \A c \in Conn, u \in Caller : owner[c] = u => pc[u] \in {"write", "check", "read", "close"}
  /\ \A c, d \in Conn, u \in Caller : owner[c] = u /\ owner[d] = u => c = d

\* There is a result only at the end of a call.
Results ==
  \A u \in Caller : pc[u] # "close" => parsed[u] = None /\ outcome[u] = "none"

\* Nothing is under way on a connection, or one request or response of a call.
Quiet(c) == (srv[c] # "closed" => up[c] = <<>>) /\ down[c] = <<>> /\ job[c] = None
Carries(c, k) ==
  /\ srv[c] # "closed" => up[c] \in {<<>>, <<k>>}
  /\ job[c] \in {None, k}
  /\ Len(down[c]) <= 1 /\ \A i \in 1..Len(down[c]) : down[c][i].call = k
  /\ srv[c] # "closed" /\ up[c] # <<>> => job[c] = None /\ down[c] = <<>>
  /\ job[c] # None => down[c] = <<>>

\* A connection is quiet when its caller gets it and, unless it is broken, when
\* its caller gives it back.
Path ==
  \A c \in Conn, u \in Caller : owner[c] = u =>
    /\ pc[u] = "write" \/ (pc[u] = "close" /\ open[c]) => Quiet(c)
    /\ pc[u] \in {"check", "read"} => Carries(c, Current(u))

PathRest == OneConnection /\ Results /\ Readable /\ IdleIsQuiet /\ Path /\ ReadsOwnReply
PathInv == Inv /\ PathRest
-----------------------------------------------------------------------------
(* Sequences *)

LEMMA Appending ==
  ASSUME NEW S, NEW s \in Seq(S), NEW e \in S
  PROVE  /\ Append(s, e) \in Seq(S) /\ Len(s) \in Nat /\ Len(Append(s, e)) = Len(s) + 1
         /\ \A i \in 1..Len(Append(s, e)) :
              (i \in 1..Len(s) /\ Append(s, e)[i] = s[i]) \/ (i = Len(s) + 1 /\ Append(s, e)[i] = e)
BY AppendProperties, LenProperties

LEMMA Taking ==
  ASSUME NEW S, NEW s \in Seq(S), s # <<>>
  PROVE  /\ Len(s) \in Nat \ {0} /\ Head(s) = s[1] /\ Head(s) \in S
         /\ Tail(s) \in Seq(S) /\ Len(Tail(s)) = Len(s) - 1
         /\ \A i \in 1..Len(Tail(s)) : i + 1 \in 1..Len(s) /\ Tail(s)[i] = s[i + 1]
<1>1. Len(s) \in Nat \ {0}
  BY EmptySeq
<1>2. Head(s) = s[1]
  OBVIOUS
<1> QED BY <1>1, <1>2, HeadTailProperties

LEMMA One == ASSUME NEW n \in Nat, n # 0, n <= 1 PROVE n = 1 /\ n - 1 = 0
OBVIOUS

LEMMA Single ==
  ASSUME NEW S, NEW s \in Seq(S), s # <<>>, Len(s) <= 1
  PROVE  Len(s) = 1 /\ Head(s) = s[1] /\ Tail(s) = <<>>
<1>1. Len(s) \in Nat /\ Len(s) # 0 /\ Head(s) = s[1]
  BY Taking
<1>2. Len(s) = 1 /\ Len(s) - 1 = 0
  BY <1>1, One
<1>3. Tail(s) \in Seq(S) /\ Len(Tail(s)) = 0
  BY <1>2, Taking
<1> QED BY <1>1, <1>2, <1>3, EmptySeq
-----------------------------------------------------------------------------
(* Types *)

\* The lease only changes the owner and the socket of one connection.
LEMMA LeaseTypes ==
  ASSUME TypeOK, NEW u \in Caller, NEW c \in Conn,
         \/ Lease!Create(u, c) \/ Lease!Borrow(u, c) \/ Lease!Return(u, c)
         \/ Lease!Break(u, c) \/ Lease!Retire(u, c) \/ Lease!Retire(Pool, c)
  PROVE  /\ owner' \in [Conn -> Caller \cup {Pool, Nobody}]
         /\ open' \in [Conn -> BOOLEAN]
BY DEF TypeOK, Lease!Create, Lease!Borrow, Lease!Return, Lease!Break, Lease!Retire, Lease!Moves

ClientTypes ==
  /\ pc \in [Caller -> {"idle", "get", "write", "check", "read", "close"}]
  /\ number \in [Caller -> 0..MaxCalls]
  /\ cancelled \in [Caller -> BOOLEAN]
  /\ outcome \in [Caller -> {"none", "ok", "error"}]
  /\ parsed \in [Caller -> Call \cup {None}]
LeaseTyped ==
  /\ owner \in [Conn -> Caller \cup {Pool, Nobody}]
  /\ open \in [Conn -> BOOLEAN]
StreamTypes ==
  /\ up \in [Conn -> Seq(Call)]
  /\ down \in [Conn -> Seq([call : Call, size : {"frame", "big"}])]
ServerTypes ==
  /\ srv \in [Conn -> {"none", "backlog", "top", "read", "handle", "write", "closed"}]
  /\ job \in [Conn -> Call \cup {None}]
  /\ rsp \in [Conn -> {"frame", "big", "nothing"}]
  /\ acceptor \in {"top", "accept", "gone"}
  /\ stopped \in BOOLEAN
  /\ executed \in [Call -> Nat]

LEMMA TypeParts == TypeOK <=> LeaseTyped /\ ClientTypes /\ StreamTypes /\ ServerTypes
BY DEF TypeOK, LeaseTyped, ClientTypes, StreamTypes, ServerTypes

LEMMA InitTypes == Init => TypeOK
<1>1. <<>> \in Seq(Call) /\ <<>> \in Seq([call : Call, size : {"frame", "big"}])
  BY EmptySeq
<1>2. 0 \in 0..MaxCalls
  BY RpcCallAssumption
<1> SUFFICES ASSUME Init PROVE TypeOK
  OBVIOUS
<1>3. LeaseTyped /\ ClientTypes
  BY <1>2 DEF Init, LeaseTyped, ClientTypes
<1>4. StreamTypes
  BY <1>1 DEF Init, StreamTypes
<1>5. ServerTypes
  BY DEF Init, ServerTypes
<1> QED BY <1>3, <1>4, <1>5, TypeParts

\* A caller that has a current call names one of the calls there are.
LEMMA CurrentCall ==
  ASSUME TypeOK, NEW u \in Caller PROVE number[u] # 0 => Current(u) \in Call
BY RpcCallAssumption DEF TypeOK, Current, Call

LEMMA CallerTypes ==
  ASSUME TypeOK, NEW u \in Caller, Invoke(u) \/ CtxDone(u) \/ CallerStep(u),
         pc[u] # "idle" => number[u] # 0
  PROVE  TypeOK'
<1> USE RpcCallAssumption
<1>0. LeaseTyped /\ ClientTypes /\ StreamTypes /\ ServerTypes
  BY TypeParts
<1>1. CASE Invoke(u)
  <2>1. number' \in [Caller -> 0..MaxCalls]
    BY <1>0, <1>1 DEF Invoke, ClientTypes
  <2> QED BY <2>1, <1>0, <1>1 DEF Invoke, Goto, lease, streams, server, TypeOK
<1>2. CASE CtxDone(u)
  BY <1>0, <1>2 DEF CtxDone, lease, streams, server, TypeOK
<1>3. CASE GetIdle(u)
  <2>1. LeaseTyped'
    BY <1>3, LeaseTypes DEF GetIdle, LeaseTyped
  <2> QED BY <1>0, <1>3, <2>1
    DEF GetIdle, Goto, streams, server, TypeOK, LeaseTyped
<1>4. CASE GetDial(u)
  <2>1. LeaseTyped'
    BY <1>0, <1>4, LeaseTypes DEF GetDial, LeaseTyped, lease
  <2>2. srv' \in [Conn -> {"none", "backlog", "top", "read", "handle", "write", "closed"}]
    BY <1>4 DEF GetDial, TypeOK
  <2>3. ClientTypes'
    BY <1>0, <1>4 DEF GetDial, Goto, ClientTypes
  <2> QED BY <1>0, <1>4, <2>1, <2>2, <2>3
    DEF GetDial, streams, TypeOK, LeaseTyped, ClientTypes
<1>5. CASE Write(u)
  <2>1. PICK c \in Conn : Write(u)!2!(c)
    BY <1>5 DEF Write
  <2>2. LeaseTyped'
    BY <1>0, <2>1, LeaseTypes DEF LeaseTyped, lease
  <2>3. up' \in [Conn -> Seq(Call)]
    <3>1. up[c] \in Seq(Call) /\ Current(u) \in Call
      BY <1>0, <1>5, CurrentCall DEF Write, StreamTypes
    <3>2. Append(up[c], Current(u)) \in Seq(Call)
      BY <3>1, Appending
    <3> QED BY <1>0, <2>1, <3>2 DEF StreamTypes
  <2>4. ClientTypes'
    BY <1>0, <1>5, <2>1 DEF Write, Goto, ClientTypes
  <2> QED BY <1>0, <1>5, <2>2, <2>3, <2>4
    DEF Write, server, TypeOK, LeaseTyped, ClientTypes
<1>6. CASE IsDone(u)
  BY <1>0, <1>6 DEF IsDone, Goto, lease, streams, server, TypeOK
<1>7. CASE Read(u)
  <2>1. PICK c \in Conn : Read(u)!2!(c)
    BY <1>7 DEF Read
  <2>2. /\ Head(down[c]) \in [call : Call, size : {"frame", "big"}]
        /\ Tail(down[c]) \in Seq([call : Call, size : {"frame", "big"}])
    BY <2>1, Taking DEF TypeOK
  <2>3. down' \in [Conn -> Seq([call : Call, size : {"frame", "big"}])]
    <3>1. down' = down \/ down' = [down EXCEPT ![c] = Tail(@)]
      BY <2>1
    <3> QED BY <1>0, <2>2, <3>1 DEF StreamTypes
  <2>4. ClientTypes'
    <3>1. Head(down[c]).call \in Call
      BY <2>2
    <3>2. \/ outcome' = [outcome EXCEPT ![u] = "ok"]
          \/ outcome' = [outcome EXCEPT ![u] = "error"]
      BY <2>1
    <3> QED BY <1>0, <1>7, <2>1, <3>1, <3>2 DEF Read, Goto, ClientTypes
  <2> QED BY <1>0, <1>7, <2>3, <2>4 DEF Read, lease, server, TypeOK, ClientTypes
<1>8. CASE ReadErr(u)
  <2>1. LeaseTyped'
    BY <1>8, LeaseTypes DEF ReadErr, LeaseTyped
  <2> QED BY <1>0, <1>8, <2>1 DEF ReadErr, Goto, streams, server, TypeOK, LeaseTyped
<1>9. CASE Close(u)
  <2>1. LeaseTyped'
    BY <1>0, <1>9, LeaseTypes DEF Close, GiveBack, LeaseTyped, lease
  <2> QED BY <1>0, <1>9, <2>1 DEF Close, Goto, streams, server, TypeOK, LeaseTyped
<1> QED
  BY <1>1, <1>2, <1>3, <1>4, <1>5, <1>6, <1>7, <1>8, <1>9 DEF CallerStep

LEMMA ServerStepTypes ==
  ASSUME TypeOK, Working, NEW c,
         \/ c \in Conn /\ (Evict(c) \/ Accept(c) \/ ConnStep(c) \/ Forget(c))
         \/ ServeTop \/ Stop
  PROVE  TypeOK'
<1> USE RpcCallAssumption
<1>1. CASE c \in Conn /\ Evict(c)
  BY <1>1 DEF Evict, Lease!Retire, Lease!Moves, client, streams, server, TypeOK
<1>2. CASE (c \in Conn /\ (Accept(c) \/ ConnTop(c) \/ SrvEnd(c))) \/ ServeTop \/ Stop
  BY <1>2 DEF Accept, ConnTop, SrvEnd, ServeTop, Stop, lease, client, streams, TypeOK
<1>3. CASE c \in Conn /\ SrvRead(c)
  <2>1. Head(up[c]) \in Call /\ Tail(up[c]) \in Seq(Call)
    BY <1>3, Taking DEF SrvRead, TypeOK
  <2> QED BY <1>3, <2>1 DEF SrvRead, Requests, lease, client, TypeOK
<1>4. CASE c \in Conn /\ SrvHandle(c)
  <2>1. executed' \in [Call -> Nat]
    <3>1. job[c] \in Call
      BY <1>4 DEF SrvHandle, Working, TypeOK
    <3> QED BY <1>4, <3>1 DEF SrvHandle, TypeOK
  <2>2. rsp' \in [Conn -> {"frame", "big", "nothing"}]
    BY <1>4 DEF SrvHandle, TypeOK
  <2> QED BY <1>4, <2>1, <2>2 DEF SrvHandle, lease, client, streams, TypeOK
<1>5. CASE c \in Conn /\ SrvWrite(c)
  <2>1. job[c] \in Call
    BY <1>5 DEF SrvWrite, Working, TypeOK
  <2>2. Answers(c) =>
          /\ [call |-> job[c], size |-> rsp[c]] \in [call : Call, size : {"frame", "big"}]
          /\ down[c] \in Seq([call : Call, size : {"frame", "big"}])
    BY <1>5, <2>1 DEF Answers, TypeOK
  <2>3. Answers(c) => Append(down[c], [call |-> job[c], size |-> rsp[c]])
                        \in Seq([call : Call, size : {"frame", "big"}])
    BY <2>2, Appending
  <2>4. down' \in [Conn -> Seq([call : Call, size : {"frame", "big"}])]
    BY <1>5, <2>3 DEF SrvWrite, TypeOK
  <2> QED BY <1>5, <2>4 DEF SrvWrite, lease, client, TypeOK
<1>6. CASE c \in Conn /\ Forget(c)
  BY <1>6, EmptySeq DEF Forget, lease, client, TypeOK
<1> QED
  BY <1>1, <1>2, <1>3, <1>4, <1>5, <1>6 DEF ConnStep
-----------------------------------------------------------------------------
(* Where requests and responses are *)

LEMMA InitRest == Init => Rest
<1> SUFFICES ASSUME Init PROVE Rest
  OBVIOUS
<1>1. \A c \in Conn : up[c] = <<>> /\ down[c] = <<>> /\ 1..Len(up[c]) = {} /\ 1..Len(down[c]) = {}
  BY DEF Init
<1>2. \A k \in Call : executed[k] = 0
  BY DEF Init
<1>3. \A c \in Conn : job[c] = None /\ srv[c] = "none" /\ owner[c] = Nobody
  BY DEF Init
<1>4. Working /\ Unused /\ OnePlace /\ Pending /\ Answered
  BY <1>1, <1>3 DEF Working, Unused, OnePlace, Pending, Answered
<1>5. Started
  BY DEF Init, Started
<1>6. \A k \in Call : k # None
  BY RpcCallAssumption DEF Call
<1>7. Fresh /\ AtMostOnce
  BY <1>1, <1>2, <1>3, <1>6 DEF Fresh, Waits, AtMostOnce
<1> QED BY <1>4, <1>5, <1>7 DEF Rest

LEMMA StutterInv == Inv /\ UNCHANGED vars => Inv'
<1> SUFFICES ASSUME Inv, UNCHANGED vars PROVE Inv'
  OBVIOUS
<1>1. UNCHANGED <<owner, open, pc, number, cancelled, outcome, parsed, up, down, srv, job, rsp,
                  acceptor, stopped, executed>>
  BY DEF vars, lease, client, streams, server
<1>2. TypeOK'
  BY <1>1 DEF Inv, TypeOK
<1>3. Rest'
  BY <1>1
  DEF Inv, Rest, Working, Unused, Started, Fresh, Unsent, Waits, OnePlace, Pending, Answered,
      AtMostOnce
<1> QED BY <1>2, <1>3 DEF Inv

\* What the client does between two frames: nothing moves but connections, and a
\* call may get past the point where it is written.
LEMMA ClientRest ==
  ASSUME Inv, UNCHANGED <<up, srv, job, executed>>,
         \A c \in Conn : srv[c] = "none" => owner'[c] = Nobody,
         \A u \in Caller : pc'[u] # "idle" => number'[u] # 0,
         \A k \in Call : Unsent(k)' => Unsent(k),
         \/ UNCHANGED down
         \/ \E c \in Conn : down[c] # <<>> /\ down' = [down EXCEPT ![c] = Tail(@)]
  PROVE  Rest'
<1>1. Working' /\ Started' /\ OnePlace' /\ Pending' /\ AtMostOnce'
  BY DEF Inv, Rest, Working, Started, OnePlace, Pending, AtMostOnce
<1>2. Fresh'
  BY DEF Inv, Rest, Fresh, Waits
<1>3. CASE UNCHANGED down
  BY <1>1, <1>2, <1>3 DEF Inv, Rest, Unused, Answered
<1>4. ASSUME NEW c \in Conn, down[c] # <<>>, down' = [down EXCEPT ![c] = Tail(@)]
      PROVE  Unused' /\ Answered'
  <2>1. down[c] \in Seq([call : Call, size : {"frame", "big"}])
    BY DEF Inv, TypeOK
  <2>2. down'[c] = Tail(down[c]) /\ \A d \in Conn \ {c} : down'[d] = down[d]
    BY <1>4 DEF Inv, TypeOK
  <2>3. \A i \in 1..Len(down'[c]) : \E j \in 1..Len(down[c]) : down'[c][i] = down[c][j]
    BY <1>4, <2>1, <2>2, Taking
  <2>4. Unused'
    BY <1>4, <2>2 DEF Inv, Rest, Unused
  <2>5. Answered'
    <3>1. \A i \in 1..Len(down'[c]) : executed'[down'[c][i].call] = 1
      BY <2>3 DEF Inv, Rest, Answered
    <3>2. \A d \in Conn \ {c} : \A i \in 1..Len(down'[d]) : executed'[down'[d][i].call] = 1
      BY <2>2 DEF Inv, Rest, Answered
    <3> QED BY <3>1, <3>2 DEF Inv, Rest, Answered
  <2> QED BY <2>4, <2>5
<1> QED BY <1>1, <1>2, <1>3, <1>4 DEF Rest

\* Invoke makes a call that nobody knows yet.
LEMMA UnsentInvoke ==
  ASSUME Inv, NEW u \in Caller, Invoke(u) PROVE \A k \in Call : Unsent(k)' => Unsent(k)
<1>1. number'[u] = number[u] + 1 /\ number[u] \in Nat
  BY RpcCallAssumption DEF Inv, TypeOK, Invoke
<1>2. \A v \in Caller \ {u} : number'[v] = number[v] /\ pc'[v] = pc[v]
  BY DEF Inv, TypeOK, Invoke, Goto
<1>3. \A k \in Call : k[1] \in Caller /\ k[2] \in Nat
  BY DEF Call
<1> QED BY <1>1, <1>2, <1>3 DEF Unsent

LEMMA UnsentStep ==
  ASSUME Inv, NEW u \in Caller, NEW label, UNCHANGED number, Goto(u, label),
         label \in {"get", "write"} => pc[u] \in {"get", "write"}
  PROVE  \A k \in Call : Unsent(k)' => Unsent(k)
<1>1. pc'[u] = label /\ \A v \in Caller \ {u} : pc'[v] = pc[v]
  BY DEF Inv, TypeOK, Goto
<1>2. \A k \in Call : k[1] \in Caller
  BY DEF Call
<1> QED BY <1>1, <1>2 DEF Unsent

LEMMA StartedStep ==
  ASSUME Inv, NEW u \in Caller, NEW label, UNCHANGED number, Goto(u, label), pc[u] # "idle"
  PROVE  \A v \in Caller : pc'[v] # "idle" => number'[v] # 0
BY DEF Inv, Rest, Started, TypeOK, Goto

\* What is in use is known to the server.
LEMMA LeaseRest ==
  ASSUME Inv, NEW u \in Caller, NEW c \in Conn,
         \/ Lease!Borrow(u, c) \/ Lease!Return(u, c)
         \/ Lease!Break(u, c) \/ Lease!Retire(u, c) \/ Lease!Retire(Pool, c)
  PROVE  \A d \in Conn : srv[d] = "none" => owner'[d] = Nobody
BY RpcCallAssumption
DEF Inv, Rest, Unused, TypeOK, Lease!Borrow, Lease!Return, Lease!Break, Lease!Retire, Lease!Moves

LEMMA CallerRest ==
  ASSUME Inv, NEW u \in Caller, Invoke(u) \/ CtxDone(u) \/ GetIdle(u) \/ IsDone(u) \/ Read(u) \/ ReadErr(u) \/ Close(u)
  PROVE  Rest'
<1>0. \A d \in Conn : srv[d] = "none" => owner[d] = Nobody
  BY DEF Inv, Rest, Unused
<1>1. CASE Invoke(u)
  <2>1. \A v \in Caller : pc'[v] # "idle" => number'[v] # 0
    BY <1>1 DEF Invoke, Goto, Inv, Rest, Started, TypeOK
  <2> QED BY <1>0, <1>1, <2>1, UnsentInvoke, ClientRest DEF Invoke, lease, streams, server
<1>2. CASE CtxDone(u)
  <2>1. \A k \in Call : Unsent(k)' => Unsent(k)
    BY <1>2 DEF CtxDone, Unsent
  <2> QED BY <1>0, <1>2, <2>1, ClientRest DEF CtxDone, lease, streams, server, Inv, Rest, Started
<1>3. CASE GetIdle(u)
  BY <1>3, LeaseRest, UnsentStep, StartedStep, ClientRest DEF GetIdle, streams, server
<1>4. CASE IsDone(u)
  <2>1. \E label \in {"close", "read"} : Goto(u, label)
    BY <1>4 DEF IsDone
  <2> QED
    BY <1>0, <1>4, <2>1, UnsentStep, StartedStep, ClientRest DEF IsDone, lease, streams, server
<1>5. CASE Read(u)
  <2>1. PICK c \in Conn :
          down[c] # <<>> /\ (down' = down \/ down' = [down EXCEPT ![c] = Tail(@)])
    BY <1>5 DEF Read
  <2>2. \A k \in Call : Unsent(k)' => Unsent(k)
    BY <1>5, UnsentStep DEF Read
  <2>3. \A v \in Caller : pc'[v] # "idle" => number'[v] # 0
    BY <1>5, StartedStep DEF Read
  <2> QED BY <1>0, <1>5, <2>1, <2>2, <2>3, ClientRest DEF Read, lease, server
<1>6. CASE ReadErr(u)
  BY <1>6, LeaseRest, UnsentStep, StartedStep, ClientRest DEF ReadErr, streams, server
<1>7. CASE Close(u)
  <2>1. \A d \in Conn : srv[d] = "none" => owner'[d] = Nobody
    BY <1>0, <1>7, LeaseRest DEF Close, GiveBack, lease
  <2>2. \A v \in Caller : pc'[v] # "idle" => number'[v] # 0
    BY <1>7, StartedStep DEF Close
  <2>3. \A k \in Call : Unsent(k)' => Unsent(k)
    BY <1>7, UnsentStep DEF Close
  <2> QED BY <1>7, <2>1, <2>2, <2>3, ClientRest DEF Close, streams, server
<1> QED BY <1>1, <1>2, <1>3, <1>4, <1>5, <1>6, <1>7

LEMMA EvictRest == ASSUME Inv, NEW c \in Conn, Evict(c) PROVE Rest'
<1>1. UNCHANGED <<pc, number, up, down, srv, job, executed>>
  BY DEF Evict, client, streams, server
<1>2. \A d \in Conn : srv[d] = "none" => owner'[d] = Nobody
  BY RpcCallAssumption DEF Evict, Inv, Rest, Unused, TypeOK, Lease!Retire, Lease!Moves
<1>3. \A k \in Call : Unsent(k)' => Unsent(k)
  BY <1>1 DEF Unsent
<1>4. \A v \in Caller : pc'[v] # "idle" => number'[v] # 0
  BY <1>1 DEF Inv, Rest, Started
<1> QED BY <1>1, <1>2, <1>3, <1>4, ClientRest

\* A goroutine of the server that has no request comes or goes.
LEMMA SrvRest ==
  ASSUME Inv, UNCHANGED <<up, down, job, executed>>,
         \A u \in Caller : pc'[u] # "idle" => number'[u] # 0,
         \A k \in Call : Unsent(k)' => Unsent(k),
         NEW c \in Conn, srv[c] \notin {"handle", "write"}, NEW l \in {"backlog", "top", "read", "closed"},
         srv' = [srv EXCEPT ![c] = l],
         \A d \in Conn \ {c} : owner'[d] = owner[d]
  PROVE  Rest'
<1>1. srv'[c] = l /\ \A d \in Conn \ {c} : srv'[d] = srv[d]
  BY DEF Inv, TypeOK
<1>2. Working' /\ Unused'
  BY <1>1 DEF Inv, Rest, Working, Unused
<1>3. Started' /\ OnePlace' /\ AtMostOnce'
  BY DEF Started, Inv, Rest, OnePlace, AtMostOnce
<1>4. Fresh'
  BY DEF Inv, Rest, Fresh, Waits
<1>5. Pending' /\ Answered'
  BY <1>1 DEF Inv, Rest, Pending, Answered
<1> QED BY <1>2, <1>3, <1>4, <1>5 DEF Rest

LEMMA DialRest == ASSUME Inv, NEW u \in Caller, GetDial(u) PROVE Rest'
<1>1. \A k \in Call : Unsent(k)' => Unsent(k)
  BY UnsentStep DEF GetDial
<1>2. \A v \in Caller : pc'[v] # "idle" => number'[v] # 0
  BY StartedStep DEF GetDial
<1>3. UNCHANGED <<up, down, job, executed>>
  BY DEF GetDial, streams
<1>4. ASSUME NEW c \in Conn, srv[c] = "none", Lease!Create(u, c),
             srv' = [srv EXCEPT ![c] = "backlog"]
      PROVE  Rest'
  <2>1. \A d \in Conn \ {c} : owner'[d] = owner[d]
    BY <1>4 DEF Lease!Create, Lease!Moves, Inv, TypeOK
  <2> QED BY <1>1, <1>2, <1>3, <1>4, <2>1, SrvRest
<1>5. CASE UNCHANGED <<lease, srv>>
  BY <1>1, <1>2, <1>3, <1>5, ClientRest DEF lease, Inv, Rest, Unused
<1> QED BY <1>4, <1>5 DEF GetDial

LEMMA IdleServerRest ==
  ASSUME Inv, NEW c,
         (c \in Conn /\ (Accept(c) \/ ConnTop(c) \/ SrvEnd(c))) \/ ServeTop \/ Stop
  PROVE  Rest'
<1>1. UNCHANGED <<owner, pc, number, up, down, job, executed>>
  BY DEF Accept, ConnTop, SrvEnd, ServeTop, Stop, lease, client, streams
<1>2. \A k \in Call : Unsent(k)' => Unsent(k)
  BY <1>1 DEF Unsent
<1>3. \A v \in Caller : pc'[v] # "idle" => number'[v] # 0
  BY <1>1 DEF Inv, Rest, Started
<1>4. CASE UNCHANGED srv
  BY <1>1, <1>2, <1>3, <1>4, ClientRest DEF Inv, Rest, Unused
<1>5. ASSUME c \in Conn, NEW l \in {"backlog", "top", "read", "closed"},
             srv[c] \notin {"handle", "write"}, srv' = [srv EXCEPT ![c] = l]
      PROVE  Rest'
  BY <1>1, <1>2, <1>3, <1>5, SrvRest
<1> QED BY <1>4, <1>5 DEF Accept, ConnTop, SrvEnd, ServeTop, Stop

\* A request that is written was nowhere before.
LEMMA WriteRest == ASSUME Inv, NEW u \in Caller, Write(u) PROVE Rest'
<1>1. \A k \in Call : Unsent(k)' => Unsent(k)
  BY UnsentStep DEF Write
<1>2. \A v \in Caller : pc'[v] # "idle" => number'[v] # 0
  BY StartedStep DEF Write
<1>3. UNCHANGED <<down, srv, job, executed>> /\ number' = number
  BY DEF Write, server
<1>4. ASSUME NEW c \in Conn, UNCHANGED up, Lease!Break(u, c) PROVE Rest'
  BY <1>1, <1>2, <1>3, <1>4, LeaseRest, ClientRest
<1>5. ASSUME NEW c \in Conn, Has(u, c), up' = [up EXCEPT ![c] = Append(@, Current(u))],
             UNCHANGED lease, Goto(u, "check")
      PROVE  Rest'
  <2> DEFINE k == Current(u)
  <2>1. k \in Call /\ Unsent(k)
    <3>1. number[u] # 0 /\ pc[u] = "write"
      BY DEF Inv, Rest, Started, Write
    <3>2. k[1] = u /\ k[2] = number[u]
      BY DEF Current
    <3> QED BY <3>1, <3>2, CurrentCall DEF Inv, Unsent
  <2>2. executed[k] = 0 /\ \A d \in Conn : ~Waits(k, d) /\ job[d] # k
    BY <2>1 DEF Inv, Rest, Fresh
  <2>3. \A n \in Call : Unsent(n)' => n # k
    <3>1. pc'[u] = "check" /\ number'[u] = number[u] /\ number[u] \in Nat
      BY <1>3, <1>5, RpcCallAssumption DEF Goto, Inv, TypeOK
    <3>2. k[1] = u /\ k[2] = number[u]
      BY DEF Current
    <3> HIDE DEF k
    <3> QED BY <3>1, <3>2 DEF Unsent
  <2>4. up[c] \in Seq(Call) /\ up'[c] = Append(up[c], k) /\ \A d \in Conn \ {c} : up'[d] = up[d]
    BY <1>5 DEF Inv, TypeOK
  <2>5. /\ Len(up[c]) \in Nat /\ Len(up'[c]) = Len(up[c]) + 1
        /\ \A i \in 1..Len(up'[c]) : \/ i \in 1..Len(up[c]) /\ up'[c][i] = up[c][i]
                                     \/ i = Len(up[c]) + 1 /\ up'[c][i] = k
    BY <2>1, <2>4, Appending
  <2> HIDE DEF k
  <2>6. \A d \in Conn : \A i \in 1..Len(up'[d]) :
          \/ i \in 1..Len(up[d]) /\ up'[d][i] = up[d][i]
          \/ d = c /\ i = Len(up[c]) + 1 /\ up'[d][i] = k
    BY <2>4, <2>5
  <2>7. \A d \in Conn : \A i \in 1..Len(up[d]) : up[d][i] # k
    BY <2>2 DEF Waits
  <2>8. Working' /\ AtMostOnce' /\ Started'
    BY <1>2, <1>3 DEF Inv, Rest, Working, AtMostOnce, Started
  <2>9. Unused'
    <3>1. srv[c] # "none"
      BY <1>5, RpcCallAssumption DEF Has, Inv, Rest, Unused
    <3> QED BY <1>3, <1>5, <2>4, <3>1 DEF Inv, Rest, Unused, lease
  <2>10. Fresh'
    <3> SUFFICES ASSUME NEW n \in Call, Unsent(n)'
                 PROVE  executed'[n] = 0 /\ \A d \in Conn : ~Waits(n, d)' /\ job'[d] # n
      BY DEF Fresh
    <3>1. n # k /\ Unsent(n)
      BY <1>1, <2>3
    <3>2. executed[n] = 0 /\ \A d \in Conn : ~Waits(n, d) /\ job[d] # n
      BY <3>1 DEF Inv, Rest, Fresh
    <3> QED BY <1>3, <2>6, <3>1, <3>2 DEF Waits
  <2>11. OnePlace'
    <3> SUFFICES ASSUME NEW d \in Conn, NEW e \in Conn,
                        NEW i \in 1..Len(up'[d]), NEW j \in 1..Len(up'[e]), up'[d][i] = up'[e][j]
                 PROVE  d = e /\ i = j
      BY DEF OnePlace
    <3>1. \/ i \in 1..Len(up[d]) /\ up'[d][i] = up[d][i]
          \/ d = c /\ i = Len(up[c]) + 1 /\ up'[d][i] = k
      BY <2>6
    <3>2. \/ j \in 1..Len(up[e]) /\ up'[e][j] = up[e][j]
          \/ e = c /\ j = Len(up[c]) + 1 /\ up'[e][j] = k
      BY <2>6
    <3>3. CASE up'[d][i] = k
      BY <2>7, <3>1, <3>2, <3>3
    <3>4. CASE up'[d][i] # k
      <4>1. i \in 1..Len(up[d]) /\ j \in 1..Len(up[e]) /\ up[d][i] = up[e][j]
        BY <3>1, <3>2, <3>4
      <4> QED BY <4>1 DEF Inv, Rest, OnePlace
    <3> QED BY <3>3, <3>4
  <2>12. Pending' /\ Answered'
    <3>1. \A d \in Conn : \A i \in 1..Len(up'[d]) :
            executed[up'[d][i]] = 0 /\ \A e \in Conn : job[e] # up'[d][i]
      BY <2>2, <2>6 DEF Inv, Rest, Pending
    <3> QED BY <1>3, <3>1 DEF Inv, Rest, Pending, Answered
  <2> QED BY <2>8, <2>9, <2>10, <2>11, <2>12 DEF Rest
<1> QED BY <1>4, <1>5 DEF Write

\* What is read off the head of a stream was in one place and still is.
LEMMA SrvReadRest == ASSUME Inv, NEW c \in Conn, SrvRead(c) PROVE Rest'
<1> DEFINE k == Head(up[c])
<1>1. UNCHANGED <<owner, pc, number, down, executed>>
  BY DEF SrvRead, lease, client
<1>2. up[c] \in Seq(Call) /\ up[c] # <<>> /\ srv[c] = "read"
  BY DEF SrvRead, Inv, TypeOK
<1>3. /\ Len(up[c]) \in Nat \ {0} /\ k = up[c][1] /\ k \in Call
      /\ Len(Tail(up[c])) = Len(up[c]) - 1
      /\ \A i \in 1..Len(Tail(up[c])) : i + 1 \in 1..Len(up[c]) /\ Tail(up[c])[i] = up[c][i + 1]
  BY <1>2, Taking
<1>4. /\ up'[c] = Tail(up[c]) /\ srv'[c] = "handle" /\ job'[c] = k
      /\ \A d \in Conn \ {c} : up'[d] = up[d] /\ srv'[d] = srv[d] /\ job'[d] = job[d]
  BY DEF SrvRead, Requests, Inv, TypeOK
<1> HIDE DEF k
<1>5. job[c] = None /\ k # None
  BY <1>2, <1>3, RpcCallAssumption DEF Inv, Rest, Working, Call
<1>6. \A d \in Conn : \A i \in 1..Len(up'[d]) :
        \E j \in 1..Len(up[d]) : up'[d][i] = up[d][j] /\ j = (IF d = c THEN i + 1 ELSE i)
  BY <1>3, <1>4
<1>7. executed[k] = 0 /\ \A d \in Conn : job[d] # k
  BY <1>3 DEF Inv, Rest, Pending
<1>8. \A d \in Conn : \A i \in 1..Len(up'[d]) : up'[d][i] # k
  <2> SUFFICES ASSUME NEW d \in Conn, NEW i \in 1..Len(up'[d]), up'[d][i] = k PROVE FALSE
    OBVIOUS
  <2>1. PICK j \in 1..Len(up[d]) : up'[d][i] = up[d][j] /\ j = (IF d = c THEN i + 1 ELSE i)
    BY <1>6
  <2>2. d = c /\ j = 1
    BY <1>3, <2>1 DEF Inv, Rest, OnePlace
  <2>3. i \in Nat /\ i # 0
    BY <1>3, <1>4, <2>2
  <2> QED BY <2>1, <2>2, <2>3
<1>9. Working' /\ Unused' /\ Started' /\ AtMostOnce'
  BY <1>1, <1>2, <1>4, <1>5 DEF Inv, Rest, Working, Unused, Started, AtMostOnce
<1>10. Fresh'
  <2> SUFFICES ASSUME NEW n \in Call, Unsent(n)'
               PROVE  executed'[n] = 0 /\ \A d \in Conn : ~Waits(n, d)' /\ job'[d] # n
    BY DEF Fresh
  <2>1. Unsent(n)
    BY <1>1 DEF Unsent
  <2>2. executed[n] = 0 /\ \A d \in Conn : ~Waits(n, d) /\ job[d] # n
    BY <2>1 DEF Inv, Rest, Fresh
  <2>3. n # k
    BY <1>3, <2>2 DEF Waits
  <2>4. \A d \in Conn : ~Waits(n, d)'
    BY <1>6, <2>2 DEF Waits
  <2> QED BY <1>1, <1>4, <2>2, <2>3, <2>4
<1>11. OnePlace'
  <2> SUFFICES ASSUME NEW d \in Conn, NEW e \in Conn,
                      NEW i \in 1..Len(up'[d]), NEW j \in 1..Len(up'[e]), up'[d][i] = up'[e][j]
               PROVE  d = e /\ i = j
    BY DEF OnePlace
  <2>1. PICK m \in 1..Len(up[d]) : up'[d][i] = up[d][m] /\ m = (IF d = c THEN i + 1 ELSE i)
    BY <1>6
  <2>2. PICK n \in 1..Len(up[e]) : up'[e][j] = up[e][n] /\ n = (IF e = c THEN j + 1 ELSE j)
    BY <1>6
  <2>3. up[d][m] = up[e][n]
    BY <2>1, <2>2
  <2>4. d = e /\ m = n
    BY <2>3 DEF Inv, Rest, OnePlace
  <2>5. i \in Nat /\ j \in Nat
    OBVIOUS
  <2> QED BY <2>1, <2>2, <2>4, <2>5
<1>12. Pending'
  <2>1. \A d \in Conn : \A i \in 1..Len(up'[d]) :
          executed[up'[d][i]] = 0 /\ \A e \in Conn : job[e] # up'[d][i]
    BY <1>6 DEF Inv, Rest, Pending
  <2>2. \A d \in Conn : \A i \in 1..Len(up'[d]) : \A e \in Conn : job'[e] # up'[d][i]
    BY <1>4, <1>8, <2>1
  <2>3. \A d \in Conn : srv'[d] = "handle" => executed[job'[d]] = 0
    BY <1>4, <1>7 DEF Inv, Rest, Pending
  <2>4. \A d, e \in Conn : job'[d] # None /\ job'[d] = job'[e] => d = e
    BY <1>4, <1>7 DEF Inv, Rest, Pending
  <2> QED BY <1>1, <2>1, <2>2, <2>3, <2>4 DEF Pending
<1>13. Answered'
  BY <1>1, <1>4 DEF Inv, Rest, Answered
<1> QED BY <1>9, <1>10, <1>11, <1>12, <1>13 DEF Rest

\* What is executed has not been executed, and is under way nowhere else.
LEMMA SrvHandleRest == ASSUME Inv, NEW c \in Conn, SrvHandle(c) PROVE Rest'
<1> DEFINE k == job[c]
<1>1. UNCHANGED <<owner, pc, number, up, down, job>>
  BY DEF SrvHandle, lease, client, streams
<1>2. k \in Call /\ k # None /\ srv[c] = "handle" /\ executed[k] = 0
  BY RpcCallAssumption DEF SrvHandle, Inv, TypeOK, Rest, Working, Pending
<1>3. srv'[c] = "write" /\ \A d \in Conn \ {c} : srv'[d] = srv[d]
  BY DEF SrvHandle, Inv, TypeOK
<1>4. executed'[k] = 1 /\ \A n \in Call \ {k} : executed'[n] = executed[n]
  BY <1>2 DEF SrvHandle, Inv, TypeOK
<1>5. \A d \in Conn : \A i \in 1..Len(up[d]) : up[d][i] # k /\ up[d][i] \in Call
  BY ElementOfSeq DEF Inv, TypeOK, Rest, Pending
<1>6. \A d \in Conn \ {c} : job[d] # k
  BY <1>2 DEF Inv, Rest, Pending
<1>7. Working' /\ Unused' /\ Started'
  BY <1>1, <1>2, <1>3 DEF Inv, Rest, Working, Unused, Started
<1>8. Fresh'
  <2> SUFFICES ASSUME NEW n \in Call, Unsent(n)'
               PROVE  executed'[n] = 0 /\ \A d \in Conn : ~Waits(n, d)' /\ job'[d] # n
    BY DEF Fresh
  <2>1. executed[n] = 0 /\ \A d \in Conn : ~Waits(n, d) /\ job[d] # n
    BY <1>1 DEF Unsent, Inv, Rest, Fresh
  <2> QED BY <1>1, <1>4, <2>1 DEF Waits
<1>9. OnePlace'
  BY <1>1 DEF Inv, Rest, OnePlace
<1>10. Pending'
  <2>1. \A d \in Conn : \A i \in 1..Len(up[d]) :
          executed'[up[d][i]] = 0 /\ \A e \in Conn : job[e] # up[d][i]
    BY <1>4, <1>5 DEF Inv, Rest, Pending
  <2>2. \A d \in Conn : srv'[d] = "handle" => executed'[job[d]] = 0
    <3> SUFFICES ASSUME NEW d \in Conn, srv'[d] = "handle" PROVE executed'[job[d]] = 0
      OBVIOUS
    <3>1. d # c /\ srv[d] = "handle"
      BY <1>3
    <3>2. job[d] \in Call /\ executed[job[d]] = 0
      BY <3>1 DEF Inv, Rest, Working, Pending, TypeOK
    <3> QED BY <1>4, <1>6, <3>1, <3>2
  <2> QED BY <1>1, <2>1, <2>2 DEF Inv, Rest, Pending
<1>11. Answered'
  <2>1. \A d \in Conn : \A i \in 1..Len(down[d]) :
          down[d][i].call \in Call /\ executed[down[d][i].call] = 1
    <3>1. \A d \in Conn : \A i \in 1..Len(down[d]) :
            down[d][i] \in [call : Call, size : {"frame", "big"}]
      BY ElementOfSeq DEF Inv, TypeOK
    <3> QED BY <3>1 DEF Inv, Rest, Answered
  <2>2. \A d \in Conn : srv'[d] = "write" => executed'[job[d]] = 1
    <3> SUFFICES ASSUME NEW d \in Conn \ {c}, srv[d] = "write" PROVE executed'[job[d]] = 1
      BY <1>3, <1>4
    <3>1. job[d] \in Call /\ executed[job[d]] = 1
      BY DEF Inv, Rest, Working, Answered, TypeOK
    <3> QED BY <1>4, <1>6, <3>1
  <2>3. \A d \in Conn : \A i \in 1..Len(down[d]) : executed'[down[d][i].call] = 1
    BY <1>2, <1>4, <2>1
  <2> QED BY <1>1, <2>2, <2>3 DEF Answered
<1>12. AtMostOnce'
  BY <1>4 DEF Inv, Rest, AtMostOnce
<1> QED BY <1>7, <1>8, <1>9, <1>10, <1>11, <1>12 DEF Rest

LEMMA SrvWriteRest == ASSUME Inv, NEW c \in Conn, SrvWrite(c) PROVE Rest'
<1>1. UNCHANGED <<owner, pc, number, up, executed>>
  BY DEF SrvWrite, lease, client
<1>2. job[c] \in Call /\ executed[job[c]] = 1 /\ srv[c] = "write"
  BY DEF SrvWrite, Inv, TypeOK, Rest, Working, Answered
<1>3. /\ srv'[c] = "top" /\ job'[c] = None
      /\ \A d \in Conn \ {c} : srv'[d] = srv[d] /\ job'[d] = job[d] /\ down'[d] = down[d]
  BY DEF SrvWrite, Inv, TypeOK
<1>4. Working' /\ Unused' /\ Started' /\ AtMostOnce' /\ OnePlace'
  BY <1>1, <1>2, <1>3 DEF Inv, Rest, Working, Unused, Started, AtMostOnce, OnePlace
<1>5. Fresh'
  <2> SUFFICES ASSUME NEW n \in Call, Unsent(n)'
               PROVE  executed'[n] = 0 /\ \A d \in Conn : ~Waits(n, d)' /\ job'[d] # n
    BY DEF Fresh
  <2>1. executed[n] = 0 /\ \A d \in Conn : ~Waits(n, d) /\ job[d] # n
    BY <1>1 DEF Unsent, Inv, Rest, Fresh
  <2>2. n # None
    BY RpcCallAssumption DEF Call
  <2> QED BY <1>1, <1>3, <2>1, <2>2 DEF Waits
<1>6. Pending'
  <2>1. \A d \in Conn : \A i \in 1..Len(up[d]) : up[d][i] \in Call /\ up[d][i] # None
    BY ElementOfSeq, RpcCallAssumption DEF Inv, TypeOK, Call
  <2> QED BY <1>1, <1>3, <2>1 DEF Inv, Rest, Pending
<1>7. Answered'
  <2>1. \A i \in 1..Len(down'[c]) : executed[down'[c][i].call] = 1
    <3>1. CASE down'[c] = down[c]
      BY <3>1 DEF Inv, Rest, Answered
    <3>2. CASE Answers(c) /\ down'[c] = Append(down[c], [call |-> job[c], size |-> rsp[c]])
      <4> DEFINE f == [call |-> job[c], size |-> rsp[c]]
      <4>1. /\ down[c] \in Seq([call : Call, size : {"frame", "big"}])
            /\ f \in [call : Call, size : {"frame", "big"}]
        BY <1>2, <3>2 DEF Answers, Inv, TypeOK
      <4>2. f.call = job[c]
        OBVIOUS
      <4> HIDE DEF f
      <4>3. \A i \in 1..Len(down'[c]) :
              (i \in 1..Len(down[c]) /\ down'[c][i] = down[c][i]) \/ down'[c][i] = f
        BY <3>2, <4>1, Appending DEF f
      <4> QED BY <1>2, <4>2, <4>3 DEF Inv, Rest, Answered
    <3> QED BY <3>1, <3>2 DEF SrvWrite, Inv, TypeOK
  <2> QED BY <1>1, <1>3, <2>1 DEF Inv, Rest, Answered
<1> QED BY <1>4, <1>5, <1>6, <1>7 DEF Rest

LEMMA ForgetRest == ASSUME Inv, NEW c \in Conn, Forget(c) PROVE Rest'
<1>1. UNCHANGED <<owner, pc, number, job, executed>> /\ owner[c] = Nobody /\ srv[c] = "closed"
  BY DEF Forget, lease, client
<1>2. /\ srv'[c] = "none" /\ up'[c] = <<>> /\ down'[c] = <<>>
      /\ \A d \in Conn \ {c} : srv'[d] = srv[d] /\ up'[d] = up[d] /\ down'[d] = down[d]
  BY DEF Forget, Inv, TypeOK
<1>3. 1..Len(up'[c]) = {} /\ 1..Len(down'[c]) = {}
  BY <1>2
<1>4. Working' /\ Unused' /\ Started' /\ AtMostOnce'
  BY <1>1, <1>2 DEF Inv, Rest, Working, Unused, Started, AtMostOnce
<1>5. Fresh'
  <2>1. \A k \in Call : Unsent(k)' => Unsent(k)
    BY <1>1 DEF Unsent
  <2>2. \A k \in Call, d \in Conn : Waits(k, d)' => Waits(k, d)
    BY <1>2, <1>3 DEF Waits
  <2> QED BY <1>1, <2>1, <2>2 DEF Inv, Rest, Fresh
<1>6. OnePlace'
  BY <1>2, <1>3 DEF Inv, Rest, OnePlace
<1>7. Pending'
  BY <1>1, <1>2, <1>3 DEF Inv, Rest, Pending
<1>8. Answered'
  BY <1>1, <1>2, <1>3 DEF Inv, Rest, Answered
<1> QED BY <1>4, <1>5, <1>6, <1>7, <1>8 DEF Rest
-----------------------------------------------------------------------------
(* The theorems that hold whatever happens *)

LEMMA InvNext == Inv /\ [Next]_vars => Inv'
<1> SUFFICES ASSUME Inv, [Next]_vars PROVE Inv'
  OBVIOUS
<1>1. ASSUME NEW u \in Caller, Invoke(u) \/ CtxDone(u) \/ CallerStep(u) PROVE Inv'
  <2>1. TypeOK'
    BY <1>1, CallerTypes DEF Inv, Rest, Started
  <2>2. Rest'
    BY <1>1, CallerRest, DialRest, WriteRest DEF CallerStep
  <2> QED BY <2>1, <2>2 DEF Inv
<1>2. ASSUME NEW c \in Conn, Evict(c) \/ Accept(c) \/ ConnStep(c) \/ Forget(c) PROVE Inv'
  <2>1. TypeOK'
    BY <1>2, ServerStepTypes DEF Inv, Rest
  <2>2. Rest'
    BY <1>2, EvictRest, IdleServerRest, SrvReadRest, SrvHandleRest, SrvWriteRest, ForgetRest
    DEF ConnStep
  <2> QED BY <2>1, <2>2 DEF Inv
<1>3. CASE ServeTop \/ Stop
  <2>1. TypeOK'
    BY <1>3, ServerStepTypes DEF Inv, Rest
  <2>2. Rest'
    BY <1>3, IdleServerRest
  <2> QED BY <2>1, <2>2 DEF Inv
<1>4. CASE UNCHANGED vars
  BY <1>4, StutterInv
<1> QED BY <1>1, <1>2, <1>3, <1>4 DEF Next

LEMMA InvAlways == Spec => []Inv
<1>1. Init => Inv
  BY InitTypes, InitRest DEF Inv
<1> QED BY <1>1, InvNext, PTL DEF Spec

\* The variables of a call keep their types: no frame is read off an empty
\* stream, and handle is never called without a request.
THEOREM CallTypeCorrect == Spec => []TypeOK
<1>1. Inv => TypeOK
  BY DEF Inv
<1> QED BY <1>1, InvAlways, PTL

\* The server never executes a request twice: whatever is cancelled, too big,
\* left unanswered, evicted or stopped, a request is in one stream, or in the
\* hands of one goroutine, or done with.
THEOREM ExecutedOnce == Spec => []AtMostOnce
<1>1. Inv => AtMostOnce
  BY DEF Inv, Rest
<1> QED BY <1>1, InvAlways, PTL
-----------------------------------------------------------------------------
(* The path of a call *)

LEMMA InitPath == Init => PathRest
<1> SUFFICES ASSUME Init PROVE PathRest
  OBVIOUS
<1>1. \A c \in Conn : owner[c] = Nobody /\ down[c] = <<>> /\ 1..Len(down[c]) = {}
  BY DEF Init
<1>2. Nobody \notin Caller /\ Nobody # Pool
  BY RpcCallAssumption
<1>3. OneConnection /\ Path /\ IdleIsQuiet /\ Readable
  BY <1>1, <1>2 DEF OneConnection, Path, IdleIsQuiet, Readable
<1>4. Results /\ ReadsOwnReply
  BY DEF Init, Results, ReadsOwnReply
<1> QED BY <1>3, <1>4 DEF PathRest

\* A step of the server's goroutine of a connection leaves the connection quiet
\* or carrying what it carried.
LEMMA ConnStepStreams ==
  ASSUME PathInv, Kept, NEW c \in Conn, Accept(c) \/ ConnStep(c)
  PROVE  /\ UNCHANGED <<owner, open, pc, number, outcome, parsed>> /\ Readable'
         /\ \A d \in Conn : owner[d] # Nobody =>
              (Quiet(d) => Quiet(d)') /\ \A k \in Call : Carries(d, k) => Carries(d, k)'
<1>1. CASE Accept(c) \/ ConnTop(c) \/ SrvEnd(c)
  <2>1. UNCHANGED <<owner, open, pc, number, outcome, parsed, up, down, job>>
    BY <1>1 DEF Accept, ConnTop, SrvEnd, lease, client, streams
  <2>2. \A d \in Conn : srv[d] = "closed" => srv'[d] = "closed"
    BY <1>1 DEF Accept, ConnTop, SrvEnd, PathInv, Inv, TypeOK
  <2> QED BY <2>1, <2>2 DEF PathInv, PathRest, Readable, Quiet, Carries
<1>2. CASE SrvRead(c)
  <2>1. UNCHANGED <<owner, open, pc, number, outcome, parsed, down>>
    BY <1>2 DEF SrvRead, lease, client
  <2>2. /\ srv[c] = "read" /\ srv'[c] = "handle"
        /\ up[c] # <<>> /\ up'[c] = Tail(up[c]) /\ job'[c] = Head(up[c])
        /\ \A d \in Conn \ {c} : srv'[d] = srv[d] /\ up'[d] = up[d] /\ job'[d] = job[d]
    BY <1>2 DEF SrvRead, Requests, PathInv, Inv, TypeOK
  <2>3. ASSUME NEW k \in Call, Carries(c, k) PROVE Carries(c, k)'
    <3>1. up[c] = <<k>> /\ down[c] = <<>>
      BY <2>2, <2>3 DEF Carries
    <3>2. Head(<<k>>) = k /\ Tail(<<k>>) = <<>>
      OBVIOUS
    <3> QED BY <2>1, <2>2, <2>3, <3>1, <3>2 DEF Carries
  <2>4. \A d \in Conn : Quiet(d) => Quiet(d)'
    BY <2>1, <2>2 DEF Quiet
  <2>5. \A d \in Conn \ {c}, k \in Call : Carries(d, k) => Carries(d, k)'
    BY <2>1, <2>2 DEF Carries
  <2>6. Readable'
    BY <2>1 DEF PathInv, PathRest, Readable
  <2> QED BY <2>1, <2>3, <2>4, <2>5, <2>6
<1>3. CASE SrvHandle(c)
  <2>1. UNCHANGED <<owner, open, pc, number, outcome, parsed, up, down, job>>
    BY <1>3 DEF SrvHandle, lease, client, streams
  <2>2. \A d \in Conn : srv[d] = "closed" => srv'[d] = "closed"
    BY <1>3 DEF SrvHandle, PathInv, Inv, TypeOK
  <2> QED BY <2>1, <2>2 DEF PathInv, PathRest, Readable, Quiet, Carries
<1>4. CASE SrvWrite(c)
  <2>1. UNCHANGED <<owner, open, pc, number, outcome, parsed, up>>
    BY <1>4 DEF SrvWrite, lease, client
  <2>2. /\ srv[c] = "write" /\ srv'[c] = "top" /\ job'[c] = None /\ job[c] \in Call
        /\ \A d \in Conn \ {c} : srv'[d] = srv[d] /\ down'[d] = down[d] /\ job'[d] = job[d]
    BY <1>4 DEF SrvWrite, PathInv, Inv, Rest, Working, TypeOK
  <2>3. \/ down'[c] = down[c]
        \/ down'[c] = Append(down[c], [call |-> job[c], size |-> "frame"])
    BY <1>4 DEF SrvWrite, Answers, Kept, PathInv, Inv, TypeOK
  <2>4. job[c] # None
    BY <2>2, RpcCallAssumption DEF Call
  <2>5. ASSUME NEW k \in Call, Carries(c, k) PROVE Carries(c, k)'
    <3>1. down[c] = <<>> /\ job[c] = k /\ (srv[c] # "closed" => up[c] = <<>>)
      BY <2>4, <2>5 DEF Carries
    <3>2. down'[c] = <<>> \/ down'[c] = <<[call |-> k, size |-> "frame"]>>
      BY <2>3, <3>1
    <3>3. Len(down'[c]) <= 1 /\ \A i \in 1..Len(down'[c]) : down'[c][i].call = k
      <4>1. CASE down'[c] = <<>>
        BY <4>1
      <4>2. CASE down'[c] = <<[call |-> k, size |-> "frame"]>>
        <5>1. Len(down'[c]) = 1 /\ down'[c][1].call = k
          BY <4>2
        <5> QED BY <5>1
      <4> QED BY <3>2, <4>1, <4>2
    <3> QED BY <2>1, <2>2, <3>1, <3>3 DEF Carries
  <2>6. \A d \in Conn : Quiet(d) => Quiet(d)'
    BY <2>1, <2>2, <2>4 DEF Quiet
  <2>7. \A d \in Conn \ {c}, k \in Call : Carries(d, k) => Carries(d, k)'
    BY <2>1, <2>2 DEF Carries
  <2>8. Readable'
    <3> DEFINE f == [call |-> job[c], size |-> "frame"]
    <3>1. down[c] \in Seq([call : Call, size : {"frame", "big"}])
      BY DEF PathInv, Inv, TypeOK
    <3>2. f \in [call : Call, size : {"frame", "big"}] /\ f.size = "frame"
      BY <2>2
    <3> HIDE DEF f
    <3>3. \A i \in 1..Len(Append(down[c], f)) :
            (i \in 1..Len(down[c]) /\ Append(down[c], f)[i] = down[c][i])
            \/ Append(down[c], f)[i] = f
      BY <3>1, <3>2, Appending
    <3>4. \A i \in 1..Len(down'[c]) : down'[c][i].size = "frame"
      <4>1. CASE down'[c] = down[c]
        BY <4>1 DEF PathInv, PathRest, Readable
      <4>2. CASE down'[c] = Append(down[c], f)
        <5>1. \A i \in 1..Len(down[c]) : down[c][i].size = "frame"
          BY DEF PathInv, PathRest, Readable
        <5> QED BY <3>2, <3>3, <4>2, <5>1
      <4> QED BY <2>3, <4>1, <4>2 DEF f
    <3> QED BY <2>2, <3>4 DEF PathInv, PathRest, Readable
  <2> QED BY <2>1, <2>5, <2>6, <2>7, <2>8
<1> QED BY <1>1, <1>2, <1>3, <1>4 DEF ConnStep

LEMMA ConnStepPath ==
  ASSUME PathInv, Kept, NEW c \in Conn, Accept(c) \/ ConnStep(c)
  PROVE  PathRest'
<1>1. UNCHANGED <<owner, open, pc, number, outcome, parsed>> /\ Readable'
  BY ConnStepStreams
<1>2. \A d \in Conn : owner[d] # Nobody =>
        (Quiet(d) => Quiet(d)') /\ \A k \in Call : Carries(d, k) => Carries(d, k)'
  BY ConnStepStreams
<1>3. OneConnection' /\ Results' /\ ReadsOwnReply'
  BY <1>1 DEF PathInv, PathRest, OneConnection, Results, ReadsOwnReply, Current
<1>4. IdleIsQuiet'
  BY <1>1, <1>2, RpcCallAssumption DEF PathInv, PathRest, IdleIsQuiet, Quiet
<1>5. Path'
  <2> SUFFICES ASSUME NEW d \in Conn, NEW u \in Caller, owner'[d] = u
               PROVE  /\ pc'[u] = "write" \/ (pc'[u] = "close" /\ open'[d]) => Quiet(d)'
                      /\ pc'[u] \in {"check", "read"} => Carries(d, Current(u))'
    BY DEF Path
  <2>1. owner[d] = u /\ owner[d] # Nobody
    BY <1>1, RpcCallAssumption
  <2>2. pc[u] \in {"check", "read"} => Current(u) \in Call /\ Current(u)' = Current(u)
    BY <1>1, CurrentCall DEF PathInv, Inv, Rest, Started, Current
  <2> QED BY <1>1, <1>2, <2>1, <2>2 DEF PathInv, PathRest, Path
<1> QED BY <1>1, <1>3, <1>4, <1>5 DEF PathRest

LEMMA StutterPath ==
  ASSUME PathInv,
         UNCHANGED <<owner, open, pc, number, outcome, parsed, up, down, srv, job>>
  PROVE  PathRest'
BY DEF PathInv, PathRest, OneConnection, Results, Readable, IdleIsQuiet, Path, Quiet, Carries,
       ReadsOwnReply, Current

\* A connection that nobody has any more is on no path.
LEMMA UnusedPath == ASSUME PathInv, NEW c \in Conn, Evict(c) \/ Forget(c) PROVE PathRest'
<1>1. UNCHANGED <<pc, number, outcome, parsed, job>>
  BY DEF Evict, Forget, client, streams, server
<1>2. owner'[c] = Nobody
  BY DEF Evict, Forget, Lease!Retire, Lease!Moves, lease, PathInv, Inv, TypeOK
<1>3. \A d \in Conn \ {c} : /\ owner'[d] = owner[d] /\ open'[d] = open[d]
                            /\ up'[d] = up[d] /\ down'[d] = down[d] /\ srv'[d] = srv[d]
  BY DEF Evict, Forget, Lease!Retire, Lease!Moves, lease, streams, server, PathInv, Inv, TypeOK
<1>4. Nobody \notin Caller /\ Nobody # Pool
  BY RpcCallAssumption
<1>5. OneConnection' /\ Results' /\ ReadsOwnReply'
  BY <1>1, <1>2, <1>3, <1>4
  DEF PathInv, PathRest, OneConnection, Results, ReadsOwnReply, Current
<1>6. Readable'
  <2>1. down'[c] = down[c] \/ down'[c] = <<>>
    BY DEF Evict, Forget, streams, PathInv, Inv, TypeOK
  <2>2. \A i \in 1..Len(down'[c]) : down'[c][i].size = "frame"
    BY <2>1 DEF PathInv, PathRest, Readable
  <2> QED BY <1>3, <2>2 DEF PathInv, PathRest, Readable
<1>7. IdleIsQuiet'
  BY <1>1, <1>2, <1>3, <1>4 DEF PathInv, PathRest, IdleIsQuiet
<1>8. Path'
  <2>1. \A d \in Conn \ {c} : Quiet(d) => Quiet(d)'
    BY <1>1, <1>3 DEF Quiet
  <2>2. \A d \in Conn \ {c}, v \in Caller : Carries(d, Current(v)) => Carries(d, Current(v))'
    BY <1>1, <1>3 DEF Carries, Current
  <2> QED BY <1>1, <1>2, <1>3, <1>4, <2>1, <2>2 DEF PathInv, PathRest, Path
<1> QED BY <1>5, <1>6, <1>7, <1>8 DEF PathRest

\* A step of a caller touches its own connection, if it has one, and no other.
LEMMA CallerPath ==
  ASSUME PathInv, NEW u \in Caller, NEW label, Goto(u, label), NEW c,
         \A v \in Caller \ {u} : number'[v] = number[v],
         \A d \in Conn \ {c} :
           /\ owner[d] # u /\ owner'[d] = owner[d] /\ open'[d] = open[d] /\ up'[d] = up[d]
           /\ down'[d] = down[d] /\ srv'[d] = srv[d] /\ job'[d] = job[d],
         c \in Conn =>
           /\ owner'[c] \in {u, Pool, Nobody}
           /\ owner'[c] = Pool => Quiet(c)'
           /\ owner'[c] = u =>
                /\ label \in {"write", "check", "read", "close"}
                /\ label = "write" \/ (label = "close" /\ open'[c]) => Quiet(c)'
                /\ label \in {"check", "read"} => Carries(c, Current(u))'
  PROVE  OneConnection' /\ IdleIsQuiet' /\ Path'
<1>1. pc'[u] = label /\ \A v \in Caller \ {u} : pc'[v] = pc[v] /\ Current(v)' = Current(v)
  BY DEF Goto, Current, PathInv, Inv, TypeOK
<1>2. Pool \notin Caller /\ Nobody \notin Caller /\ Nobody # Pool
  BY RpcCallAssumption
<1>3. OneConnection'
  BY <1>1, <1>2 DEF PathInv, PathRest, OneConnection
<1>4. \A d \in Conn \ {c} : Quiet(d) => Quiet(d)'
  BY DEF Quiet
<1>5. IdleIsQuiet'
  BY <1>2, <1>4 DEF PathInv, PathRest, IdleIsQuiet, Quiet
<1>6. Path'
  <2> SUFFICES ASSUME NEW d \in Conn, NEW v \in Caller, owner'[d] = v
               PROVE  /\ pc'[v] = "write" \/ (pc'[v] = "close" /\ open'[d]) => Quiet(d)'
                      /\ pc'[v] \in {"check", "read"} => Carries(d, Current(v))'
    BY DEF Path
  <2>1. CASE d = c
    BY <1>1, <1>2, <2>1
  <2>2. CASE d # c
    <3>1. v # u /\ owner[d] = v
      BY <2>2
    <3>2. Carries(d, Current(v)) => Carries(d, Current(v))'
      BY <1>1, <2>2, <3>1 DEF Carries
    <3> QED BY <1>1, <1>4, <2>2, <3>1, <3>2 DEF PathInv, PathRest, Path
  <2> QED BY <2>1, <2>2
<1> QED BY <1>3, <1>5, <1>6

LEMMA CallerResult ==
  ASSUME PathInv, NEW u \in Caller, NEW label, Goto(u, label),
         \A v \in Caller \ {u} :
           number'[v] = number[v] /\ parsed'[v] = parsed[v] /\ outcome'[v] = outcome[v],
         label # "close" => parsed'[u] = None /\ outcome'[u] = "none",
         parsed'[u] \in {None, Current(u)'}
  PROVE  Results' /\ ReadsOwnReply'
<1>1. pc'[u] = label /\ \A v \in Caller \ {u} : pc'[v] = pc[v] /\ Current(v)' = Current(v)
  BY DEF Goto, Current, PathInv, Inv, TypeOK
<1> QED BY <1>1 DEF PathInv, PathRest, Results, ReadsOwnReply

\* Before its end a call has neither a response nor an outcome.
LEMMA CallerNoResult ==
  ASSUME PathInv, NEW u \in Caller, NEW label, Goto(u, label), pc[u] # "close",
         \A v \in Caller \ {u} : number'[v] = number[v],
         UNCHANGED parsed,
         \/ UNCHANGED outcome
         \/ label = "close" /\ outcome' = [outcome EXCEPT ![u] = "error"]
  PROVE  Results' /\ ReadsOwnReply'
<1>1. parsed[u] = None /\ outcome[u] = "none"
  BY DEF PathInv, PathRest, Results
<1>2. \A v \in Caller \ {u} : outcome'[v] = outcome[v]
  BY DEF PathInv, Inv, TypeOK
<1> QED BY <1>1, <1>2, CallerResult

\* A caller that is not at work with a connection has none.
LEMMA Empty ==
  ASSUME PathInv, NEW u \in Caller, pc[u] \in {"idle", "get"}
  PROVE  \A c \in Conn : owner[c] # u
BY DEF PathInv, PathRest, OneConnection

LEMMA InvokePath == ASSUME PathInv, NEW u \in Caller, Invoke(u) PROVE PathRest'
<1>1. \A v \in Caller \ {u} : number'[v] = number[v]
  BY DEF Invoke, PathInv, Inv, TypeOK
<1>2. UNCHANGED <<owner, open, up, down, srv, job, outcome, parsed>> /\ Goto(u, "get") /\ pc[u] = "idle"
  BY DEF Invoke, lease, streams, server
<1>3. \A c \in Conn : owner[c] # u
  BY <1>2, Empty
<1>4. None \notin Conn
  BY RpcCallAssumption
<1>5. OneConnection' /\ IdleIsQuiet' /\ Path'
  BY <1>1, <1>2, <1>3, <1>4, CallerPath
<1>6. Results' /\ ReadsOwnReply'
  BY <1>1, <1>2, CallerNoResult
<1> QED BY <1>2, <1>5, <1>6 DEF PathInv, PathRest, Readable

LEMMA GetPath == ASSUME PathInv, NEW u \in Caller, GetIdle(u) \/ GetDial(u) PROVE PathRest'
<1>1. /\ UNCHANGED <<up, down, job, number, parsed>> /\ pc[u] = "get"
      /\ \A c \in Conn : owner[c] # u
  BY Empty DEF GetIdle, GetDial, streams, server
<1>2. ASSUME NEW c \in Conn, Lease!Borrow(u, c), Goto(u, "write"), UNCHANGED <<srv, outcome>>
      PROVE  PathRest'
  <2>1. /\ owner[c] = Pool /\ owner'[c] = u /\ open' = open
        /\ \A d \in Conn \ {c} : owner'[d] = owner[d]
    BY <1>2 DEF Lease!Borrow, Lease!Moves, PathInv, Inv, TypeOK
  <2>2. Quiet(c)'
    BY <1>1, <1>2, <2>1 DEF PathInv, PathRest, IdleIsQuiet, Quiet
  <2>3. u # Pool /\ u # Nobody
    BY RpcCallAssumption
  <2>4. OneConnection' /\ IdleIsQuiet' /\ Path'
    BY <1>1, <1>2, <2>1, <2>2, <2>3, CallerPath
  <2>5. Results' /\ ReadsOwnReply'
    BY <1>1, <1>2, CallerNoResult
  <2> QED BY <1>1, <2>4, <2>5 DEF PathInv, PathRest, Readable
<1>3. ASSUME NEW c \in Conn, Lease!Create(u, c), srv[c] = "none",
             srv' = [srv EXCEPT ![c] = "backlog"], Goto(u, "write"), UNCHANGED outcome
      PROVE  PathRest'
  <2>1. /\ owner'[c] = u
        /\ \A d \in Conn \ {c} : owner'[d] = owner[d] /\ open'[d] = open[d] /\ srv'[d] = srv[d]
    BY <1>3 DEF Lease!Create, Lease!Moves, PathInv, Inv, TypeOK
  <2>2. Quiet(c)'
    BY <1>1, <1>3 DEF PathInv, Inv, Rest, Unused, Working, Quiet
  <2>3. u # Pool /\ u # Nobody
    BY RpcCallAssumption
  <2>4. OneConnection' /\ IdleIsQuiet' /\ Path'
    BY <1>1, <1>3, <2>1, <2>2, <2>3, CallerPath
  <2>5. Results' /\ ReadsOwnReply'
    BY <1>1, <1>3, CallerNoResult
  <2> QED BY <1>1, <2>4, <2>5 DEF PathInv, PathRest, Readable
<1>4. ASSUME Goto(u, "close"), UNCHANGED <<owner, open, srv>>,
             outcome' = [outcome EXCEPT ![u] = "error"]
      PROVE  PathRest'
  <2>1. None \notin Conn
    BY RpcCallAssumption
  <2>2. OneConnection' /\ IdleIsQuiet' /\ Path'
    BY <1>1, <1>4, <2>1, CallerPath
  <2>3. Results' /\ ReadsOwnReply'
    BY <1>1, <1>4, CallerNoResult
  <2> QED BY <1>1, <2>2, <2>3 DEF PathInv, PathRest, Readable
<1>5. CASE GetIdle(u)
  BY <1>2, <1>5 DEF GetIdle, server
<1>6. CASE GetDial(u)
  BY <1>3, <1>4, <1>6 DEF GetDial, lease
<1> QED BY <1>5, <1>6

\* A caller with a connection has no other.
LEMMA Only ==
  ASSUME PathInv, NEW u \in Caller, NEW c \in Conn, owner[c] = u
  PROVE  \A d \in Conn \ {c} : owner[d] # u
BY DEF PathInv, PathRest, OneConnection

LEMMA WritePath == ASSUME PathInv, NEW u \in Caller, Write(u) PROVE PathRest'
<1>1. UNCHANGED <<down, srv, job, number, parsed>> /\ pc[u] = "write"
  BY DEF Write, server
<1>2. PICK c \in Conn : Write(u)!2!(c)
  BY DEF Write
<1>3. owner[c] = u /\ \A d \in Conn \ {c} : owner[d] # u
  BY <1>2, Only DEF Has
<1>4. Quiet(c)
  BY <1>1, <1>3 DEF PathInv, PathRest, Path
<1>5. u # Pool /\ u # Nobody
  BY RpcCallAssumption
<1>6. CASE up' = [up EXCEPT ![c] = Append(@, Current(u))] /\ Goto(u, "check") /\ UNCHANGED <<lease, outcome>>
  <2>1. UNCHANGED <<owner, open>> /\ \A d \in Conn \ {c} : up'[d] = up[d]
    BY <1>6 DEF lease, PathInv, Inv, TypeOK
  <2>2. Current(u)' = Current(u)
    BY <1>1 DEF Current
  <2>3. Carries(c, Current(u))'
    <3>1. ASSUME srv[c] # "closed" PROVE up'[c] = <<Current(u)>>
      <4>1. up'[c] = Append(up[c], Current(u))
        BY <1>6 DEF PathInv, Inv, TypeOK
      <4>2. up[c] = <<>>
        BY <1>4, <3>1 DEF Quiet
      <4> QED BY <4>1, <4>2
    <3>2. down'[c] = <<>> /\ job'[c] = None /\ srv'[c] = srv[c]
      BY <1>1, <1>4 DEF Quiet
    <3>3. Len(down'[c]) = 0
      BY <3>2
    <3> DEFINE k == Current(u)
    <3>4. up'[c] = <<k>> \/ srv'[c] = "closed"
      BY <3>1, <3>2
    <3>5. k' = k
      BY <2>2
    <3> HIDE DEF k
    <3>6. 1..Len(down'[c]) = {} /\ Len(down'[c]) <= 1
      BY <3>3
    <3>7. srv'[c] # "closed" => up'[c] = <<k'>>
      BY <3>4, <3>5
    <3>8. Carries(c, k)'
      BY <3>2, <3>6, <3>7 DEF Carries
    <3> QED BY <3>8 DEF k
  <2>4. OneConnection' /\ IdleIsQuiet' /\ Path'
    BY <1>1, <1>3, <1>5, <1>6, <2>1, <2>3, CallerPath
  <2>5. Results' /\ ReadsOwnReply'
    BY <1>1, <1>6, CallerNoResult
  <2> QED BY <1>1, <2>4, <2>5 DEF PathInv, PathRest, Readable
<1>7. CASE /\ Lease!Break(u, c) /\ outcome' = [outcome EXCEPT ![u] = "error"]
           /\ Goto(u, "close") /\ UNCHANGED up
  <2>1. owner' = owner /\ ~open'[c] /\ \A d \in Conn \ {c} : open'[d] = open[d]
    BY <1>7 DEF Lease!Break, PathInv, Inv, TypeOK
  <2>2. OneConnection' /\ IdleIsQuiet' /\ Path'
    BY <1>1, <1>3, <1>5, <1>7, <2>1, CallerPath
  <2>3. Results' /\ ReadsOwnReply'
    BY <1>1, <1>7, CallerNoResult
  <2> QED BY <1>1, <2>2, <2>3 DEF PathInv, PathRest, Readable
<1> QED BY <1>2, <1>6, <1>7

LEMMA DonePath == ASSUME PathInv, Kept, NEW u \in Caller, IsDone(u) PROVE PathRest'
<1>1. /\ UNCHANGED <<owner, open, up, down, srv, job, number, parsed, outcome>>
      /\ pc[u] = "check" /\ Goto(u, "read")
  BY DEF IsDone, Done, Kept, lease, streams, server
<1>2. OneConnection' /\ IdleIsQuiet' /\ Path'
  <2>1. CASE \E c \in Conn : owner[c] = u
    <3>1. PICK c \in Conn : owner[c] = u
      BY <2>1
    <3>2. \A d \in Conn \ {c} : owner[d] # u
      BY <3>1, Only
    <3>3. u # Pool /\ u # Nobody
      BY RpcCallAssumption
    <3>4. Carries(c, Current(u))
      BY <1>1, <3>1 DEF PathInv, PathRest, Path
    <3>5. Carries(c, Current(u))'
      BY <1>1, <3>4 DEF Carries, Current
    <3> QED BY <1>1, <3>1, <3>2, <3>3, <3>5, CallerPath
  <2>2. CASE \A c \in Conn : owner[c] # u
    <3>1. None \notin Conn
      BY RpcCallAssumption
    <3> QED BY <1>1, <2>2, <3>1, CallerPath
  <2> QED BY <2>1, <2>2
<1>3. Results' /\ ReadsOwnReply'
  BY <1>1, CallerNoResult
<1> QED BY <1>1, <1>2, <1>3 DEF PathInv, PathRest, Readable

\* What a call reads is the response to its request, and the last that there is.
LEMMA ReadsTheResponse ==
  ASSUME PathInv, NEW u \in Caller, NEW c \in Conn, pc[u] = "read", Has(u, c), down[c] # <<>>
  PROVE  /\ Len(down[c]) = 1 /\ Head(down[c]) = down[c][1]
         /\ down[c][1].call = Current(u) /\ down[c][1].size = "frame"
         /\ Tail(down[c]) = <<>> /\ job[c] = None /\ (srv[c] # "closed" => up[c] = <<>>)
<1>1. Carries(c, Current(u))
  BY DEF Has, PathInv, PathRest, Path
<1> DEFINE Frame == [call : Call, size : {"frame", "big"}]
<1>2. down[c] \in Seq(Frame)
  BY DEF PathInv, Inv, TypeOK
<1> HIDE DEF Frame
<1>3. Len(down[c]) = 1 /\ Head(down[c]) = down[c][1] /\ Tail(down[c]) = <<>>
  BY <1>1, <1>2, Single DEF Carries
<1>4. down[c][1].call = Current(u) /\ down[c][1].size = "frame"
  BY <1>1, <1>3 DEF Carries, PathInv, PathRest, Readable
<1> QED BY <1>1, <1>3, <1>4 DEF Carries

LEMMA ReadPath == ASSUME PathInv, NEW u \in Caller, Read(u) PROVE PathRest'
<1>1. UNCHANGED <<owner, open, up, srv, job, number>> /\ pc[u] = "read" /\ Goto(u, "close")
  BY DEF Read, lease, server
<1>2. PICK c \in Conn : Read(u)!2!(c)
  BY DEF Read
<1>3. /\ owner[c] = u /\ job[c] = None /\ (srv[c] # "closed" => up[c] = <<>>)
      /\ Head(down[c]).call = Current(u) /\ Head(down[c]).size = "frame" /\ Tail(down[c]) = <<>>
  BY <1>1, <1>2, ReadsTheResponse DEF Has
<1>4. /\ parsed' = [parsed EXCEPT ![u] = Current(u)] /\ outcome' = [outcome EXCEPT ![u] = "ok"]
      /\ down' = [down EXCEPT ![c] = <<>>]
  BY <1>2, <1>3
<1>5. down'[c] = <<>> /\ \A d \in Conn \ {c} : down'[d] = down[d]
  BY <1>4 DEF PathInv, Inv, TypeOK
<1>6. OneConnection' /\ IdleIsQuiet' /\ Path'
  <2>1. Quiet(c)'
    BY <1>1, <1>3, <1>5 DEF Quiet
  <2>2. \A d \in Conn \ {c} : owner[d] # u
    BY <1>3, Only
  <2>3. u # Pool /\ u # Nobody
    BY RpcCallAssumption
  <2> QED BY <1>1, <1>3, <1>5, <2>1, <2>2, <2>3, CallerPath
<1>7. Results' /\ ReadsOwnReply'
  <2>1. parsed'[u] = Current(u) /\ Current(u)' = Current(u)
    BY <1>1, <1>4 DEF Current, PathInv, Inv, TypeOK
  <2>2. \A v \in Caller \ {u} : parsed'[v] = parsed[v] /\ outcome'[v] = outcome[v]
    BY <1>4 DEF PathInv, Inv, TypeOK
  <2> QED BY <1>1, <2>1, <2>2, CallerResult
<1>8. Readable'
  <2>1. 1..Len(down'[c]) = {}
    BY <1>5
  <2> QED BY <1>5, <2>1 DEF PathInv, PathRest, Readable
<1> QED BY <1>6, <1>7, <1>8 DEF PathRest

LEMMA ReadErrPath == ASSUME PathInv, NEW u \in Caller, ReadErr(u) PROVE PathRest'
<1>1. /\ UNCHANGED <<up, down, srv, job, number, parsed>> /\ pc[u] = "read" /\ Goto(u, "close")
      /\ outcome' = [outcome EXCEPT ![u] = "error"]
  BY DEF ReadErr, streams, server
<1>2. PICK c \in Conn : Has(u, c) /\ Lease!Break(u, c)
  BY DEF ReadErr
<1>3. owner[c] = u /\ owner' = owner /\ ~open'[c] /\ \A d \in Conn \ {c} : open'[d] = open[d]
  BY <1>2 DEF Has, Lease!Break, PathInv, Inv, TypeOK
<1>4. \A d \in Conn \ {c} : owner[d] # u
  BY <1>3, Only
<1>5. u # Pool /\ u # Nobody
  BY RpcCallAssumption
<1>6. OneConnection' /\ IdleIsQuiet' /\ Path'
  BY <1>1, <1>3, <1>4, <1>5, CallerPath
<1>7. Results' /\ ReadsOwnReply'
  BY <1>1, CallerNoResult
<1> QED BY <1>1, <1>6, <1>7 DEF PathInv, PathRest, Readable

LEMMA ClosePath == ASSUME PathInv, NEW u \in Caller, Close(u) PROVE PathRest'
<1>1. /\ UNCHANGED <<up, down, srv, job, number>> /\ pc[u] = "close" /\ Goto(u, "idle")
      /\ outcome' = [outcome EXCEPT ![u] = "none"] /\ parsed' = [parsed EXCEPT ![u] = None]
  BY DEF Close, streams, server
<1>2. u # Pool /\ u # Nobody /\ None \notin Conn /\ Nobody # Pool
  BY RpcCallAssumption
<1>3. OneConnection' /\ IdleIsQuiet' /\ Path'
  <2>1. CASE \E c \in Conn : Has(u, c) /\ GiveBack(u, c)
    <3>1. PICK c \in Conn : Has(u, c) /\ GiveBack(u, c)
      BY <2>1
    <3>2. /\ owner[c] = u /\ owner'[c] = (IF open[c] THEN Pool ELSE Nobody)
          /\ \A d \in Conn \ {c} : owner'[d] = owner[d] /\ open'[d] = open[d]
      BY <3>1 DEF Has, GiveBack, Lease!Return, Lease!Retire, Lease!Moves, PathInv, Inv, TypeOK
    <3>3. open[c] => Quiet(c)
      BY <1>1, <3>2 DEF PathInv, PathRest, Path
    <3>4. open[c] => Quiet(c)'
      BY <1>1, <3>3 DEF Quiet
    <3>5. \A d \in Conn \ {c} : owner[d] # u
      BY <3>2, Only
    <3>6. owner'[c] \in {Pool, Nobody} /\ owner'[c] # u /\ (owner'[c] = Pool => Quiet(c)')
      BY <1>2, <3>2, <3>4
    <3> QED BY <1>1, <3>2, <3>5, <3>6, CallerPath
  <2>2. CASE (\A c \in Conn : ~Has(u, c)) /\ UNCHANGED lease
    BY <1>1, <1>2, <2>2, CallerPath DEF Has, lease
  <2> QED BY <2>1, <2>2 DEF Close
<1>4. Results' /\ ReadsOwnReply'
  <2>1. parsed'[u] = None /\ outcome'[u] = "none"
    BY <1>1 DEF PathInv, Inv, TypeOK
  <2>2. \A v \in Caller \ {u} : parsed'[v] = parsed[v] /\ outcome'[v] = outcome[v]
    BY <1>1 DEF PathInv, Inv, TypeOK
  <2> QED BY <1>1, <2>1, <2>2, CallerResult
<1> QED BY <1>1, <1>3, <1>4 DEF PathInv, PathRest, Readable

LEMMA PathNext == PathInv /\ Kept /\ [Next]_vars => PathInv'
<1> SUFFICES ASSUME PathInv, Kept, [Next]_vars PROVE PathInv'
  OBVIOUS
<1>1. Inv'
  BY InvNext DEF PathInv
<1>2. ASSUME NEW u \in Caller, Invoke(u) \/ CallerStep(u) PROVE PathRest'
  BY <1>2, InvokePath, GetPath, WritePath, DonePath, ReadPath, ReadErrPath, ClosePath
  DEF CallerStep
<1>3. ASSUME NEW u \in Caller, CtxDone(u) PROVE PathRest'
  BY <1>3, StutterPath DEF CtxDone, lease, streams, server
<1>4. ASSUME NEW c \in Conn, Evict(c) \/ Accept(c) \/ ConnStep(c) \/ Forget(c) PROVE PathRest'
  BY <1>4, UnusedPath, ConnStepPath
<1>5. ASSUME ServeTop \/ Stop PROVE PathRest'
  BY <1>5, StutterPath DEF ServeTop, Stop, lease, client, streams
<1>6. ASSUME UNCHANGED vars PROVE PathRest'
  BY <1>6, StutterPath DEF vars, lease, client, streams, server
<1> QED BY <1>1, <1>2, <1>3, <1>4, <1>5, <1>6 DEF Next, PathInv

LEMMA PathAlways == Spec /\ []Kept => []PathInv
<1>1. Init => PathInv
  BY InitTypes, InitRest, InitPath DEF Inv, PathInv
<1> QED BY <1>1, PathNext, PTL DEF Spec
-----------------------------------------------------------------------------
(* The theorems about a path that is kept *)

\* A call never gets the response to another: not when connections are reused,
\* evicted or broken, when the server stops or leaves a request unanswered, nor
\* when a context ends elsewhere than between the request and the response.
THEOREM OwnReplies == Spec /\ []Kept => []ReadsOwnReply
<1>1. PathInv => ReadsOwnReply
  BY DEF PathInv, PathRest
<1> QED BY <1>1, PathAlways, PTL

\* What is in the pool can be used: nothing waits on an idle connection to be
\* taken for the response to the next request.
THEOREM IdleConnectionsAreQuiet == Spec /\ []Kept => []IdleIsQuiet
<1>1. PathInv => IdleIsQuiet
  BY DEF PathInv, PathRest
<1> QED BY <1>1, PathAlways, PTL
-----------------------------------------------------------------------------
(* The path implements Rpc *)

answer == [u \in Caller |-> IF outcome[u] = "ok" THEN parsed[u] ELSE None]

LEMMA AbstractStutter ==
  ASSUME UNCHANGED <<phase, number, answer, executed>> PROVE UNCHANGED Abstract!rpcVars
BY DEF Abstract!rpcVars, answer

\* Only the step of a caller changes its phase and its answer.
LEMMA PhaseStep ==
  ASSUME PathInv, NEW u \in Caller, NEW label, Goto(u, label),
         \A v \in Caller \ {u} : outcome'[v] = outcome[v] /\ parsed'[v] = parsed[v]
  PROVE  /\ phase' = [phase EXCEPT ![u] = phase'[u]]
         /\ answer' = [answer EXCEPT ![u] = answer'[u]]
         /\ phase'[u] = (IF label = "idle" THEN "idle" ELSE IF label # "close" THEN "pending"
                         ELSE IF outcome'[u] = "ok" THEN "replied" ELSE "failed")
         /\ answer'[u] = (IF outcome'[u] = "ok" THEN parsed'[u] ELSE None)
<1>1. pc'[u] = label /\ \A v \in Caller \ {u} : pc'[v] = pc[v]
  BY DEF Goto, PathInv, Inv, TypeOK
<1>2. \A v \in Caller \ {u} : phase'[v] = phase[v] /\ answer'[v] = answer[v]
  BY <1>1 DEF phase, answer
<1>3. phase'[u] = (IF label = "idle" THEN "idle" ELSE IF label # "close" THEN "pending"
                   ELSE IF outcome'[u] = "ok" THEN "replied" ELSE "failed")
  BY <1>1 DEF phase
<1>4. answer'[u] = (IF outcome'[u] = "ok" THEN parsed'[u] ELSE None)
  BY DEF answer
<1>5. phase' = [phase EXCEPT ![u] = phase'[u]]
  <2>1. phase' = [v \in Caller |-> phase'[v]] /\ phase = [v \in Caller |-> phase[v]]
    BY DEF phase
  <2> QED BY <1>2, <2>1
<1>6. answer' = [answer EXCEPT ![u] = answer'[u]]
  <2>1. answer' = [v \in Caller |-> answer'[v]] /\ answer = [v \in Caller |-> answer[v]]
    BY DEF answer
  <2> QED BY <1>2, <2>1
<1> QED BY <1>3, <1>4, <1>5, <1>6

LEMMA OnTheWay ==
  ASSUME PathInv, NEW u \in Caller, NEW label, Goto(u, label), pc[u] \notin {"idle", "close"},
         label \notin {"idle", "close"}, UNCHANGED <<outcome, parsed, number, executed>>
  PROVE  UNCHANGED Abstract!rpcVars
<1>1. \A v \in Caller : phase'[v] = phase[v]
  BY DEF phase, Goto, PathInv, Inv, TypeOK
<1>2. UNCHANGED <<phase, answer>>
  BY <1>1 DEF phase, answer
<1> QED BY <1>2, AbstractStutter

LEMMA FailStep ==
  ASSUME PathInv, NEW u \in Caller, Goto(u, "close"), pc[u] \notin {"idle", "close"},
         outcome' = [outcome EXCEPT ![u] = "error"], UNCHANGED <<parsed, number, executed>>
  PROVE  Abstract!Fail(u)
<1>1. outcome[u] = "none" /\ phase[u] = "pending"
  BY DEF phase, PathInv, PathRest, Results
<1>2. outcome'[u] = "error" /\ \A v \in Caller \ {u} : outcome'[v] = outcome[v]
  BY DEF PathInv, Inv, TypeOK
<1>3. phase' = [phase EXCEPT ![u] = "failed"]
  BY <1>2, PhaseStep
<1>4. answer' = answer
  <2>1. \A v \in Caller : answer'[v] = answer[v]
    BY <1>1, <1>2 DEF answer
  <2> QED BY <2>1 DEF answer
<1> QED BY <1>1, <1>3, <1>4 DEF Abstract!Fail, answer

\* The steps of a caller are Begin, Replied, Fail and Finish, or nothing at all.
LEMMA CallerRefines ==
  ASSUME PathInv, NEW u \in Caller, Invoke(u) \/ CtxDone(u) \/ CallerStep(u)
  PROVE  \/ Abstract!Begin(u) \/ Abstract!Replied(u) \/ Abstract!Fail(u) \/ Abstract!Finish(u)
         \/ UNCHANGED Abstract!rpcVars
<1>1. CASE Invoke(u)
  <2>1. phase[u] = "idle" /\ number[u] < MaxCalls /\ UNCHANGED <<outcome, parsed, executed>>
    BY <1>1 DEF Invoke, phase, server
  <2>2. phase' = [phase EXCEPT ![u] = "pending"]
    BY <1>1, <2>1, PhaseStep DEF Invoke
  <2>3. number' = [number EXCEPT ![u] = @ + 1] /\ answer' = answer
    BY <1>1, <2>1 DEF Invoke, answer
  <2> QED BY <2>1, <2>2, <2>3 DEF Abstract!Begin, answer
<1>2. CASE CtxDone(u)
  <2>1. UNCHANGED <<phase, answer, number, executed>>
    BY <1>2 DEF CtxDone, phase, answer, server
  <2> QED BY <2>1, AbstractStutter
<1>3. CASE GetIdle(u)
  BY <1>3, OnTheWay DEF GetIdle, server
<1>4. CASE GetDial(u)
  BY <1>4, OnTheWay, FailStep DEF GetDial
<1>5. CASE Write(u)
  BY <1>5, OnTheWay, FailStep DEF Write, server
<1>6. CASE IsDone(u)
  BY <1>6, OnTheWay, FailStep DEF IsDone, server
<1>7. CASE Read(u)
  <2>1. PICK c \in Conn : Read(u)!2!(c)
    BY <1>7 DEF Read
  <2>2. pc[u] = "read" /\ Goto(u, "close") /\ UNCHANGED <<number, executed>>
    BY <1>7 DEF Read, server
  <2>3. /\ Len(down[c]) = 1 /\ Head(down[c]) = down[c][1]
        /\ down[c][1].call = Current(u) /\ down[c][1].size = "frame"
    BY <2>1, <2>2, ReadsTheResponse
  <2>4. /\ parsed' = [parsed EXCEPT ![u] = Current(u)] /\ outcome' = [outcome EXCEPT ![u] = "ok"]
    BY <2>1, <2>3
  <2>5. executed[Current(u)] = 1
    <3>1. 1 \in 1..Len(down[c])
      BY <2>3
    <3> QED BY <2>3, <3>1 DEF PathInv, Inv, Rest, Answered
  <2>6. /\ outcome'[u] = "ok" /\ parsed'[u] = Current(u)
        /\ \A v \in Caller \ {u} : outcome'[v] = outcome[v] /\ parsed'[v] = parsed[v]
    BY <2>4 DEF PathInv, Inv, TypeOK
  <2>7. /\ phase' = [phase EXCEPT ![u] = "replied"]
        /\ answer' = [answer EXCEPT ![u] = Current(u)]
    BY <2>2, <2>6, PhaseStep
  <2>8. phase[u] = "pending"
    BY <2>2 DEF phase
  <2> QED BY <2>2, <2>5, <2>7, <2>8 DEF Abstract!Replied, Abstract!Current, Current, answer
<1>8. CASE ReadErr(u)
  BY <1>8, FailStep DEF ReadErr, server
<1>9. CASE Close(u)
  <2>1. /\ pc[u] = "close" /\ Goto(u, "idle") /\ UNCHANGED <<number, executed>>
        /\ outcome' = [outcome EXCEPT ![u] = "none"] /\ parsed' = [parsed EXCEPT ![u] = None]
    BY <1>9 DEF Close, server
  <2>2. /\ outcome'[u] = "none"
        /\ \A v \in Caller \ {u} : outcome'[v] = outcome[v] /\ parsed'[v] = parsed[v]
    BY <2>1 DEF PathInv, Inv, TypeOK
  <2>3. phase' = [phase EXCEPT ![u] = "idle"] /\ answer' = [answer EXCEPT ![u] = None]
    BY <2>1, <2>2, PhaseStep
  <2>4. phase[u] \in {"replied", "failed"}
    BY <2>1 DEF phase
  <2> QED BY <2>1, <2>3, <2>4 DEF Abstract!Finish, answer
<1> QED BY <1>1, <1>2, <1>3, <1>4, <1>5, <1>6, <1>7, <1>8, <1>9 DEF CallerStep

\* handle executes a request that was sent and has not been executed; nothing
\* else that happens to a connection or a server is seen by the callers.
LEMMA HandleRefines ==
  ASSUME PathInv, NEW c \in Conn, SrvHandle(c) PROVE Abstract!Execute(job[c])
<1>1. job[c] \in Call /\ executed[job[c]] = 0
  BY DEF SrvHandle, PathInv, Inv, Rest, Working, Pending, TypeOK
<1>2. job[c][2] <= number[job[c][1]]
  <2>1. ~Unsent(job[c])
    BY <1>1 DEF PathInv, Inv, Rest, Fresh
  <2>2. job[c][1] \in Caller /\ job[c][2] \in Nat
    BY <1>1 DEF Call
  <2>3. number[job[c][1]] \in Nat
    BY <2>2, RpcCallAssumption DEF PathInv, Inv, TypeOK
  <2> QED BY <2>1, <2>2, <2>3 DEF Unsent
<1>3. executed' = [executed EXCEPT ![job[c]] = 1]
  BY <1>1 DEF SrvHandle, PathInv, Inv, TypeOK
<1>4. UNCHANGED <<phase, number, answer>>
  BY DEF SrvHandle, client, phase, answer
<1> QED BY <1>1, <1>2, <1>3, <1>4 DEF Abstract!Execute, answer

LEMMA Unseen ==
  ASSUME UNCHANGED <<client, executed>> PROVE UNCHANGED Abstract!rpcVars
<1>1. UNCHANGED <<phase, answer, number, executed>>
  BY DEF client, phase, answer
<1> QED BY <1>1, AbstractStutter

\* The path implements Rpc: begun once, executed at most once and only if it was
\* begun, answered only by its own response, with each of the steps in between
\* invisible.
THEOREM PathImplementsRpc == Spec /\ []Kept => ImplementsRpc
<1>1. Init => Abstract!RpcInit
  BY DEF Init, Abstract!RpcInit, phase, Call, Abstract!Call
<1>2. PathInv /\ [Next]_vars => [Abstract!RpcNext]_Abstract!rpcVars
  <2> SUFFICES ASSUME PathInv, [Next]_vars PROVE Abstract!RpcNext \/ UNCHANGED Abstract!rpcVars
    OBVIOUS
  <2>1. ASSUME NEW u \in Caller, Invoke(u) \/ CtxDone(u) \/ CallerStep(u)
        PROVE  Abstract!RpcNext \/ UNCHANGED Abstract!rpcVars
    BY <2>1, CallerRefines DEF Abstract!RpcNext
  <2>2. ASSUME NEW c \in Conn, SrvHandle(c) PROVE Abstract!RpcNext
    <3>1. job[c] \in Abstract!Call
      BY <2>2 DEF SrvHandle, PathInv, Inv, Rest, Working, TypeOK, Call, Abstract!Call
    <3> QED BY <2>2, <3>1, HandleRefines DEF Abstract!RpcNext
  <2>3. ASSUME NEW c \in Conn, Evict(c) \/ Accept(c) \/ ConnTop(c) \/ SrvRead(c) \/ SrvEnd(c)
                                 \/ SrvWrite(c) \/ Forget(c)
        PROVE  UNCHANGED Abstract!rpcVars
    BY <2>3, Unseen DEF Evict, Accept, ConnTop, SrvRead, SrvEnd, SrvWrite, Forget, server
  <2>4. CASE ServeTop \/ Stop
    BY <2>4, Unseen DEF ServeTop, Stop
  <2>5. CASE UNCHANGED vars
    BY <2>5, Unseen DEF vars, server
  <2> QED BY <2>1, <2>2, <2>3, <2>4, <2>5 DEF Next, ConnStep
<1> QED BY <1>1, <1>2, PathAlways, PTL DEF Spec, ImplementsRpc, Abstract!RpcSpec

\* No call gives up, in particular, when contexts do not end and responses are
\* not too big.
LEMMA PatientKeeps ==
  ASSUME ~CanCancel, "big" \notin Reply PROVE Spec => []Kept
<1> DEFINE Patient ==
      /\ Inv /\ (\A u \in Caller : ~cancelled[u])
      /\ \A c \in Conn : srv[c] = "write" => rsp[c] # "big"
<1>1. Init => Patient
  BY InitTypes, InitRest DEF Init, Inv
<1>2. Patient /\ [Next]_vars => Patient'
  <2> SUFFICES ASSUME Patient, [Next]_vars PROVE Patient'
    OBVIOUS
  <2>1. Inv'
    BY InvNext
  <2>2. \A u \in Caller : ~cancelled'[u]
    <3>1. ASSUME NEW u \in Caller, Invoke(u) PROVE cancelled' = cancelled
      BY <3>1 DEF Invoke, Inv, TypeOK
    <3>2. ASSUME NEW u \in Caller, CallerStep(u) PROVE cancelled' = cancelled
      BY <3>2 DEF CallerStep, GetIdle, GetDial, Write, IsDone, Read, ReadErr, Close
    <3>3. ASSUME NEW c \in Conn, Evict(c) \/ Accept(c) \/ ConnStep(c) \/ Forget(c)
          PROVE  cancelled' = cancelled
      BY <3>3 DEF Evict, Accept, ConnStep, ConnTop, SrvRead, SrvEnd, SrvHandle, SrvWrite,
                  Forget, client
    <3>4. CASE ServeTop \/ Stop \/ UNCHANGED vars
      BY <3>4 DEF ServeTop, Stop, vars, client
    <3> QED BY <3>1, <3>2, <3>3, <3>4 DEF Next, CtxDone
  <2>3. \A c \in Conn : srv'[c] = "write" => rsp'[c] # "big"
    <3>1. ASSUME NEW u \in Caller, Invoke(u) \/ CtxDone(u) \/ CallerStep(u) PROVE <2>3!:
      <4>1. rsp' = rsp
        BY <3>1 DEF Invoke, CtxDone, CallerStep, GetIdle, GetDial, Write, IsDone, Read, ReadErr,
                    Close, server
      <4>2. \A c \in Conn : srv'[c] = "write" => srv[c] = "write"
        BY <3>1 DEF Invoke, CtxDone, CallerStep, GetIdle, GetDial, Write, IsDone, Read, ReadErr,
                    Close, server, Inv, TypeOK
      <4> QED BY <4>1, <4>2
    <3>2. ASSUME NEW c \in Conn,
                 Evict(c) \/ Accept(c) \/ ConnTop(c) \/ SrvRead(c) \/ SrvEnd(c) \/ SrvWrite(c) \/ Forget(c)
          PROVE  <2>3!:
      <4>1. rsp' = rsp
        BY <3>2 DEF Evict, Accept, ConnTop, SrvRead, SrvEnd, SrvWrite, Forget, server
      <4>2. \A d \in Conn : srv'[d] = "write" => srv[d] = "write"
        BY <3>2 DEF Evict, Accept, ConnTop, SrvRead, SrvEnd, SrvWrite, Forget, server, Inv, TypeOK
      <4> QED BY <4>1, <4>2
    <3>3. ASSUME NEW c \in Conn, SrvHandle(c) PROVE <2>3!:
      BY <3>3 DEF SrvHandle, Inv, TypeOK
    <3>4. CASE ServeTop \/ Stop \/ UNCHANGED vars
      BY <3>4 DEF ServeTop, Stop, vars, server
    <3> QED BY <3>1, <3>2, <3>3, <3>4 DEF Next, ConnStep
  <2> QED BY <2>1, <2>2, <2>3
<1>3. Patient => Kept
  BY DEF Kept
<1> QED BY <1>1, <1>2, <1>3, PTL DEF Spec

\* What call_path checks of two callers: while contexts do not end and responses
\* are not too big, every call gets its own response and the path implements Rpc.
COROLLARY PatientCalls ==
  ASSUME ~CanCancel, "big" \notin Reply
  PROVE  Spec => []ReadsOwnReply /\ []IdleIsQuiet /\ ImplementsRpc
BY PatientKeeps, OwnReplies, IdleConnectionsAreQuiet, PathImplementsRpc
-----------------------------------------------------------------------------
(* The pool as calls see it *)

\* Calls deal with connections only as ConnLease allows, which is what the pool
\* implements: the two halves of the client meet there.  A connection that is
\* given back is open and was the caller's; a closed one is let go of.
THEOREM CallsKeepTheLease == Spec => Lease!LeaseSpec
<1>1. Init => Lease!LeaseInit
  <2> SUFFICES ASSUME Init PROVE Lease!LeaseInit
    OBVIOUS
  <2>1. owner = [c \in Conn |-> Nobody] /\ open = [c \in Conn |-> FALSE]
    BY DEF Init
  <2>2. ASSUME NEW c \in Conn PROVE FALSE <=> owner[c] = Pool
    BY <2>1, RpcCallAssumption
  <2>3. [c \in Conn |-> FALSE] = [c \in Conn |-> owner[c] = Pool]
    BY <2>2, Zenon
  <2> QED
    BY <2>1, <2>3 DEF Lease!LeaseInit
<1>2. [Next]_vars => [Lease!LeaseNext]_(Lease!leaseVars)
  <2> SUFFICES ASSUME [Next]_vars PROVE Lease!LeaseNext \/ UNCHANGED Lease!leaseVars
    OBVIOUS
  <2> USE DEF Lease!leaseVars
  <2>1. ASSUME NEW u \in Caller, GetIdle(u) \/ GetDial(u) PROVE Lease!LeaseNext \/ UNCHANGED Lease!leaseVars
    BY <2>1 DEF GetIdle, GetDial, lease, Lease!LeaseNext
  <2>2. ASSUME NEW u \in Caller, Write(u) \/ ReadErr(u) PROVE Lease!LeaseNext \/ UNCHANGED Lease!leaseVars
    BY <2>2 DEF Write, ReadErr, lease, Lease!LeaseNext
  <2>3. ASSUME NEW u \in Caller, Close(u) PROVE Lease!LeaseNext \/ UNCHANGED Lease!leaseVars
    BY <2>3 DEF Close, GiveBack, lease, Lease!LeaseNext
  <2>4. ASSUME NEW u \in Caller, Invoke(u) \/ CtxDone(u) \/ IsDone(u) \/ Read(u)
        PROVE  UNCHANGED Lease!leaseVars
    BY <2>4 DEF Invoke, CtxDone, IsDone, Read, lease
  <2>5. ASSUME NEW c \in Conn, Evict(c) PROVE Lease!LeaseNext
    BY <2>5 DEF Evict, Lease!LeaseNext
  <2>6. ASSUME NEW c \in Conn, Accept(c) \/ ConnStep(c) \/ Forget(c) PROVE UNCHANGED Lease!leaseVars
    BY <2>6 DEF Accept, ConnStep, ConnTop, SrvRead, SrvEnd, SrvHandle, SrvWrite, Forget, lease
  <2>7. CASE ServeTop \/ Stop \/ UNCHANGED vars
    BY <2>7 DEF ServeTop, Stop, vars, lease
  <2> QED
    BY <2>1, <2>2, <2>3, <2>4, <2>5, <2>6, <2>7 DEF Next, CallerStep
<1> QED
  BY <1>1, <1>2, PTL DEF Spec, Lease!LeaseSpec
=============================================================================
