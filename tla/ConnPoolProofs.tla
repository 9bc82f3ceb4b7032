--------------------------- MODULE ConnPoolProofs ---------------------------
(***************************************************************************)
(* Proofs about ConnPool for any number of callers, of callers of Close,   *)
(* and any capacity.                                                       *)
(***************************************************************************)
EXTENDS ConnPool, SequenceTheorems, FiniteSetTheorems, TLAPS

\* The kinds of steps, for the case analysis of every proof below.
Step ==
  \/ \E u \in User : \/ GetStart(u) \/ GetRecv(u) \/ GetDial(u) \/ Dialled(u)
                     \/ UseRead(u) \/ UseErr(u) \/ CloseConn(u)
  \/ \E w \in Worker : PutStart(w) \/ PutSend(w)
  \/ CheckLen \/ CheckSelect \/ CheckRecv \/ CheckConn
  \/ \E k \in Closer : \/ CloseLock(k) \/ CloseNil(k)
                       \/ CloseChan(k) \/ CloseDrain(k)
  \/ \E c \in Conn : PeerSends(c) \/ PeerGone(c) \/ AgeOut(c)

\* Every step of Next is one of them.
LEMMA NextIsStep == Next => Step
  BY DEF Next, Step, UserStep, CheckerStep, CloserStep, Environment, PutStep, Worker
-----------------------------------------------------------------------------
(* Type correctness *)

\* What a receive takes out of a channel of connections.
LEMMA Pop ==
  ASSUME conns \in Seq(Conn), conns # <<>>
  PROVE  Head(conns) \in Conn /\ Tail(conns) \in Seq(Conn)
  BY HeadTailProperties

\* What a send adds to it.
LEMMA Push ==
  ASSUME conns \in Seq(Conn), NEW c \in Conn,
         UNCHANGED conns \/ conns' = Append(conns, c)
  PROVE  conns' \in Seq(Conn)
  BY AppendProperties

\* What a step of Put does to the nesting of its read locks.
LEMMA DepthMoves ==
  ASSUME depth \in [Worker -> Nat], NEW w \in Worker,
         \/ UNCHANGED depth
         \/ depth' = [depth EXCEPT ![w] = @ + 1]
         \/ depth' = [depth EXCEPT ![w] = 0]
  PROVE  depth' \in [Worker -> Nat]
  OBVIOUS

\* A worker that moves from one label to another, with a connection in its hand
\* exactly where the new label says so.
LEMMA HandMoves ==
  ASSUME LabelsOK, HandsOK, NEW w \in Worker, NEW l, NEW h \in Conn \cup {None},
         Goto(w, l), hand' = [hand EXCEPT ![w] = h],
         h # None <=> l \in {"use", "check"} \cup PutPC
  PROVE  HandsOK'
  BY DEF LabelsOK, HandsOK, Goto

\* The same where the hand does not change.
LEMMA HandStays ==
  ASSUME LabelsOK, HandsOK, NEW w \in Worker, NEW l, Goto(w, l), UNCHANGED hand,
         hand[w] # None <=> l \in {"use", "check"} \cup PutPC
  PROVE  HandsOK'
  BY DEF LabelsOK, HandsOK, Goto

\* The constructor establishes the types.
LEMMA TypeInit == Init => TypeOK
<1> USE ConnPoolAssumption
<1> SUFFICES ASSUME Init PROVE TypeOK
  OBVIOUS
<1>1. ChannelOK
  BY DEF Init, ChannelOK
<1>2. LabelsOK
  BY DEF Init, LabelsOK, Worker, UserPC, CheckerPC, PutPC, CloserPC
<1>3. HandsOK
  BY DEF Init, HandsOK, Worker, PutPC
<1>4. SocketsOK
  BY DEF Init, SocketsOK
<1> QED
  BY <1>1, <1>2, <1>3, <1>4 DEF TypeOK

\* Every step keeps them.
LEMMA TypeStep == TypeOK /\ [Next]_vars => TypeOK'
<1> USE ConnPoolAssumption
<1> SUFFICES ASSUME TypeOK, [Next]_vars PROVE TypeOK'
  OBVIOUS
<1>1. ASSUME NEW u \in User, GetStart(u) PROVE TypeOK'
  <2> USE <1>1 DEF GetStart, connVars, Goto
  <2>1. ChannelOK'
    BY DEF TypeOK, ChannelOK, HandsOK, Worker
  <2>2. LabelsOK'
    BY DEF TypeOK, LabelsOK, Worker, UserPC, CheckerPC, PutPC, CloserPC
  <2>3. HandsOK'
    BY HandMoves DEF TypeOK, HandsOK, Worker, PutPC
  <2>4. SocketsOK'
    BY DEF TypeOK, ChannelOK, HandsOK, SocketsOK, Worker
  <2> QED
    BY <2>1, <2>2, <2>3, <2>4 DEF TypeOK
<1>2. ASSUME NEW u \in User, GetRecv(u) PROVE TypeOK'
  <2> USE <1>2 DEF GetRecv, connVars, Goto, Received
  <2>1. ChannelOK'
    BY Pop DEF TypeOK, ChannelOK, HandsOK, Worker
  <2>2. LabelsOK'
    BY DEF TypeOK, LabelsOK, Worker, UserPC, CheckerPC, PutPC, CloserPC
  <2>3. HandsOK'
    <3> DEFINE found == conns # <<>> /\ ~unusable[Head(conns)]
    <3> u \in Worker
      BY DEF Worker
    <3>1. CASE found
      BY <3>1, Pop, HandMoves DEF TypeOK, ChannelOK, PutPC
    <3>2. CASE ~found
      BY <3>2, HandStays DEF TypeOK, HandsOK, PutPC
    <3> QED
      BY <3>1, <3>2
  <2>4. SocketsOK'
    BY Pop DEF TypeOK, ChannelOK, HandsOK, SocketsOK, Worker
  <2> QED
    BY <2>1, <2>2, <2>3, <2>4 DEF TypeOK
<1>3. ASSUME NEW u \in User, GetDial(u) PROVE TypeOK'
  <2> USE <1>3 DEF GetDial, connVars, Goto
  <2>1. ChannelOK'
    BY DEF TypeOK, ChannelOK, HandsOK, Worker
  <2>2. LabelsOK'
    BY DEF TypeOK, LabelsOK, Worker, UserPC, CheckerPC, PutPC, CloserPC
  <2>3. HandsOK'
    <3> u \in Worker
      BY DEF Worker
    <3>1. CASE chan = "live"
      BY <3>1, HandStays DEF TypeOK, HandsOK, PutPC
    <3>2. CASE chan # "live"
      BY <3>2 DEF TypeOK, HandsOK
    <3> QED
      BY <3>1, <3>2
  <2>4. SocketsOK'
    BY DEF TypeOK, ChannelOK, HandsOK, SocketsOK, Worker
  <2> QED
    BY <2>1, <2>2, <2>3, <2>4 DEF TypeOK
<1>4. ASSUME NEW u \in User, Dialled(u) PROVE TypeOK'
  <2> USE <1>4 DEF Dialled, connVars, Goto
  <2>1. ChannelOK'
    BY DEF TypeOK, ChannelOK, HandsOK, Worker
  <2>2. LabelsOK'
    BY DEF TypeOK, LabelsOK, Worker, UserPC, CheckerPC, PutPC, CloserPC
  <2>3. HandsOK'
    <3>1. u \in Worker /\ pc[u] = "dialing" /\ hand[u] = None
      BY DEF TypeOK, HandsOK, Worker, PutPC
    <3>2. CASE pc' = [pc EXCEPT ![u] = "idle"] /\ UNCHANGED hand
      BY <3>1, <3>2, HandStays DEF TypeOK, PutPC
    <3>3. ASSUME NEW c \in Conn, hand' = [hand EXCEPT ![u] = c], pc' = [pc EXCEPT ![u] = "use"]
          PROVE  HandsOK'
      <4>1. c # None
        BY ConnPoolAssumption
      <4> QED
        BY <3>1, <3>3, <4>1, HandMoves DEF TypeOK, PutPC
    <3> QED
      BY <3>2, <3>3
  <2>4. SocketsOK'
    <3>1. CASE UNCHANGED <<sock, unusable, age>>
      BY <3>1 DEF TypeOK, SocketsOK
    <3>2. ASSUME NEW c \in Conn,
                 sock' = [sock EXCEPT ![c] = "up"],
                 unusable' = [unusable EXCEPT ![c] = FALSE],
                 age' = [age EXCEPT ![c] = "young"]
          PROVE  SocketsOK'
      BY <3>2 DEF TypeOK, SocketsOK
    <3> QED
      BY <3>1, <3>2
  <2> QED
    BY <2>1, <2>2, <2>3, <2>4 DEF TypeOK
<1>5. ASSUME NEW u \in User, UseRead(u) PROVE TypeOK'
  <2> USE <1>5 DEF UseRead, connVars, Goto
  <2>1. ChannelOK'
    BY DEF TypeOK, ChannelOK, HandsOK, Worker
  <2>2. LabelsOK'
    BY DEF TypeOK, LabelsOK, Worker, UserPC, CheckerPC, PutPC, CloserPC
  <2>3. HandsOK'
    BY HandMoves DEF TypeOK, HandsOK, Worker, PutPC
  <2>4. SocketsOK'
    BY DEF TypeOK, ChannelOK, HandsOK, SocketsOK, Worker
  <2> QED
    BY <2>1, <2>2, <2>3, <2>4 DEF TypeOK
<1>6. ASSUME NEW u \in User, UseErr(u) PROVE TypeOK'
  <2> USE <1>6 DEF UseErr, connVars, Goto, Discard
  <2>1. ChannelOK'
    BY DEF TypeOK, ChannelOK, HandsOK, Worker
  <2>2. LabelsOK'
    BY DEF TypeOK, LabelsOK, Worker, UserPC, CheckerPC, PutPC, CloserPC
  <2>3. HandsOK'
    BY HandMoves DEF TypeOK, HandsOK, Worker, PutPC
  <2>4. SocketsOK'
    BY DEF TypeOK, ChannelOK, HandsOK, SocketsOK, Worker
  <2> QED
    BY <2>1, <2>2, <2>3, <2>4 DEF TypeOK
<1>7. ASSUME NEW u \in User, CloseConn(u) PROVE TypeOK'
  <2> USE <1>7 DEF CloseConn, connVars, Goto
  <2>1. ChannelOK'
    BY DEF TypeOK, ChannelOK, HandsOK, Worker
  <2>2. LabelsOK'
    BY DEF TypeOK, LabelsOK, Worker, UserPC, CheckerPC, PutPC, CloserPC
  <2>3. HandsOK'
    BY HandMoves DEF TypeOK, HandsOK, Worker, PutPC
  <2>4. SocketsOK'
    BY DEF TypeOK, ChannelOK, HandsOK, SocketsOK, Worker
  <2> QED
    BY <2>1, <2>2, <2>3, <2>4 DEF TypeOK
<1>8. ASSUME NEW w \in Worker, PutStart(w) PROVE TypeOK'
  <2> USE <1>8 DEF PutStart, connVars, Goto, Discard, Rest
  <2>1. ChannelOK'
    <3>1. depth' \in [Worker -> Nat]
      BY DepthMoves DEF TypeOK, ChannelOK
    <3> QED
      BY <3>1 DEF TypeOK, ChannelOK
  <2>2. LabelsOK'
    BY DEF TypeOK, LabelsOK, Worker, UserPC, CheckerPC, PutPC, CloserPC
  <2>3. HandsOK'
    <3>1. CASE chan = "live" \/ HoldsConnLock(w)
      BY <3>1, HandStays DEF TypeOK, HandsOK, PutPC
    <3>2. CASE chan # "live" /\ ~HoldsConnLock(w)
      <4>1. Goto(w, Rest(w)) /\ hand' = [hand EXCEPT ![w] = None]
        BY <3>2
      <4>2. Rest(w) \notin {"use", "check"} \cup PutPC
        BY DEF PutPC
      <4> QED
        BY <4>1, <4>2, HandMoves DEF TypeOK
    <3> QED
      BY <3>1, <3>2
  <2>4. SocketsOK'
    BY DEF TypeOK, ChannelOK, HandsOK, SocketsOK, Worker
  <2> QED
    BY <2>1, <2>2, <2>3, <2>4 DEF TypeOK
<1>9. ASSUME NEW w \in Worker, PutSend(w) PROVE TypeOK'
  <2> USE <1>9 DEF PutSend, connVars, Goto, Rest
  <2>1. ChannelOK'
    <3>1. conns' \in Seq(Conn)
      <4>1. hand[w] \in Conn /\ conns \in Seq(Conn)
        BY DEF TypeOK, ChannelOK, HandsOK, PutPC
      <4> QED
        BY <4>1, Push
    <3>2. depth' \in [Worker -> Nat]
      BY DepthMoves DEF TypeOK, ChannelOK
    <3> QED
      BY <3>1, <3>2 DEF TypeOK, ChannelOK
  <2>2. LabelsOK'
    BY DEF TypeOK, LabelsOK, Worker, UserPC, CheckerPC, PutPC, CloserPC
  <2>3. HandsOK'
    <3>1. CASE chan # "closed" /\ HasRoom
      BY <3>1, HandMoves DEF TypeOK, HandsOK, PutPC
    <3>2. CASE ~(chan # "closed" /\ HasRoom)
      BY <3>2, HandStays DEF TypeOK, HandsOK, PutPC
    <3> QED
      BY <3>1, <3>2
  <2>4. SocketsOK'
    BY DEF TypeOK, ChannelOK, HandsOK, SocketsOK, Worker
  <2> QED
    BY <2>1, <2>2, <2>3, <2>4 DEF TypeOK
<1>10. CASE CheckLen
  <2> USE <1>10 DEF CheckLen, connVars, Goto
  <2>1. ChannelOK'
    BY LenProperties DEF TypeOK, ChannelOK
  <2>2. LabelsOK'
    BY DEF TypeOK, LabelsOK, Worker, UserPC, CheckerPC, PutPC, CloserPC
  <2>3. HandsOK'
    BY HandMoves DEF TypeOK, HandsOK, Worker, PutPC
  <2>4. SocketsOK'
    BY DEF TypeOK, ChannelOK, HandsOK, SocketsOK, Worker
  <2> QED
    BY <2>1, <2>2, <2>3, <2>4 DEF TypeOK
<1>11. CASE CheckSelect
  <2> USE <1>11 DEF CheckSelect, connVars, Goto, RoundOver
  <2>1. ChannelOK'
    <3>1. left' \in Nat
      <4>1. left \in Nat
        BY DEF TypeOK, ChannelOK
      <4>2. left' = left \/ (left # 0 /\ left' = left - 1)
        OBVIOUS
      <4> QED
        BY <4>1, <4>2
    <3> QED
      BY <3>1 DEF TypeOK, ChannelOK
  <2>2. LabelsOK'
    BY DEF TypeOK, LabelsOK, Worker, UserPC, CheckerPC, PutPC, CloserPC
  <2>3. HandsOK'
    BY HandMoves DEF TypeOK, HandsOK, Worker, PutPC
  <2>4. SocketsOK'
    BY DEF TypeOK, ChannelOK, HandsOK, SocketsOK, Worker
  <2> QED
    BY <2>1, <2>2, <2>3, <2>4 DEF TypeOK
<1>12. CASE CheckRecv
  <2> USE <1>12 DEF CheckRecv, connVars, Goto, Received
  <2>1. ChannelOK'
    BY Pop DEF TypeOK, ChannelOK, HandsOK, Worker
  <2>2. LabelsOK'
    BY DEF TypeOK, LabelsOK, Worker, UserPC, CheckerPC, PutPC, CloserPC
  <2>3. HandsOK'
    <3> Checker \in Worker
      BY DEF Worker
    <3>1. CASE conns # <<>>
      BY <3>1, Pop, HandMoves DEF TypeOK, ChannelOK, PutPC
    <3>2. CASE conns = <<>>
      BY <3>2, HandStays DEF TypeOK, HandsOK, PutPC
    <3> QED
      BY <3>1, <3>2
  <2>4. SocketsOK'
    BY Pop DEF TypeOK, ChannelOK, HandsOK, SocketsOK, Worker
  <2> QED
    BY <2>1, <2>2, <2>3, <2>4 DEF TypeOK
<1>13. CASE CheckConn
  <2> USE <1>13 DEF CheckConn, connVars, Goto, Discard
  <2>1. ChannelOK'
    BY DEF TypeOK, ChannelOK, HandsOK, Worker
  <2>2. LabelsOK'
    BY DEF TypeOK, LabelsOK, Worker, UserPC, CheckerPC, PutPC, CloserPC
  <2>3. HandsOK'
    <3>1. Checker \in Worker /\ hand[Checker] \in Conn /\ hand[Checker] # None
      BY DEF TypeOK, HandsOK, Worker
    <3>2. CASE hand' = [hand EXCEPT ![Checker] = None] /\ pc' = [pc EXCEPT ![Checker] = "loop"]
      BY <3>1, <3>2, HandMoves DEF TypeOK, PutPC
    <3>3. CASE UNCHANGED hand /\ pc' = [pc EXCEPT ![Checker] = "put"]
      BY <3>1, <3>3, HandStays DEF TypeOK, PutPC
    <3> QED
      BY <3>2, <3>3
  <2>4. SocketsOK'
    BY DEF TypeOK, ChannelOK, HandsOK, SocketsOK, Worker
  <2> QED
    BY <2>1, <2>2, <2>3, <2>4 DEF TypeOK
<1>14. ASSUME NEW k \in Closer, CloseLock(k) PROVE TypeOK'
  <2> USE <1>14 DEF CloseLock, connVars, Goto
  <2>1. ChannelOK'
    BY DEF TypeOK, ChannelOK, HandsOK, Worker
  <2>2. LabelsOK'
    BY DEF TypeOK, LabelsOK, Worker, UserPC, CheckerPC, PutPC, CloserPC
  <2>3. HandsOK'
    BY HandMoves DEF TypeOK, HandsOK, Worker, PutPC
  <2>4. SocketsOK'
    BY DEF TypeOK, ChannelOK, HandsOK, SocketsOK, Worker
  <2> QED
    BY <2>1, <2>2, <2>3, <2>4 DEF TypeOK
<1>15. ASSUME NEW k \in Closer, CloseNil(k) PROVE TypeOK'
  <2> USE <1>15 DEF CloseNil, connVars, Goto
  <2>1. ChannelOK'
    BY DEF TypeOK, ChannelOK, HandsOK, Worker
  <2>2. LabelsOK'
    BY DEF TypeOK, LabelsOK, Worker, UserPC, CheckerPC, PutPC, CloserPC
  <2>3. HandsOK'
    BY HandMoves DEF TypeOK, HandsOK, Worker, PutPC
  <2>4. SocketsOK'
    BY DEF TypeOK, ChannelOK, HandsOK, SocketsOK, Worker
  <2> QED
    BY <2>1, <2>2, <2>3, <2>4 DEF TypeOK
<1>16. ASSUME NEW k \in Closer, CloseChan(k) PROVE TypeOK'
  <2> USE <1>16 DEF CloseChan, connVars, Goto
  <2>1. ChannelOK'
    BY DEF TypeOK, ChannelOK, HandsOK, Worker
  <2>2. LabelsOK'
    BY DEF TypeOK, LabelsOK, Worker, UserPC, CheckerPC, PutPC, CloserPC
  <2>3. HandsOK'
    BY HandMoves DEF TypeOK, HandsOK, Worker, PutPC
  <2>4. SocketsOK'
    BY DEF TypeOK, ChannelOK, HandsOK, SocketsOK, Worker
  <2> QED
    BY <2>1, <2>2, <2>3, <2>4 DEF TypeOK
<1>17. ASSUME NEW k \in Closer, CloseDrain(k) PROVE TypeOK'
  <2> USE <1>17 DEF CloseDrain, connVars, Goto, Discard, Received
  <2>1. ChannelOK'
    BY Pop DEF TypeOK, ChannelOK, HandsOK, Worker
  <2>2. LabelsOK'
    BY DEF TypeOK, LabelsOK, Worker, UserPC, CheckerPC, PutPC, CloserPC
  <2>3. HandsOK'
    BY DEF TypeOK, LabelsOK, HandsOK, Worker
  <2>4. SocketsOK'
    BY Pop DEF TypeOK, ChannelOK, HandsOK, SocketsOK, Worker
  <2> QED
    BY <2>1, <2>2, <2>3, <2>4 DEF TypeOK
<1>18. ASSUME NEW c \in Conn, PeerSends(c) \/ PeerGone(c) \/ AgeOut(c)
       PROVE  TypeOK'
  BY <1>18 DEF PeerSends, PeerGone, AgeOut, TypeOK, ChannelOK, LabelsOK, HandsOK, SocketsOK
<1>19. CASE UNCHANGED vars
  BY <1>19 DEF vars, connVars, TypeOK, ChannelOK, LabelsOK, HandsOK, SocketsOK
<1> QED
  BY <1>1, <1>2, <1>3, <1>4, <1>5, <1>6, <1>7, <1>8, <1>9, <1>10, <1>11, <1>12, <1>13, <1>14, <1>15, <1>16, <1>17, <1>18, <1>19,
     NextIsStep DEF Step

\* The type invariant holds in every state of the pool, and a worker holds a
\* connection exactly while it uses, checks or returns one.
THEOREM TypeCorrect == Spec => []TypeOK
  BY TypeInit, TypeStep, PTL DEF Spec
-----------------------------------------------------------------------------
(* Who owns a connection *)

\* The connections in a channel, and that none is in it twice.
Elements(s) == {s[i] : i \in 1..Len(s)}
Distinct(s) == \A i, j \in 1..Len(s) : s[i] = s[j] => i = j

\* A receive takes one connection out of them.
LEMMA TailElements ==
  ASSUME NEW S, NEW s \in Seq(S), s # <<>>, Distinct(s)
  PROVE  /\ Distinct(Tail(s))
         /\ Head(s) \notin Elements(Tail(s))
         /\ Elements(s) = Elements(Tail(s)) \cup {Head(s)}
<1>1. /\ Tail(s) \in Seq(S) /\ Len(Tail(s)) = Len(s) - 1 /\ Len(s) \in Nat \ {0}
      /\ \A i \in 1..Len(Tail(s)) : Tail(s)[i] = s[i + 1]
      /\ Head(s) = s[1]
  BY HeadTailProperties, LenProperties, EmptySeq
<1>2. Distinct(Tail(s))
  BY <1>1 DEF Distinct
<1>3. Head(s) \notin Elements(Tail(s))
  BY <1>1 DEF Distinct, Elements
<1>4. Elements(s) = Elements(Tail(s)) \cup {Head(s)}
  <2>1. ASSUME NEW x \in Elements(s) PROVE x \in Elements(Tail(s)) \cup {Head(s)}
    <3>1. PICK i \in 1..Len(s) : x = s[i]
      BY DEF Elements
    <3>2. CASE i = 1
      BY <3>1, <3>2, <1>1
    <3>3. CASE i # 1
      <4>1. i - 1 \in 1..Len(Tail(s)) /\ Tail(s)[i - 1] = x
        BY <3>1, <3>3, <1>1
      <4> QED
        BY <4>1 DEF Elements
    <3> QED
      BY <3>2, <3>3
  <2>2. ASSUME NEW x \in Elements(Tail(s)) PROVE x \in Elements(s)
    <3>1. PICK i \in 1..Len(Tail(s)) : x = Tail(s)[i]
      BY <2>2 DEF Elements
    <3>2. i + 1 \in 1..Len(s) /\ s[i + 1] = x
      BY <3>1, <1>1
    <3> QED
      BY <3>2 DEF Elements
  <2>3. Head(s) \in Elements(s)
    BY <1>1 DEF Elements
  <2> QED
    BY <2>1, <2>2, <2>3
<1> QED
  BY <1>2, <1>3, <1>4

\* A send adds one.
LEMMA AppendElements ==
  ASSUME NEW S, NEW s \in Seq(S), NEW e \in S
  PROVE  /\ Elements(Append(s, e)) = Elements(s) \cup {e}
         /\ Distinct(s) /\ e \notin Elements(s) => Distinct(Append(s, e))
<1>1. /\ Len(s) \in Nat /\ Len(Append(s, e)) = Len(s) + 1
      /\ \A i \in 1..Len(s) : Append(s, e)[i] = s[i]
      /\ Append(s, e)[Len(s) + 1] = e
  BY AppendProperties, LenProperties
<1>2. Elements(Append(s, e)) = Elements(s) \cup {e}
  <2>1. ASSUME NEW x \in Elements(Append(s, e)) PROVE x \in Elements(s) \cup {e}
    <3>1. PICK i \in 1..(Len(s) + 1) : x = Append(s, e)[i]
      BY <2>1, <1>1 DEF Elements
    <3> QED
      BY <3>1, <1>1 DEF Elements
  <2>2. ASSUME NEW x \in Elements(s) PROVE x \in Elements(Append(s, e))
    <3>1. PICK i \in 1..Len(s) : x = s[i]
      BY <2>2 DEF Elements
    <3>2. i \in 1..(Len(s) + 1)
      BY <1>1
    <3> QED
      BY <3>1, <3>2, <1>1 DEF Elements
  <2>3. e \in Elements(Append(s, e))
    BY <1>1 DEF Elements
  <2> QED
    BY <2>1, <2>2, <2>3
<1>3. ASSUME Distinct(s), e \notin Elements(s) PROVE Distinct(Append(s, e))
  <2> SUFFICES ASSUME NEW i \in 1..(Len(s) + 1), NEW j \in 1..(Len(s) + 1),
                      Append(s, e)[i] = Append(s, e)[j]
               PROVE  i = j
    BY <1>1 DEF Distinct
  <2> QED
    BY <1>1, <1>3 DEF Distinct, Elements
<1> QED
  BY <1>2, <1>3

\* The channel holds connections only.
LEMMA HeadIdle == conns \in Seq(Conn) /\ conns # <<>> => Head(conns) \in Idle
  BY HeadTailProperties, LenProperties, EmptySeq DEF Idle

LEMMA IdleIn == conns \in Seq(Conn) => Idle \subseteq Conn
  BY LenProperties DEF Idle

\* A receive moves a connection from the channel to the hand of a worker.
LEMMA Take ==
  ASSUME ChannelOK, HandsOK, ExclusiveOwner, conns # <<>>,
         NEW w \in Worker, hand[w] = None,
         conns' = Tail(conns), hand' = [hand EXCEPT ![w] = Head(conns)]
  PROVE  /\ ExclusiveOwner'
         /\ Idle' \subseteq Idle
         /\ (Idle \cup Held)' = Idle \cup Held
<1> DEFINE c == Head(conns)
<1>1. conns \in Seq(Conn) /\ Distinct(conns) /\ c \in Conn /\ c # None
  BY Pop, ConnPoolAssumption DEF ChannelOK, ExclusiveOwner, Distinct
<1>2. /\ Distinct(conns')
      /\ c \notin Idle'
      /\ Idle = Idle' \cup {c}
  BY <1>1, TailElements DEF Idle, Elements
<1> HIDE DEF c
<1>3. hand \in [Worker -> Conn \cup {None}] /\ hand' = [hand EXCEPT ![w] = c]
  BY DEF HandsOK, c
<1>4. ExclusiveOwner'
  BY <1>1, <1>2, <1>3 DEF ExclusiveOwner, Distinct
<1>5. Held' = Held \cup {c}
  BY <1>1, <1>3 DEF Held
<1> QED
  BY <1>2, <1>4, <1>5

\* A send moves it back.
LEMMA Give ==
  ASSUME ChannelOK, HandsOK, ExclusiveOwner,
         NEW w \in Worker, hand[w] # None,
         conns' = Append(conns, hand[w]), hand' = [hand EXCEPT ![w] = None]
  PROVE  /\ ExclusiveOwner'
         /\ Idle' = Idle \cup {hand[w]}
         /\ (Idle \cup Held)' = Idle \cup Held
<1> DEFINE c == hand[w]
<1>1. conns \in Seq(Conn) /\ Distinct(conns) /\ c \in Conn /\ c \notin Idle
  BY DEF ChannelOK, HandsOK, ExclusiveOwner, Distinct
<1>2. Distinct(conns') /\ Idle' = Idle \cup {c}
  BY <1>1, AppendElements DEF Idle, Elements
<1>3. \A v \in Worker : hand'[v] = IF v = w THEN None ELSE hand[v]
  BY DEF HandsOK
<1>4. ExclusiveOwner'
  <2>1. None \notin Idle'
    BY <1>1, <1>2, ConnPoolAssumption, IdleIn
  <2>2. \A v \in Worker : hand'[v] \notin Idle'
    BY <1>2, <1>3, <2>1 DEF ExclusiveOwner
  <2>3. \A v, x \in Worker : hand'[v] = hand'[x] /\ hand'[v] # None => v = x
    BY <1>3 DEF ExclusiveOwner
  <2> QED
    BY <1>2, <2>2, <2>3 DEF ExclusiveOwner, Distinct
<1>5. Held = Held' \cup {c}
  BY <1>1, <1>3, ConnPoolAssumption DEF Held, HandsOK
<1> QED
  BY <1>2, <1>4, <1>5

\* The loop of Close takes a connection out that nobody else holds.
LEMMA Drain ==
  ASSUME ChannelOK, HandsOK, ExclusiveOwner, conns # <<>>,
         conns' = Tail(conns), UNCHANGED hand
  PROVE  /\ ExclusiveOwner'
         /\ Idle' = Idle \ {Head(conns)}
         /\ Held' = Held
         /\ Head(conns) \in Idle
<1>1. conns \in Seq(Conn) /\ Distinct(conns)
  BY DEF ChannelOK, ExclusiveOwner, Distinct
<1>2. /\ Distinct(conns')
      /\ Head(conns) \notin Idle'
      /\ Idle = Idle' \cup {Head(conns)}
  BY <1>1, TailElements DEF Idle, Elements
<1>3. ExclusiveOwner'
  BY <1>2 DEF ExclusiveOwner, Distinct
<1> QED
  BY <1>2, <1>3 DEF Held

\* A worker lets go of its connection.
LEMMA Drop ==
  ASSUME ChannelOK, HandsOK, ExclusiveOwner, NEW w \in Worker, hand[w] # None,
         UNCHANGED conns, hand' = [hand EXCEPT ![w] = None]
  PROVE  ExclusiveOwner' /\ Idle' = Idle /\ Held' = Held \ {hand[w]}
<1>1. None \notin Idle
  BY IdleIn, ConnPoolAssumption DEF ChannelOK
<1>2. Idle' = Idle
  BY DEF Idle
<1>3. \A v \in Worker : hand'[v] = IF v = w THEN None ELSE hand[v]
  BY DEF HandsOK
<1>4. ExclusiveOwner'
  BY <1>1, <1>2, <1>3 DEF ExclusiveOwner
<1> QED
  BY <1>2, <1>3, <1>4 DEF Held, ExclusiveOwner, HandsOK

\* A worker gets a connection that nobody has.
LEMMA Hold ==
  ASSUME ChannelOK, HandsOK, ExclusiveOwner, NEW w \in Worker, hand[w] = None,
         NEW c \in Conn \ (Idle \cup Held),
         UNCHANGED conns, hand' = [hand EXCEPT ![w] = c]
  PROVE  ExclusiveOwner' /\ Idle' = Idle /\ Held' = Held \cup {c}
<1>1. Idle' = Idle /\ c # None
  BY ConnPoolAssumption DEF Idle
<1>2. \A v \in Worker : hand'[v] = IF v = w THEN c ELSE hand[v]
  BY DEF HandsOK
<1>3. ExclusiveOwner'
  BY <1>1, <1>2 DEF ExclusiveOwner, Held
<1> QED
  BY <1>1, <1>2, <1>3 DEF Held, HandsOK

\* Neither moves.
LEMMA Stay ==
  ASSUME ExclusiveOwner, UNCHANGED <<conns, hand>>
  PROVE  ExclusiveOwner' /\ Idle' = Idle /\ Held' = Held
  BY DEF ExclusiveOwner, Idle, Held
-----------------------------------------------------------------------------
(* Ownership and usability *)

\* No one of its parts is inductive alone.  That Get drops no connection needs
\* what it receives to be usable; that needs what is sent to be usable, which
\* needs it to be in one goroutine's hands only.
PoolInv == TypeOK /\ ExclusiveOwner /\ NoLeak /\ IdleUsable /\ ReturnsUsable

\* A step that leaves sockets and marks alone, moves no connection and moves no
\* worker to a label that says more of its connection.
LEMMA Quiet ==
  ASSUME PoolInv, UNCHANGED <<conns, hand, sock, unusable>>,
         \A w \in Worker : \/ pc'[w] = pc[w]
                           \/ pc'[w] \notin {"use", "check"} \cup PutPC
                           \/ pc[w] \in PutPC
         PROVE  /\ ExclusiveOwner' /\ NoLeak'
                /\ IdleUsable' /\ ReturnsUsable'
<1>1. ExclusiveOwner' /\ Idle' = Idle /\ Held' = Held
  BY Stay DEF PoolInv
<1> QED
  BY <1>1 DEF PoolInv, NoLeak, IdleUsable, ReturnsUsable, OpenConns, PutPC

\* A worker closes its connection and forgets it.
LEMMA Tear ==
  ASSUME PoolInv, TypeOK', NEW w \in Worker, hand[w] # None, NEW l, Goto(w, l),
         l \notin {"use", "check"} \cup PutPC,
         UNCHANGED conns, hand' = [hand EXCEPT ![w] = None],
         sock' = [sock EXCEPT ![hand[w]] = "closed"],
         \/ UNCHANGED unusable
         \/ unusable' = [unusable EXCEPT ![hand[w]] = TRUE]
  PROVE  ExclusiveOwner' /\ NoLeak' /\ IdleUsable' /\ ReturnsUsable'
<1>1. ExclusiveOwner' /\ Idle' = Idle /\ Held' = Held \ {hand[w]}
  BY Drop DEF PoolInv, TypeOK
<1>2. hand[w] \in Conn /\ hand[w] \notin Idle
  BY DEF PoolInv, TypeOK, HandsOK, ExclusiveOwner
<1>3. NoLeak' /\ IdleUsable'
  <2>1. \A c \in Conn : c # hand[w] => sock'[c] = sock[c] /\ unusable'[c] = unusable[c]
    BY <1>2 DEF PoolInv, TypeOK, SocketsOK
  <2>2. sock'[hand[w]] = "closed" /\ Idle \subseteq Conn
    BY <1>2, IdleIn DEF PoolInv, TypeOK, ChannelOK, SocketsOK
  <2> QED
    BY <1>1, <1>2, <2>1, <2>2 DEF PoolInv, NoLeak, IdleUsable, OpenConns
<1>4. ASSUME NEW v \in Worker, v # w, hand[v] # None
      PROVE  /\ pc'[v] = pc[v] /\ hand'[v] = hand[v]
             /\ sock'[hand[v]] = sock[hand[v]] /\ unusable'[hand[v]] = unusable[hand[v]]
  BY <1>4 DEF PoolInv, TypeOK, LabelsOK, HandsOK, SocketsOK, ExclusiveOwner, Goto
<1>5. ReturnsUsable'
  BY <1>4 DEF PoolInv, TypeOK, LabelsOK, HandsOK, ReturnsUsable, Goto
<1> QED
  BY <1>1, <1>3, <1>5

\* No call of Get, Put or Close and no round of the checker lets two goroutines
\* have one connection, forgets an open one, or buffers one that is closed.
THEOREM PoolInvariant == Spec => []PoolInv
<1> USE ConnPoolAssumption
<1>1. Init => PoolInv
  <2> SUFFICES ASSUME Init PROVE ExclusiveOwner /\ NoLeak /\ IdleUsable /\ ReturnsUsable
    BY TypeInit DEF PoolInv
  <2>1. Idle \subseteq Conn
    BY IdleIn DEF Init
  <2>2. ExclusiveOwner
    BY <2>1 DEF Init, ExclusiveOwner
  <2>3. NoLeak /\ IdleUsable
    BY <2>1 DEF Init, NoLeak, IdleUsable, OpenConns
  <2>4. ReturnsUsable
    BY DEF Init, ReturnsUsable, Worker, PutPC
  <2> QED
    BY <2>2, <2>3, <2>4
<1>2. PoolInv /\ [Next]_vars => PoolInv'
  <2> SUFFICES ASSUME PoolInv, [Next]_vars
               PROVE  ExclusiveOwner' /\ NoLeak' /\ IdleUsable' /\ ReturnsUsable'
    BY TypeStep DEF PoolInv
  <2> DEFINE Safe == ExclusiveOwner /\ NoLeak /\ IdleUsable /\ ReturnsUsable
  <2> TypeOK'
    BY TypeStep DEF PoolInv
  <2>1. ASSUME NEW u \in User, GetStart(u) \/ GetDial(u) PROVE Safe'
    BY <2>1, Quiet DEF GetStart, GetDial, Goto, connVars, Worker, PutPC, PoolInv, TypeOK, LabelsOK
  <2>2. ASSUME NEW u \in User, GetRecv(u) PROVE Safe'
    <3> u \in Worker /\ hand[u] = None
      BY <2>2 DEF GetRecv, Worker, PoolInv, TypeOK, HandsOK, PutPC
    <3>1. CASE conns = <<>>
      BY <2>2, <3>1, Quiet DEF GetRecv, Goto, connVars, Worker, PutPC, PoolInv, TypeOK, LabelsOK
    <3>2. CASE conns # <<>>
      <4>1. Head(conns) \in Idle
        BY <3>2, HeadIdle DEF PoolInv, TypeOK, ChannelOK
      <4>2. ~unusable[Head(conns)] /\ sock[Head(conns)] # "closed"
        BY <4>1 DEF PoolInv, IdleUsable
      <4>3. /\ conns' = Tail(conns) /\ hand' = [hand EXCEPT ![u] = Head(conns)]
            /\ Goto(u, "use") /\ UNCHANGED <<sock, unusable>>
        BY <2>2, <3>2, <4>2 DEF GetRecv, Received, connVars
      <4>4. ExclusiveOwner' /\ Idle' \subseteq Idle /\ (Idle \cup Held)' = Idle \cup Held
        BY <3>2, <4>3, Take DEF PoolInv, TypeOK
      <4>5. ReturnsUsable'
        BY <4>2, <4>3 DEF ReturnsUsable, PoolInv, TypeOK, LabelsOK, HandsOK, Goto, PutPC, SocketsOK
      <4> QED
        BY <4>3, <4>4, <4>5 DEF PoolInv, NoLeak, IdleUsable, OpenConns
    <3> QED
      BY <3>1, <3>2
  <2>3. ASSUME NEW u \in User, Dialled(u) PROVE Safe'
    <3> u \in Worker /\ hand[u] = None
      BY <2>3 DEF Dialled, Worker, PoolInv, TypeOK, HandsOK, PutPC
    <3>1. CASE Goto(u, "idle") /\ UNCHANGED <<hand, connVars>>
      BY <2>3, <3>1, Quiet DEF Dialled, Goto, connVars, Worker, PutPC, PoolInv, TypeOK, LabelsOK
    <3>2. ASSUME NEW c \in Conn \ (OpenConns \cup Idle \cup Held),
                 hand' = [hand EXCEPT ![u] = c], sock' = [sock EXCEPT ![c] = "up"],
                 unusable' = [unusable EXCEPT ![c] = FALSE], Goto(u, "use")
          PROVE  Safe'
      <4>1. ExclusiveOwner' /\ Idle' = Idle /\ Held' = Held \cup {c}
        BY <2>3, <3>2, Hold DEF Dialled, PoolInv, TypeOK
      <4>2. ReturnsUsable'
        BY <3>2 DEF ReturnsUsable, PoolInv, TypeOK, LabelsOK, HandsOK, SocketsOK, Goto, PutPC, Held
      <4>3. NoLeak' /\ IdleUsable'
        BY <3>2, <4>1 DEF PoolInv, TypeOK, SocketsOK, NoLeak, IdleUsable, OpenConns
      <4> QED
        BY <4>1, <4>2, <4>3
    <3> QED
      BY <2>3, <3>1, <3>2 DEF Dialled
  <2>4. ASSUME NEW u \in User, UseRead(u) PROVE Safe'
    <3>1. ExclusiveOwner' /\ Idle' = Idle /\ Held' = Held
      BY <2>4, Stay DEF UseRead, PoolInv
    <3> QED
      BY <2>4, <3>1 DEF UseRead, PoolInv, TypeOK, SocketsOK, HandsOK, NoLeak, IdleUsable, ReturnsUsable, OpenConns
  <2>5. ASSUME NEW u \in User, UseErr(u) PROVE Safe'
    <3>1. ExclusiveOwner' /\ Idle' = Idle /\ Held' = Held
      BY <2>5, Stay DEF UseErr, PoolInv
    <3>2. u \in Worker /\ hand[u] \in Conn /\ hand[u] \notin Idle
      BY <2>5 DEF UseErr, Worker, PutPC, PoolInv, TypeOK, HandsOK, ExclusiveOwner
    <3>3. NoLeak' /\ IdleUsable'
      BY <2>5, <3>1, <3>2 DEF UseErr, Discard, PoolInv, TypeOK, SocketsOK, NoLeak, IdleUsable, OpenConns
    <3>4. ReturnsUsable'
      BY <2>5, <3>2 DEF UseErr, Discard, PutPC, PoolInv, TypeOK, SocketsOK, HandsOK, ExclusiveOwner, ReturnsUsable
    <3> QED
      BY <3>1, <3>3, <3>4
  <2>6. ASSUME NEW u \in User, CloseConn(u) PROVE Safe'
    <3>1. u \in Worker /\ hand[u] # None /\ pc[u] = "use"
      BY <2>6 DEF CloseConn, Worker, PutPC, PoolInv, TypeOK, HandsOK
    <3>2. CASE Reusable(hand[u])
      <4>1. ExclusiveOwner' /\ Idle' = Idle /\ Held' = Held
        BY <2>6, <3>2, Stay DEF CloseConn, PoolInv
      <4> QED
        BY <2>6, <3>1, <3>2, <4>1 DEF CloseConn, Reusable, Goto, PutPC, PoolInv, TypeOK, LabelsOK,
           NoLeak, IdleUsable, ReturnsUsable, OpenConns
    <3>3. CASE ~Reusable(hand[u])
      BY <2>6, <3>1, <3>3, Tear DEF CloseConn, PutPC
    <3> QED
      BY <3>2, <3>3
  <2>7. ASSUME NEW w \in Worker, PutStart(w) PROVE Safe'
    <3>1. CASE chan = "live" \/ HoldsConnLock(w)
      BY <2>7, <3>1, Quiet DEF PutStart, Goto, connVars, PutPC, PoolInv, TypeOK, LabelsOK
    <3>2. CASE chan # "live" /\ ~HoldsConnLock(w)
      <4>1. hand[w] # None /\ Rest(w) \notin {"use", "check"} \cup PutPC
        BY <2>7 DEF PutStart, Rest, PutPC, PoolInv, TypeOK, HandsOK
      <4> QED
        BY <2>7, <3>2, <4>1, Tear DEF PutStart, Discard
    <3> QED
      BY <3>1, <3>2
  <2>8. ASSUME NEW w \in Worker, PutSend(w) PROVE Safe'
    <3>1. CASE chan # "closed" /\ HasRoom
      <4>1. hand[w] # None /\ Rest(w) \notin {"use", "check"} \cup PutPC
        BY <2>8 DEF PutSend, Rest, PutPC, PoolInv, TypeOK, HandsOK
      <4>2. /\ conns' = Append(conns, hand[w]) /\ hand' = [hand EXCEPT ![w] = None]
            /\ Goto(w, Rest(w)) /\ UNCHANGED <<sock, unusable>>
        BY <2>8, <3>1 DEF PutSend, connVars
      <4>3. ExclusiveOwner' /\ Idle' = Idle \cup {hand[w]} /\ (Idle \cup Held)' = Idle \cup Held
        BY <4>1, <4>2, Give DEF PoolInv, TypeOK
      <4>4. sock[hand[w]] # "closed" /\ ~unusable[hand[w]]
        BY <2>8 DEF PutSend, PutPC, PoolInv, ReturnsUsable
      <4>5. ReturnsUsable'
        BY <4>1, <4>2 DEF PoolInv, TypeOK, LabelsOK, HandsOK, ReturnsUsable, Goto
      <4> QED
        BY <4>2, <4>3, <4>4, <4>5 DEF PoolInv, NoLeak, IdleUsable, OpenConns
    <3>2. CASE ~(chan # "closed" /\ HasRoom)
      BY <2>8, <3>2, Quiet DEF PutSend, Goto, connVars, PutPC, PoolInv, TypeOK, LabelsOK
    <3> QED
      BY <3>1, <3>2
  <2>9. CASE CheckLen \/ CheckSelect
    BY <2>9, Quiet DEF CheckLen, CheckSelect, Goto, connVars, Worker, PutPC, PoolInv, TypeOK, LabelsOK
  <2>10. CASE CheckRecv
    <3> Checker \in Worker /\ hand[Checker] = None
      BY <2>10 DEF CheckRecv, Worker, PoolInv, TypeOK, HandsOK, PutPC
    <3>1. CASE conns = <<>>
      BY <2>10, <3>1, Quiet DEF CheckRecv, Goto, connVars, Worker, PutPC, PoolInv, TypeOK, LabelsOK
    <3>2. CASE conns # <<>>
      <4>1. Head(conns) \in Idle
        BY <3>2, HeadIdle DEF PoolInv, TypeOK, ChannelOK
      <4>2. ~unusable[Head(conns)] /\ sock[Head(conns)] # "closed"
        BY <4>1 DEF PoolInv, IdleUsable
      <4>3. /\ conns' = Tail(conns) /\ hand' = [hand EXCEPT ![Checker] = Head(conns)]
            /\ Goto(Checker, "check") /\ UNCHANGED <<sock, unusable>>
        BY <2>10, <3>2 DEF CheckRecv, Received, connVars
      <4>4. ExclusiveOwner' /\ Idle' \subseteq Idle /\ (Idle \cup Held)' = Idle \cup Held
        BY <3>2, <4>3, Take DEF PoolInv, TypeOK
      <4>5. ReturnsUsable'
        BY <4>2, <4>3 DEF ReturnsUsable, PoolInv, TypeOK, LabelsOK, HandsOK, Goto, PutPC, SocketsOK
      <4> QED
        BY <4>3, <4>4, <4>5 DEF PoolInv, NoLeak, IdleUsable, OpenConns
    <3> QED
      BY <3>1, <3>2
  <2>11. CASE CheckConn
    <3>1. Checker \in Worker /\ hand[Checker] # None /\ pc[Checker] = "check"
      BY <2>11 DEF CheckConn, Worker, PoolInv, TypeOK, HandsOK, PutPC
    <3>2. CASE Due(hand[Checker])
      BY <2>11, <3>1, <3>2, Tear DEF CheckConn, Discard, PutPC
    <3>3. CASE ~Due(hand[Checker])
      <4>1. ExclusiveOwner' /\ Idle' = Idle /\ Held' = Held
        BY <2>11, <3>3, Stay DEF CheckConn, PoolInv
      <4>2. \A c \in Conn : (sock'[c] = "closed") = (sock[c] = "closed")
        BY <2>11, <3>3 DEF CheckConn, PoolInv, TypeOK, SocketsOK
      <4>3. ReturnsUsable'
        BY <2>11, <3>1, <3>3, <4>2 DEF CheckConn, Goto, PutPC, PoolInv, TypeOK, LabelsOK, HandsOK, ReturnsUsable
      <4> QED
        BY <2>11, <3>3, <4>1, <4>2, <4>3, IdleIn DEF CheckConn, PoolInv, TypeOK, ChannelOK, NoLeak, IdleUsable, OpenConns
    <3> QED
      BY <3>2, <3>3
  <2>12. ASSUME NEW k \in Closer, CloseLock(k) \/ CloseNil(k) \/ CloseChan(k) PROVE Safe'
    BY <2>12, Quiet DEF CloseLock, CloseNil, CloseChan, Goto, connVars, PoolInv, TypeOK, LabelsOK
  <2>13. ASSUME NEW k \in Closer, CloseDrain(k) PROVE Safe'
    <3>1. \A w \in Worker : pc'[w] = pc[w]
      BY <2>13 DEF CloseDrain, Goto, PoolInv, TypeOK, LabelsOK
    <3>2. CASE conns = <<>>
      BY <2>13, <3>1, <3>2, Quiet DEF CloseDrain, connVars
    <3>3. CASE conns # <<>>
      <4>1. /\ ExclusiveOwner' /\ Idle' = Idle \ {Head(conns)} /\ Held' = Held
            /\ Head(conns) \in Idle
        BY <2>13, <3>3, Drain DEF CloseDrain, Received, PoolInv, TypeOK
      <4>2. \A w \in Worker : hand[w] # Head(conns)
        BY <4>1 DEF PoolInv, ExclusiveOwner
      <4>3. NoLeak' /\ IdleUsable'
        <5>1. \A c \in Conn : c # Head(conns) => sock'[c] = sock[c] /\ unusable'[c] = unusable[c]
          BY <2>13, <3>3 DEF CloseDrain, Discard, PoolInv, TypeOK, SocketsOK
        <5>2. Idle \subseteq Conn
          BY IdleIn DEF PoolInv, TypeOK, ChannelOK
        <5>3. sock'[Head(conns)] = "closed"
          BY <2>13, <3>3, <4>1, <5>2 DEF CloseDrain, Discard, PoolInv, TypeOK, SocketsOK
        <5> QED
          BY <4>1, <5>1, <5>2, <5>3 DEF PoolInv, NoLeak, IdleUsable, OpenConns
      <4>4. ReturnsUsable'
        BY <2>13, <3>1, <3>3, <4>2 DEF CloseDrain, Discard, PutPC, PoolInv, TypeOK, HandsOK, SocketsOK, ReturnsUsable
      <4> QED
        BY <4>1, <4>3, <4>4
    <3> QED
      BY <3>2, <3>3
  <2>14. ASSUME NEW c \in Conn, PeerSends(c) \/ PeerGone(c) PROVE Safe'
    <3>1. ExclusiveOwner' /\ Idle' = Idle /\ Held' = Held
      BY <2>14, Stay DEF PeerSends, PeerGone, PoolInv
    <3>2. \A d \in Conn : (sock'[d] = "closed") = (sock[d] = "closed")
      BY <2>14 DEF PeerSends, PeerGone, PoolInv, TypeOK, SocketsOK
    <3>3. NoLeak' /\ IdleUsable'
      BY <2>14, <3>1, <3>2, IdleIn DEF PeerSends, PeerGone, PoolInv, TypeOK, ChannelOK, NoLeak, IdleUsable, OpenConns
    <3>4. ReturnsUsable'
      BY <2>14, <3>2 DEF PeerSends, PeerGone, PutPC, PoolInv, TypeOK, HandsOK, ReturnsUsable
    <3> QED
      BY <3>1, <3>3, <3>4
  <2>15. ASSUME NEW c \in Conn, AgeOut(c) PROVE Safe'
    BY <2>15, Quiet DEF AgeOut
  <2>16. CASE UNCHANGED vars
    BY <2>16, Quiet DEF vars, connVars
  <2> QED
    BY <2>1, <2>2, <2>3, <2>4, <2>5, <2>6, <2>7, <2>8, <2>9, <2>10, <2>11, <2>12,
       <2>13, <2>14, <2>15, <2>16, NextIsStep DEF Step
<1> QED
  BY <1>1, <1>2, PTL DEF Spec

\* Any number of goroutines: no connection is in two hands, or in a hand and in
\* the channel.
THEOREM Exclusive == Spec => []ExclusiveOwner
  BY PoolInvariant, PTL DEF PoolInv

\* Get, Put, the checker and Close never forget an open socket.
THEOREM Leakless == Spec => []NoLeak
  BY PoolInvariant, PTL DEF PoolInv

\* Get never receives a connection that is closed or marked; what a goroutine is
\* about to put back is neither, and what it uses is marked exactly when its socket
\* is closed.
THEOREM ConnectionsAreUsable == Spec => []Usable
  BY PoolInvariant, PTL DEF PoolInv, Usable
-----------------------------------------------------------------------------
(* Close and its lock *)

\* A goroutine that sends does so on a live channel and holds the lock for
\* reading; only one Close gets to close the channel, and it is nil until then.
Locked ==
  /\ \A w \in Worker : pc[w] = "send" => chan = "live" /\ depth[w] # 0
  /\ \A k \in Closer : (pc[k] = "close" => chan = "nil") /\ (pc[k] = "drain" => chan = "closed")
  /\ \A j, k \in Closer : pc[j] = "close" /\ pc[k] = "close" => j = k

\* What a worker does between two looks at the lock, or at it.
LEMMA WorkerLocked ==
  ASSUME TypeOK, Locked, NEW w \in Worker, NEW l, Goto(w, l), UNCHANGED chan,
         \A v \in Worker \ {w} : depth'[v] = depth[v],
         l = "send" => chan = "live" /\ depth'[w] # 0
  PROVE  Locked'
<1>1. pc'[w] = l /\ \A p \in (Worker \cup Closer) \ {w} : pc'[p] = pc[p]
  BY DEF TypeOK, LabelsOK, Goto
<1>2. \A k \in Closer : k # w
  BY ConnPoolAssumption
<1> QED
  BY <1>1, <1>2 DEF Locked

LEMMA LockedStep == TypeOK /\ Locked /\ [Next]_vars => Locked'
<1> USE ConnPoolAssumption
<1> SUFFICES ASSUME TypeOK, Locked, [Next]_vars PROVE Locked'
  OBVIOUS
<1>1. ASSUME NEW u \in User, GetStart(u) \/ GetRecv(u) \/ GetDial(u) \/ Dialled(u) \/ CloseConn(u)
      PROVE  Locked'
  <2>1. UNCHANGED <<chan, depth>> /\ u \in Worker
    BY <1>1 DEF GetStart, GetRecv, GetDial, Dialled, CloseConn, Worker
  <2>2. UNCHANGED pc \/ \E l \in {"idle", "recv", "dial", "dialing", "use", "put"} : Goto(u, l)
    BY <1>1 DEF GetStart, GetRecv, GetDial, Dialled, CloseConn
  <2> QED
    BY <2>1, <2>2, WorkerLocked DEF Locked
<1>2. ASSUME NEW w \in Worker, PutStart(w) PROVE Locked'
  <2>1. UNCHANGED chan /\ \A v \in Worker \ {w} : depth'[v] = depth[v]
    BY <1>2 DEF PutStart, TypeOK, ChannelOK
  <2>2. CASE /\ Goto(w, IF chan = "live" THEN "send" ELSE "stuck")
             /\ depth' = [depth EXCEPT ![w] = @ + 1]
    <3>1. depth'[w] # 0
      <4>1. depth[w] \in Nat /\ depth'[w] = depth[w] + 1
        BY <2>2 DEF TypeOK, ChannelOK
      <4> QED
        BY <4>1
    <3> QED
      BY <2>1, <2>2, <3>1, WorkerLocked
  <2>3. CASE Goto(w, Rest(w))
    BY <2>1, <2>3, WorkerLocked DEF Rest
  <2> QED
    BY <1>2, <2>2, <2>3 DEF PutStart
<1>3. ASSUME NEW w \in Worker, PutSend(w) PROVE Locked'
  <2>1. UNCHANGED chan /\ \A v \in Worker \ {w} : depth'[v] = depth[v]
    BY <1>3 DEF PutSend, TypeOK, ChannelOK
  <2>2. CASE UNCHANGED <<pc, depth>>
    BY <2>1, <2>2 DEF Locked
  <2>3. CASE \E l \in {"loop", "idle", "put"} : Goto(w, l)
    BY <2>1, <2>3, WorkerLocked
  <2> QED
    BY <1>3, <2>2, <2>3 DEF PutSend, Rest
<1>4. CASE CheckLen \/ CheckSelect \/ CheckRecv \/ CheckConn
  <2>1. UNCHANGED <<chan, depth>> /\ Checker \in Worker
    BY <1>4 DEF CheckLen, CheckSelect, CheckRecv, CheckConn, Worker
  <2>2. UNCHANGED pc \/ \E l \in {"loop", "sleep", "recv", "check", "put"} : Goto(Checker, l)
    BY <1>4 DEF CheckLen, CheckSelect, CheckRecv, CheckConn
  <2> QED
    BY <2>1, <2>2, WorkerLocked DEF Locked
<1>5. ASSUME NEW k \in Closer, CloserStep(k) PROVE Locked'
  <2>1. k \notin Worker /\ UNCHANGED depth
    BY <1>5 DEF CloserStep, CloseLock, CloseNil, CloseChan, CloseDrain
  <2>2. \A l : Goto(k, l) => pc'[k] = l /\ \A p \in (Worker \cup Closer) \ {k} : pc'[p] = pc[p]
    BY DEF TypeOK, LabelsOK, Goto
  <2>3. CASE CloseLock(k)
    BY <2>1, <2>2, <2>3 DEF CloseLock, Locked
  <2>4. CASE CloseNil(k)
    <3>1. \A w \in Worker : pc[w] # "send"
      BY <2>4 DEF CloseNil, NoReader, Locked
    <3>2. chan = "live" => \A j \in Closer : pc[j] \notin {"close", "drain"}
      BY DEF Locked
    <3>3. /\ chan' = (IF chan = "live" THEN "nil" ELSE chan)
          /\ pc'[k] = (IF chan = "live" THEN "close" ELSE "done")
          /\ \A p \in (Worker \cup Closer) \ {k} : pc'[p] = pc[p]
      BY <2>2, <2>4 DEF CloseNil
    <3> QED
      BY <2>1, <3>1, <3>2, <3>3 DEF Locked
  <2>5. CASE CloseChan(k)
    <3>1. /\ pc[k] = "close" /\ chan = "nil" /\ chan' = "closed" /\ pc'[k] = "drain"
          /\ \A p \in (Worker \cup Closer) \ {k} : pc'[p] = pc[p]
      BY <2>2, <2>5 DEF CloseChan, Locked
    <3> QED
      BY <2>1, <3>1 DEF Locked
  <2>6. CASE CloseDrain(k)
    <3>1. UNCHANGED chan /\ (UNCHANGED pc \/ Goto(k, "done"))
      BY <2>6 DEF CloseDrain
    <3> QED
      BY <2>1, <2>2, <3>1 DEF Locked
  <2> QED
    BY <1>5, <2>3, <2>4, <2>5, <2>6 DEF CloserStep
<1>6. CASE UNCHANGED <<pc, chan, depth>>
  BY <1>6 DEF Locked
<1> QED
  BY <1>1, <1>2, <1>3, <1>4, <1>5, <1>6, NextIsStep
  DEF Step, CloserStep, UseRead, UseErr, PeerSends, PeerGone, AgeOut, vars

LEMMA LockedAlways == Spec => []Locked
<1>1. Init => Locked
  BY ConnPoolAssumption DEF Init, Locked, Worker
<1> QED
  BY <1>1, TypeCorrect, LockedStep, PTL DEF Spec

\* A goroutine inside Put never sends on the channel that Close has closed, for
\* any number of them and of callers of Close.
THEOREM SendsBeforeClose == Spec => []NoSendOnClosed
<1>1. Init => NoSendOnClosed
  BY DEF Init, NoSendOnClosed
<1>2. Locked /\ NoSendOnClosed /\ [Next]_vars => NoSendOnClosed'
  <2> SUFFICES ASSUME Locked, NoSendOnClosed, [Next]_vars PROVE NoSendOnClosed'
    OBVIOUS
  <2>1. ASSUME NEW w \in Worker, PutSend(w) PROVE NoSendOnClosed'
    <3>1. chan = "live"
      BY <2>1 DEF PutSend, Locked
    <3> QED
      BY <2>1, <3>1 DEF PutSend, NoSendOnClosed
  <2>2. ASSUME \/ UNCHANGED panic
               \/ panic' = "nil Dial" \/ panic' = "nil conn"
        PROVE  NoSendOnClosed'
    BY <2>2 DEF NoSendOnClosed
  <2> QED
    BY <2>1, <2>2, NextIsStep
    DEF Step, GetStart, GetRecv, GetDial, Dialled, UseRead, UseErr, CloseConn, PutStart,
        CheckLen, CheckSelect, CheckRecv, CheckConn, CloseLock, CloseNil, CloseChan, CloseDrain,
        PeerSends, PeerGone, AgeOut, vars
<1> QED
  BY <1>1, <1>2, LockedAlways, PTL DEF Spec

\* Nothing is put into the channel behind the Close that has emptied it.
THEOREM ClosedStaysEmpty == Spec => []ClosedPoolStaysEmpty
<1>1. Init => ClosedPoolStaysEmpty
  BY DEF Init, ClosedPoolStaysEmpty
<1>2. TypeOK /\ Locked /\ ClosedPoolStaysEmpty /\ [Next]_vars => ClosedPoolStaysEmpty'
  <2> SUFFICES ASSUME TypeOK, Locked, ClosedPoolStaysEmpty, [Next]_vars,
                      chan' = "closed", \A k \in Closer : pc'[k] # "drain"
               PROVE  conns' = <<>>
    BY DEF ClosedPoolStaysEmpty
  <2>1. CASE UNCHANGED <<conns, chan>> /\ \A k \in Closer : pc'[k] = pc[k]
    BY <2>1 DEF ClosedPoolStaysEmpty
  <2>2. \A w \in Worker : \A l : Goto(w, l) => \A k \in Closer : pc'[k] = pc[k]
    BY ConnPoolAssumption DEF Goto, TypeOK, LabelsOK
  <2>3. ASSUME NEW u \in User, GetRecv(u) PROVE conns' = <<>>
    <3>1. u \in Worker /\ chan = "closed" /\ \E l : Goto(u, l)
      BY <2>3 DEF GetRecv, Worker
    <3>2. conns = <<>>
      BY <2>2, <3>1 DEF ClosedPoolStaysEmpty
    <3> QED
      BY <2>3, <3>2 DEF GetRecv
  <2>4. CASE CheckRecv
    <3>1. Checker \in Worker /\ chan = "closed"
      BY <2>4 DEF CheckRecv, Worker
    <3>2. \A k \in Closer : pc'[k] = pc[k]
      BY <2>2, <2>4, <3>1 DEF CheckRecv
    <3>3. conns = <<>>
      BY <3>1, <3>2 DEF ClosedPoolStaysEmpty
    <3> QED
      BY <2>4, <3>3 DEF CheckRecv
  <2>5. ASSUME NEW w \in Worker, PutSend(w) PROVE FALSE
    BY <2>5 DEF PutSend, Locked
  <2>6. ASSUME NEW k \in Closer, CloserStep(k) PROVE conns' = <<>>
    <3>1. \A l : Goto(k, l) => pc'[k] = l /\ \A j \in Closer \ {k} : pc'[j] = pc[j]
      BY DEF TypeOK, LabelsOK, Goto
    <3>2. CASE CloseLock(k)
      BY <3>1, <3>2 DEF CloseLock, ClosedPoolStaysEmpty
    <3>3. CASE CloseNil(k)
      BY <3>1, <3>3 DEF CloseNil, ClosedPoolStaysEmpty
    <3>4. CASE CloseChan(k)
      BY <3>1, <3>4 DEF CloseChan
    <3>5. CASE CloseDrain(k)
      BY <3>1, <3>5 DEF CloseDrain
    <3> QED
      BY <2>6, <3>2, <3>3, <3>4, <3>5 DEF CloserStep
  <2>7. ASSUME NEW u \in User, GetStart(u) \/ GetDial(u) \/ Dialled(u) \/ CloseConn(u)
        PROVE  conns' = <<>>
    BY <2>1, <2>2, <2>7 DEF GetStart, GetDial, Dialled, CloseConn, Worker
  <2>8. ASSUME NEW w \in Worker, PutStart(w) PROVE conns' = <<>>
    BY <2>1, <2>2, <2>8 DEF PutStart
  <2>9. CASE CheckLen \/ CheckSelect \/ CheckConn
    BY <2>1, <2>2, <2>9 DEF CheckLen, CheckSelect, CheckConn, Worker
  <2>10. CASE UNCHANGED <<conns, chan, pc>>
    BY <2>1, <2>10
  <2> QED
    BY <2>3, <2>4, <2>5, <2>6, <2>7, <2>8, <2>9, <2>10, NextIsStep
    DEF Step, CloserStep, UseRead, UseErr, PeerSends, PeerGone, AgeOut, vars
<1> QED
  BY <1>1, <1>2, TypeCorrect, LockedAlways, PTL DEF Spec

\* While the pool is open every step that tears down a connection whose peer is
\* still there has found it past its time: a call that gives a connection back,
\* a round of the checker and a failed read of another call never cost one.
THEOREM HealthyConnectionsStay == Spec => NeverClosesHealthy
<1> DEFINE Spares == \A c \in Conn : sock[c] = "up" /\ sock'[c] = "closed" =>
                                       age[c] # "young" \/ chan # "live"
<1>1. PoolInv /\ Locked /\ [Next]_vars => Spares
  <2> SUFFICES ASSUME PoolInv, Locked, [Next]_vars, NEW c \in Conn, sock[c] = "up", sock'[c] = "closed"
               PROVE  age[c] # "young" \/ chan # "live"
    OBVIOUS
  <2> USE DEF PoolInv, TypeOK, SocketsOK
  <2>1. ASSUME NEW u \in User, Dialled(u) \/ UseRead(u) \/ UseErr(u) PROVE FALSE
    BY <2>1 DEF Dialled, UseRead, UseErr, Discard, connVars
  <2>2. ASSUME NEW u \in User, CloseConn(u) PROVE FALSE
    <3>1. pc[u] = "use" /\ u \in Worker
      BY <2>2 DEF CloseConn, Worker
    <3>2. unusable[hand[u]] <=> sock[hand[u]] = "closed"
      BY <3>1 DEF ReturnsUsable
    <3> QED
      BY <2>2, <3>2 DEF CloseConn, Reusable
  <2>3. ASSUME NEW w \in Worker, PutStart(w) PROVE chan # "live"
    BY <2>3 DEF PutStart, connVars
  <2>4. CASE CheckConn
    BY <2>4 DEF CheckConn, Due, Discard
  <2>5. ASSUME NEW k \in Closer, CloseDrain(k) PROVE chan # "live"
    BY <2>5 DEF CloseDrain, Locked
  <2>6. ASSUME NEW d \in Conn, PeerSends(d) \/ PeerGone(d) PROVE FALSE
    BY <2>6 DEF PeerSends, PeerGone
  <2>7. CASE UNCHANGED sock
    BY <2>7
  <2> QED
    BY <2>1, <2>2, <2>3, <2>4, <2>5, <2>6, <2>7, NextIsStep
    DEF Step, GetStart, GetRecv, GetDial, PutSend, CheckLen, CheckSelect, CheckRecv, CloseLock,
        CloseNil, CloseChan, AgeOut, vars, connVars
<1>2. Spares => [Spares]_vars
  OBVIOUS
<1> QED
  BY <1>1, PoolInvariant, LockedAlways, PTL DEF Spec, NeverClosesHealthy
-----------------------------------------------------------------------------
(* How many connections there are *)

\* A worker that dials has found the channel empty, and has no connection yet.
\* Those that dial or have one, with what is in the channel, are never more than
\* the workers, or than the connections the constructor has dialled.
Busy == {w \in Worker : pc[w] \in {"dial", "dialing", "use", "check"} \cup PutPC}
Most == IF InitialCap > Cardinality(User) + 1 THEN InitialCap ELSE Cardinality(User) + 1
Counted == Len(conns) + Cardinality(Busy) <= Most

LEMMA Workers ==
  ASSUME IsFiniteSet(User)
  PROVE  /\ IsFiniteSet(Worker) /\ Cardinality(Worker) = Cardinality(User) + 1
         /\ Most \in Nat /\ Cardinality(Worker) <= Most /\ InitialCap <= Most
<1>1. Checker \notin User /\ InitialCap \in Nat
  BY ConnPoolAssumption
<1>2. IsFiniteSet(Worker) /\ Cardinality(Worker) = Cardinality(User) + 1 /\ Cardinality(User) \in Nat
  BY <1>1, FS_AddElement, FS_CardinalityType DEF Worker
<1> QED
  BY <1>1, <1>2 DEF Most

\* What one worker more or one less makes of a set of workers.
LEMMA Some ==
  ASSUME IsFiniteSet(User), NEW B \in SUBSET Worker
  PROVE  /\ IsFiniteSet(B) /\ Cardinality(B) \in Nat /\ Cardinality(B) <= Cardinality(Worker)
         /\ \A A \in SUBSET B : Cardinality(A) <= Cardinality(B) /\ Cardinality(A) \in Nat
         /\ \A w \in Worker : \A A \in SUBSET (B \cup {w}) :
              Cardinality(A) <= Cardinality(B) + 1 /\ Cardinality(A) \in Nat
         /\ \A w \in B : \A A \in SUBSET (B \ {w}) :
              Cardinality(A) <= Cardinality(B) - 1 /\ Cardinality(A) \in Nat
<1>1. IsFiniteSet(B) /\ Cardinality(B) \in Nat /\ Cardinality(B) <= Cardinality(Worker)
  BY Workers, FS_Subset, FS_CardinalityType
<1>2. ASSUME NEW A \in SUBSET B PROVE Cardinality(A) <= Cardinality(B) /\ Cardinality(A) \in Nat
  BY <1>1, FS_Subset, FS_CardinalityType
<1>3. ASSUME NEW w \in Worker, NEW A \in SUBSET (B \cup {w})
      PROVE  Cardinality(A) <= Cardinality(B) + 1 /\ Cardinality(A) \in Nat
  <2>1. IsFiniteSet(B \cup {w}) /\ Cardinality(B \cup {w}) \in {Cardinality(B), Cardinality(B) + 1}
    BY <1>1, FS_AddElement
  <2>2. IsFiniteSet(A) /\ Cardinality(A) <= Cardinality(B \cup {w}) /\ Cardinality(A) \in Nat
    BY <2>1, FS_Subset, FS_CardinalityType
  <2> QED
    BY <1>1, <2>1, <2>2
<1>4. ASSUME NEW w \in B, NEW A \in SUBSET (B \ {w})
      PROVE  Cardinality(A) <= Cardinality(B) - 1 /\ Cardinality(A) \in Nat
  <2>1. IsFiniteSet(B \ {w}) /\ Cardinality(B \ {w}) = Cardinality(B) - 1
    BY <1>1, FS_RemoveElement
  <2>2. IsFiniteSet(A) /\ Cardinality(A) <= Cardinality(B \ {w}) /\ Cardinality(A) \in Nat
    BY <2>1, FS_Subset, FS_CardinalityType
  <2> QED
    BY <2>1, <2>2
<1> QED
  BY <1>1, <1>2, <1>3, <1>4

\* The ways a step can change the two numbers.
LEMMA CountMoves ==
  ASSUME IsFiniteSet(User), TypeOK, TypeOK', Counted,
         \/ Len(conns') <= Len(conns) /\ Busy' \subseteq Busy
         \/ conns' = <<>>
         \/ conns # <<>> /\ conns' = Tail(conns) /\ \E w \in Worker : Busy' \subseteq Busy \cup {w}
         \/ \E w \in Busy, c \in Conn : conns' = Append(conns, c) /\ Busy' \subseteq Busy \ {w}
  PROVE  Counted'
<1> DEFINE B == Busy  N == Cardinality(Busy)  L == Len(conns)
<1>1. conns \in Seq(Conn) /\ conns' \in Seq(Conn) /\ L \in Nat /\ Len(conns') \in Nat
  <2>1. conns \in Seq(Conn) /\ conns' \in Seq(Conn)
    BY DEF TypeOK, ChannelOK
  <2> QED
    BY <2>1, LenProperties
<1>2. Busy \in SUBSET Worker /\ Busy' \in SUBSET Worker
  BY DEF Busy
<1>3. N \in Nat /\ Cardinality(Busy') \in Nat /\ Cardinality(Busy') <= Cardinality(Worker)
  BY <1>2, Some
<1>4. Most \in Nat /\ Cardinality(Worker) \in Nat /\ Cardinality(Worker) <= Most /\ L + N <= Most
  BY Workers, FS_CardinalityType DEF Counted
<1>5. SUFFICES Len(conns') + Cardinality(Busy') <= Most
  BY DEF Counted, Most
<1>6. CASE Len(conns') <= L /\ Busy' \subseteq Busy
  <2>1. Cardinality(Busy') <= N
    BY <1>2, <1>6, Some
  <2> QED
    BY <1>1, <1>3, <1>4, <1>6, <2>1
<1>7. CASE conns' = <<>>
  <2>1. Len(conns') = 0
    BY <1>7
  <2> QED
    BY <1>3, <1>4, <2>1
<1>8. ASSUME conns # <<>>, conns' = Tail(conns), NEW w \in Worker, Busy' \subseteq Busy \cup {w}
      PROVE  Len(conns') + Cardinality(Busy') <= Most
  <2>1. Cardinality(Busy') <= N + 1
    BY <1>2, <1>8, Some
  <2>2. Len(conns') = L - 1
    BY <1>1, <1>8, HeadTailProperties
  <2> QED
    BY <1>1, <1>3, <1>4, <2>1, <2>2
<1>9. ASSUME NEW w \in Busy, NEW c \in Conn, conns' = Append(conns, c), Busy' \subseteq Busy \ {w}
      PROVE  Len(conns') + Cardinality(Busy') <= Most
  <2>1. Cardinality(Busy') <= N - 1
    BY <1>2, <1>9, Some
  <2>2. Len(conns') = L + 1
    BY <1>1, <1>9, AppendProperties
  <2> QED
    BY <1>1, <1>3, <1>4, <2>1, <2>2
<1> QED
  BY <1>6, <1>7, <1>8, <1>9

LEMMA BusyMoves ==
  ASSUME TypeOK, NEW w \in Worker, NEW l, Goto(w, l)
  PROVE  /\ Busy' \subseteq Busy \cup {w}
         /\ l \notin {"dial", "dialing", "use", "check"} \cup PutPC => Busy' \subseteq Busy \ {w}
         /\ w \in Busy => Busy' \subseteq Busy
BY DEF TypeOK, LabelsOK, Goto, Busy

LEMMA CountedStep ==
  ASSUME IsFiniteSet(User) PROVE TypeOK /\ TypeOK' /\ Counted /\ [Next]_vars => Counted'
<1> SUFFICES ASSUME TypeOK, TypeOK', Counted, [Next]_vars PROVE Counted'
  OBVIOUS
<1>0. Len(conns) \in Nat /\ (conns # <<>> => Len(Tail(conns)) <= Len(conns))
  <2>1. conns \in Seq(Conn)
    BY DEF TypeOK, ChannelOK
  <2>2. Len(conns) \in Nat
    BY <2>1, LenProperties
  <2>3. conns # <<>> => Len(Tail(conns)) = Len(conns) - 1
    BY <2>1, HeadTailProperties
  <2> QED
    BY <2>2, <2>3
<1>1. ASSUME UNCHANGED conns, Busy' \subseteq Busy PROVE Counted'
  <2>1. Len(conns') <= Len(conns)
    BY <1>0, <1>1
  <2> QED
    BY <1>1, <2>1, CountMoves
<1>2. ASSUME NEW u \in User, GetStart(u) PROVE Counted'
  <2>1. u \in Worker /\ Goto(u, "recv") /\ UNCHANGED conns
    BY <1>2 DEF GetStart, Worker
  <2>2. Busy' \subseteq Busy \ {u}
    BY <2>1, BusyMoves DEF PutPC
  <2> QED
    BY <1>1, <2>1, <2>2
<1>3. ASSUME NEW u \in User, GetRecv(u) PROVE Counted'
  <2>1. u \in Worker /\ \E l : Goto(u, l)
    BY <1>3 DEF GetRecv, Worker
  <2>2. Busy' \subseteq Busy \cup {u}
    BY <2>1, BusyMoves
  <2>3. IF conns # <<>> THEN conns' = Tail(conns) ELSE conns' = <<>>
    BY <1>3 DEF GetRecv, Received
  <2> QED
    BY <2>1, <2>2, <2>3, CountMoves
<1>4. ASSUME NEW u \in User, GetDial(u) \/ Dialled(u) \/ CloseConn(u) PROVE Counted'
  <2>1. /\ u \in Worker /\ UNCHANGED conns /\ pc[u] \in {"dial", "dialing", "use"}
        /\ UNCHANGED pc \/ \E l : Goto(u, l)
    BY <1>4 DEF GetDial, Dialled, CloseConn, Worker
  <2>2. u \in Busy
    BY <2>1 DEF Busy
  <2>3. Busy' \subseteq Busy
    BY <2>1, <2>2, BusyMoves DEF Busy
  <2> QED
    BY <1>1, <2>1, <2>3
<1>5. ASSUME NEW w \in Worker, PutStart(w) PROVE Counted'
  <2>1. UNCHANGED conns /\ w \in Busy /\ \E l : Goto(w, l)
    BY <1>5 DEF PutStart, Busy, PutPC
  <2> QED
    BY <1>1, <2>1, BusyMoves
<1>6. ASSUME NEW w \in Worker, PutSend(w) PROVE Counted'
  <2>1. w \in Busy /\ hand[w] \in Conn
    BY <1>6 DEF PutSend, Busy, PutPC, TypeOK, HandsOK
  <2>2. CASE conns' = Append(conns, hand[w]) /\ Goto(w, Rest(w))
    <3>1. Rest(w) \notin {"dial", "dialing", "use", "check"} \cup PutPC
      BY DEF Rest, PutPC
    <3>2. Busy' \subseteq Busy \ {w}
      BY <2>2, <3>1, BusyMoves
    <3> QED
      BY <2>1, <2>2, <3>2, CountMoves
  <2>3. CASE UNCHANGED conns /\ (UNCHANGED pc \/ Goto(w, "put"))
    BY <1>1, <2>1, <2>3, BusyMoves DEF Busy
  <2> QED
    BY <1>6, <2>2, <2>3 DEF PutSend
<1>7. CASE CheckLen \/ CheckSelect
  <2>1. /\ Checker \in Worker /\ UNCHANGED conns
        /\ \E l \in {"loop", "sleep", "recv"} : Goto(Checker, l)
    BY <1>7 DEF CheckLen, CheckSelect, Worker
  <2>2. Busy' \subseteq Busy \ {Checker}
    BY <2>1, BusyMoves DEF PutPC
  <2> QED
    BY <1>1, <2>1, <2>2
<1>8. CASE CheckRecv
  <2>1. Checker \in Worker
    BY DEF Worker
  <2>2. Busy' \subseteq Busy \cup {Checker}
    BY <1>8, <2>1, BusyMoves DEF CheckRecv, Busy
  <2>3. IF conns # <<>> THEN conns' = Tail(conns) ELSE conns' = <<>>
    BY <1>8 DEF CheckRecv, Received
  <2> QED
    BY <2>1, <2>2, <2>3, CountMoves
<1>9. CASE CheckConn
  <2>1. Checker \in Busy /\ Checker \in Worker /\ UNCHANGED conns /\ \E l : Goto(Checker, l)
    BY <1>9 DEF CheckConn, Busy, Worker
  <2> QED
    BY <1>1, <2>1, BusyMoves
<1>10. ASSUME NEW k \in Closer, CloserStep(k) PROVE Counted'
  <2>1. \A w \in Worker : pc'[w] = pc[w]
    BY <1>10, ConnPoolAssumption
    DEF CloserStep, CloseLock, CloseNil, CloseChan, CloseDrain, Goto, TypeOK, LabelsOK
  <2>2. Busy' = Busy
    BY <2>1 DEF Busy
  <2>3. UNCHANGED conns \/ (conns # <<>> /\ conns' = Tail(conns))
    BY <1>10 DEF CloserStep, CloseLock, CloseNil, CloseChan, CloseDrain, Received
  <2>4. Len(conns') <= Len(conns)
    BY <1>0, <2>3
  <2> QED
    BY <2>2, <2>4, CountMoves
<1>11. CASE UNCHANGED <<conns, pc>>
  BY <1>1, <1>11 DEF Busy
<1> QED
  BY <1>2, <1>3, <1>4, <1>5, <1>6, <1>7, <1>8, <1>9, <1>10, <1>11, NextIsStep
  DEF Step, CloserStep, UseRead, UseErr, PeerSends, PeerGone, AgeOut, vars

LEMMA CountedAlways == ASSUME IsFiniteSet(User) PROVE Spec => []Counted
<1>1. Init => Counted
  <2> SUFFICES ASSUME Init PROVE Counted
    OBVIOUS
  <2>1. Busy = {}
    BY DEF Init, Busy, PutPC, Worker
  <2>2. Len(conns) = InitialCap
    BY ConnPoolAssumption DEF Init
  <2>3. InitialCap \in Nat /\ InitialCap <= Most
    BY ConnPoolAssumption, Workers
  <2> QED
    BY <2>1, <2>2, <2>3, FS_EmptySet DEF Counted
<1> QED
  BY <1>1, CountedStep, TypeCorrect, PTL DEF Spec

\* What is in the channel and in the hands of the workers are no more connections
\* than that.
LEMMA OpenCount ==
  ASSUME IsFiniteSet(User), PoolInv
  PROVE  Cardinality(OpenConns) <= Len(conns) + Cardinality(Busy) /\ Cardinality(OpenConns) \in Nat
<1> DEFINE L == Len(conns)  Holders == {w \in Worker : hand[w] # None}
<1>1. conns \in Seq(Conn) /\ L \in Nat
  <2>1. conns \in Seq(Conn)
    BY DEF PoolInv, TypeOK, ChannelOK
  <2> QED
    BY <2>1, LenProperties
<1>2. IsFiniteSet(Idle) /\ Cardinality(Idle) <= L /\ Cardinality(Idle) \in Nat
  <2>1. IsFiniteSet(1..L) /\ Cardinality(1..L) = L
    BY <1>1, FS_Interval
  <2>2. [i \in 1..L |-> conns[i]] \in Surjection(1..L, Idle)
    BY DEF Surjection, Idle
  <2> QED
    BY <2>1, <2>2, FS_Surjection, FS_CardinalityType
<1>3. IsFiniteSet(Held) /\ Cardinality(Held) <= Cardinality(Busy) /\ Cardinality(Held) \in Nat
  <2>1. Holders \in SUBSET Busy /\ Busy \in SUBSET Worker
    BY DEF Busy, PoolInv, TypeOK, HandsOK
  <2>2. IsFiniteSet(Busy) /\ Cardinality(Busy) \in Nat
    BY <2>1, Some
  <2>3. IsFiniteSet(Holders) /\ Cardinality(Holders) <= Cardinality(Busy)
    BY <2>1, <2>2, FS_Subset
  <2>4. [w \in Holders |-> hand[w]] \in Surjection(Holders, Held)
    BY DEF Surjection, Held
  <2>5. IsFiniteSet(Held) /\ Cardinality(Held) <= Cardinality(Holders)
    BY <2>3, <2>4, FS_Surjection
  <2>6. Cardinality(Held) \in Nat /\ Cardinality(Holders) \in Nat
    BY <2>3, <2>5, FS_CardinalityType
  <2> QED
    BY <2>2, <2>3, <2>5, <2>6
<1>4. /\ IsFiniteSet(Idle \cup Held) /\ Cardinality(Idle \cup Held) \in Nat
      /\ Cardinality(Idle \cup Held) <= Cardinality(Idle) + Cardinality(Held)
  <2>1. /\ IsFiniteSet(Idle \cup Held) /\ IsFiniteSet(Idle \cap Held)
        /\ Cardinality(Idle \cup Held) = Cardinality(Idle) + Cardinality(Held) - Cardinality(Idle \cap Held)
    BY <1>2, <1>3, FS_Union, FS_Intersection
  <2>2. Cardinality(Idle \cup Held) \in Nat /\ Cardinality(Idle \cap Held) \in Nat
    BY <2>1, FS_CardinalityType
  <2> QED
    BY <1>2, <1>3, <2>1, <2>2
<1>5. OpenConns \in SUBSET (Idle \cup Held)
  BY DEF PoolInv, NoLeak
<1>6. Cardinality(OpenConns) <= Cardinality(Idle \cup Held) /\ Cardinality(OpenConns) \in Nat
  BY <1>4, <1>5, FS_Subset, FS_CardinalityType
<1>7. Cardinality(Busy) \in Nat
  BY Some DEF Busy
<1> QED
  BY <1>1, <1>2, <1>3, <1>4, <1>6, <1>7

\* However many callers find the channel empty at once, and whatever the checker
\* and Close do meanwhile, the pool never has more open connections than they are,
\* or than it began with.
THEOREM SocketsAreBounded ==
  ASSUME IsFiniteSet(User) PROVE Spec => []CapacityBound
<1>1. PoolInv /\ Counted => CapacityBound
  <2> SUFFICES ASSUME PoolInv, Counted PROVE Cardinality(OpenConns) <= Most
    BY DEF CapacityBound, Most
  <2>1. Len(conns) \in Nat
    BY LenProperties DEF PoolInv, TypeOK, ChannelOK
  <2>2. Cardinality(Busy) \in Nat
    BY Some DEF Busy
  <2> QED
    BY <2>1, <2>2, OpenCount, Workers DEF Counted
<1> QED
  BY <1>1, PoolInvariant, CountedAlways, PTL

\* A capacity for all callers and the checker is enough: Put always finds room, and
\* nothing takes the process down while the pool is open.
THEOREM RoomForAll ==
  ASSUME IsFiniteSet(User), MaxCap >= Cardinality(User) + 1 PROVE Spec => []NoPanic
<1>1. Init => NoPanic
  BY DEF Init, NoPanic
<1>2. TypeOK /\ Counted /\ NoPanic /\ [Next]_vars => NoPanic'
  <2> SUFFICES ASSUME TypeOK, Counted, NoPanic, [Next]_vars, chan' = "live" PROVE panic' = "no"
    BY DEF NoPanic
  <2>1. ASSUME NEW w \in Worker, pc[w] = "send" PROVE HasRoom
    <3>1. w \in Busy /\ Busy \in SUBSET Worker
      BY <2>1 DEF Busy, PutPC
    <3>2. IsFiniteSet(Busy) /\ Cardinality(Busy) \in Nat
      BY <3>1, Some
    <3>3. Cardinality(Busy) # 0
      BY <3>1, <3>2, FS_EmptySet
    <3>4. Len(conns) \in Nat
      BY LenProperties DEF TypeOK, ChannelOK
    <3>5. Most <= MaxCap /\ Most \in Nat /\ MaxCap \in Nat
      BY ConnPoolAssumption, Workers DEF Most
    <3> QED
      BY <3>2, <3>3, <3>4, <3>5 DEF Counted, HasRoom
  <2>2. ASSUME NEW w \in Worker, PutSend(w) PROVE panic' = "no"
    <3>1. chan = "live" /\ HasRoom
      BY <2>1, <2>2 DEF PutSend
    <3> QED
      BY <2>2, <3>1 DEF PutSend, NoPanic
  <2>3. ASSUME NEW u \in User, GetDial(u) PROVE panic' = "no"
    BY <2>3 DEF GetDial, NoPanic
  <2>4. CASE CheckRecv
    BY <2>4 DEF CheckRecv, NoPanic
  <2>5. CASE UNCHANGED panic
    <3>1. chan = "live"
      BY <2>5, NextIsStep
      DEF Step, GetStart, GetRecv, GetDial, Dialled, UseRead, UseErr, CloseConn, PutStart, PutSend,
          CheckLen, CheckSelect, CheckRecv, CheckConn, CloseLock, CloseNil, CloseChan, CloseDrain,
          PeerSends, PeerGone, AgeOut, vars
    <3> QED
      BY <2>5, <3>1 DEF NoPanic
  <2> QED
    BY <2>2, <2>3, <2>4, <2>5, NextIsStep
    DEF Step, GetStart, GetRecv, Dialled, UseRead, UseErr, CloseConn, PutStart,
        CheckLen, CheckSelect, CheckConn, CloseLock, CloseNil, CloseChan, CloseDrain,
        PeerSends, PeerGone, AgeOut, vars
<1> QED
  BY <1>1, <1>2, TypeCorrect, CountedAlways, PTL DEF Spec
-----------------------------------------------------------------------------
(* The pool implements ConnLease: every action is one step of the lease of one
   connection, or touches nothing it shows. *)

\* Whom a connection belongs to, for any channel content and hands.
OwnerIn(I, h, c) ==
  IF c \in I THEN Pool
  ELSE IF \E w \in Worker : h[w] = c THEN CHOOSE w \in Worker : h[w] = c
  ELSE None

\* OwnerOf is the goroutine that holds the connection, if there is one.
LEMMA OwnerCases ==
  ASSUME NEW I, NEW h, NEW c, c # None,
         \A w \in Worker : h[w] \notin I,
         \A v, w \in Worker : h[v] = h[w] /\ h[v] # None => v = w
  PROVE  /\ c \in I => OwnerIn(I, h, c) = Pool
         /\ \A w \in Worker : h[w] = c => OwnerIn(I, h, c) = w
         /\ c \notin I /\ (\A w \in Worker : h[w] # c) => OwnerIn(I, h, c) = None
  BY DEF OwnerIn

\* The owners before and after a step in which only connection c may change hands.
LEMMA OwnerStep ==
  ASSUME PoolInv, PoolInv', NEW c \in Conn, NEW o,
         \A d \in Conn \ {c} : (d \in Idle') = (d \in Idle),
         \A d \in Conn \ {c} : \A w \in Worker : (hand'[w] = d) = (hand[w] = d),
         \/ c \in Idle' /\ o = Pool
         \/ o \in Worker /\ hand'[o] = c
         \/ c \notin (Idle \cup Held)' /\ o = None
  PROVE  [d \in Conn |-> OwnerOf(d)]' = [[d \in Conn |-> OwnerOf(d)] EXCEPT ![c] = o]
<1> USE ConnPoolAssumption
<1>1. \A d \in Conn : d # None
  OBVIOUS
<1>2. \A d \in Conn : OwnerOf(d) = OwnerIn(Idle, hand, d) /\ OwnerOf(d)' = OwnerIn(Idle', hand', d)
  BY DEF OwnerOf, OwnerIn
<1>3. ASSUME NEW d \in Conn \ {c} PROVE OwnerOf(d)' = OwnerOf(d)
  <2>1. (d \in Idle') = (d \in Idle) /\ \A w \in Worker : (hand'[w] = d) = (hand[w] = d)
    BY <1>3
  <2> QED
    BY <2>1 DEF OwnerOf
<1>4. OwnerOf(c)' = o
  BY <1>1, <1>2, OwnerCases DEF PoolInv, ExclusiveOwner, Held
<1> QED
  BY <1>3, <1>4

\* The mapped variables.
Owner == [c \in Conn |-> OwnerOf(c)]
Open == [c \in Conn |-> sock[c] # "closed"]

\* Who owns what, in one state.
LEMMA OwnerNow ==
  ASSUME PoolInv, NEW c \in Conn
  PROVE  /\ c \in Idle => Owner[c] = Pool
         /\ \A w \in Worker : hand[w] = c => Owner[c] = w
         /\ c \notin Idle \cup Held => Owner[c] = None
<1>1. OwnerOf(c) = OwnerIn(Idle, hand, c) /\ c # None
  BY ConnPoolAssumption DEF OwnerOf, OwnerIn
<1> QED
  BY <1>1, OwnerCases DEF PoolInv, ExclusiveOwner, Held, Owner

\* A step that moves nothing and closes nothing is not seen.
LEMMA Unseen ==
  ASSUME UNCHANGED <<conns, hand>>, \A c \in Conn : (sock'[c] = "closed") = (sock[c] = "closed")
  PROVE  UNCHANGED Lease!leaseVars
<1>1. Owner' = Owner
  BY DEF Owner, OwnerOf, Idle
<1>2. Open' = Open
  BY DEF Open
<1> QED
  BY <1>1, <1>2 DEF Lease!leaseVars, Owner, Open

\* The owner of one connection changes, and perhaps its socket.
LEMMA Seen ==
  ASSUME PoolInv, PoolInv', NEW c \in Conn, NEW from, NEW to,
         Owner[c] = from, Owner' = [Owner EXCEPT ![c] = to]
  PROVE  Lease!Moves(c, from, to)
  BY DEF Lease!Moves, Owner

\* What a receive leaves idle.
LEMMA Leaves ==
  ASSUME ChannelOK, ExclusiveOwner, conns # <<>>, conns' = Tail(conns)
  PROVE  Idle' = Idle \ {Head(conns)}
<1>1. conns \in Seq(Conn) /\ Distinct(conns)
  BY DEF ChannelOK, ExclusiveOwner, Distinct
<1>2. Elements(Tail(conns)) = Elements(conns) \ {Head(conns)}
  BY <1>1, TailElements
<1> QED
  BY <1>2 DEF Idle, Elements

\* A receive that finds a connection is a Borrow.
LEMMA TakeBorrows ==
  ASSUME PoolInv, PoolInv', NEW w \in Worker, hand[w] = None, conns # <<>>,
         conns' = Tail(conns), hand' = [hand EXCEPT ![w] = Head(conns)], UNCHANGED sock
  PROVE  Lease!LeaseNext
<1> DEFINE c == Head(conns)
<1>1. c \in Idle /\ c \in Conn
  BY HeadIdle, IdleIn DEF PoolInv, TypeOK, ChannelOK
<1>2. Idle' = Idle \ {c}
  BY Leaves DEF PoolInv, TypeOK
<1> HIDE DEF c
<1>3. \A v \in Worker : hand'[v] = IF v = w THEN c ELSE hand[v]
  BY DEF PoolInv, TypeOK, HandsOK, c
<1>4. Owner' = [Owner EXCEPT ![c] = w]
  <2>1. \A d \in Conn \ {c} : (d \in Idle') = (d \in Idle)
    BY <1>2
  <2>2. \A d \in Conn \ {c} : \A v \in Worker : (hand'[v] = d) = (hand[v] = d)
    BY <1>3, ConnPoolAssumption
  <2> QED
    BY <1>1, <1>3, <2>1, <2>2, OwnerStep DEF Owner
<1>5. Lease!Moves(c, Pool, w)
  BY <1>1, <1>4, Seen, OwnerNow
<1> QED
  BY <1>1, <1>5 DEF Lease!LeaseNext, Lease!Borrow

\* A connection whose owner closes it and lets go of it is retired.
LEMMA TearRetires ==
  ASSUME PoolInv, PoolInv', NEW w \in Worker, hand[w] # None,
         UNCHANGED conns, hand' = [hand EXCEPT ![w] = None],
         sock' = [sock EXCEPT ![hand[w]] = "closed"]
  PROVE  Lease!LeaseNext
<1> DEFINE c == hand[w]
<1>1. c \in Conn /\ c \notin Idle /\ Idle' = Idle
  BY DEF PoolInv, TypeOK, HandsOK, ExclusiveOwner, Idle
<1>2. \A v \in Worker : hand'[v] = IF v = w THEN None ELSE hand[v]
  BY DEF PoolInv, TypeOK, HandsOK
<1>3. c \notin (Idle \cup Held)'
  BY <1>1, <1>2 DEF PoolInv, ExclusiveOwner, Held
<1>4. \A d \in Conn \ {c} : \A v \in Worker : (hand'[v] = d) = (hand[v] = d)
  BY <1>2, ConnPoolAssumption
<1>5. Owner' = [Owner EXCEPT ![c] = None]
  BY <1>1, <1>3, <1>4, OwnerStep DEF Owner
<1>6. Lease!Moves(c, w, None)
  BY <1>1, <1>5, Seen, OwnerNow
<1>7. Open' = [Open EXCEPT ![c] = FALSE]
  BY <1>1 DEF Open, PoolInv, TypeOK, SocketsOK
<1> QED
  BY <1>1, <1>6, <1>7 DEF Lease!LeaseNext, Lease!Retire, Open

\* Every step of the pool is a step of the lease, or not seen there.
LEMMA LeaseStep == PoolInv /\ PoolInv' /\ [Next]_vars => [Lease!LeaseNext]_(Lease!leaseVars)
<1> SUFFICES ASSUME PoolInv, PoolInv', [Next]_vars
             PROVE  Lease!LeaseNext \/ UNCHANGED Lease!leaseVars
  OBVIOUS
<1> DEFINE Goal == Lease!LeaseNext \/ UNCHANGED Lease!leaseVars
<1>1. ASSUME NEW u \in User, GetStart(u) \/ GetDial(u) PROVE Goal
  BY <1>1, Unseen DEF GetStart, GetDial, connVars
<1>2. ASSUME NEW u \in User, GetRecv(u) PROVE Goal
  <2>1. CASE conns = <<>>
    BY <1>2, <2>1, Unseen DEF GetRecv, connVars
  <2>2. CASE conns # <<>>
    <3>1. ~unusable[Head(conns)]
      BY <2>2, HeadIdle DEF PoolInv, TypeOK, ChannelOK, IdleUsable
    <3>2. u \in Worker /\ hand[u] = None
      BY <1>2 DEF GetRecv, Worker, PoolInv, TypeOK, HandsOK, PutPC
    <3> QED
      BY <1>2, <2>2, <3>1, <3>2, TakeBorrows DEF GetRecv, Received, connVars
  <2> QED
    BY <2>1, <2>2
<1>3. ASSUME NEW u \in User, Dialled(u) PROVE Goal
  <2>1. CASE UNCHANGED <<hand, connVars>>
    BY <1>3, <2>1, Unseen DEF Dialled, connVars
  <2>2. ASSUME NEW c \in Conn \ (OpenConns \cup Idle \cup Held),
               hand' = [hand EXCEPT ![u] = c], sock' = [sock EXCEPT ![c] = "up"]
        PROVE  Goal
    <3>1. u \in Worker /\ hand[u] = None /\ Idle' = Idle
      BY <1>3 DEF Dialled, Worker, PoolInv, TypeOK, HandsOK, PutPC, Idle
    <3>2. \A v \in Worker : hand'[v] = IF v = u THEN c ELSE hand[v]
      BY <2>2 DEF PoolInv, TypeOK, HandsOK
    <3>3. \A d \in Conn \ {c} : \A v \in Worker : (hand'[v] = d) = (hand[v] = d)
      BY <3>1, <3>2, ConnPoolAssumption
    <3>4. Owner' = [Owner EXCEPT ![c] = u]
      BY <3>1, <3>2, <3>3, OwnerStep DEF Owner
    <3>5. Lease!Moves(c, None, u)
      BY <3>4, Seen, OwnerNow
    <3>6. Open' = [Open EXCEPT ![c] = TRUE]
      BY <2>2 DEF Open, PoolInv, TypeOK, SocketsOK
    <3> QED
      BY <3>1, <3>5, <3>6 DEF Lease!LeaseNext, Lease!Create, Open
  <2> QED
    BY <1>3, <2>1, <2>2 DEF Dialled
<1>4. ASSUME NEW u \in User, UseRead(u) PROVE Goal
  BY <1>4, Unseen DEF UseRead, PoolInv, TypeOK, SocketsOK
<1>5. ASSUME NEW u \in User, UseErr(u) PROVE Goal
  <2>1. u \in Worker /\ hand[u] \in Conn
    BY <1>5 DEF UseErr, Worker, PoolInv, TypeOK, HandsOK, PutPC
  <2>2. Open' = [Open EXCEPT ![hand[u]] = FALSE]
    BY <1>5, <2>1 DEF UseErr, Discard, Open, PoolInv, TypeOK, SocketsOK
  <2>3. Owner' = Owner
    BY <1>5 DEF UseErr, Owner, OwnerOf, Idle
  <2> QED
    BY <2>1, <2>2, <2>3, OwnerNow DEF Lease!LeaseNext, Lease!Break, Open, Owner
<1>6. ASSUME NEW u \in User, CloseConn(u) PROVE Goal
  <2>1. CASE Reusable(hand[u])
    BY <1>6, <2>1, Unseen DEF CloseConn
  <2>2. CASE ~Reusable(hand[u])
    <3>1. u \in Worker /\ hand[u] # None
      BY <1>6 DEF CloseConn, Worker, PoolInv, TypeOK, HandsOK, PutPC
    <3> QED
      BY <1>6, <2>2, <3>1, TearRetires DEF CloseConn
  <2> QED
    BY <2>1, <2>2
<1>7. ASSUME NEW w \in Worker, PutStart(w) PROVE Goal
  <2>1. CASE chan = "live" \/ HoldsConnLock(w)
    BY <1>7, <2>1, Unseen DEF PutStart, connVars
  <2>2. CASE chan # "live" /\ ~HoldsConnLock(w)
    <3>1. hand[w] # None
      BY <1>7 DEF PutStart, PoolInv, TypeOK, HandsOK, PutPC
    <3> QED
      BY <1>7, <2>2, <3>1, TearRetires DEF PutStart, Discard
  <2> QED
    BY <2>1, <2>2
<1>8. ASSUME NEW w \in Worker, PutSend(w) PROVE Goal
  <2>1. CASE ~(chan # "closed" /\ HasRoom)
    BY <1>8, <2>1, Unseen DEF PutSend, connVars
  <2>2. CASE chan # "closed" /\ HasRoom
    <3> DEFINE c == hand[w]
    <3>1. c \in Conn /\ c # None /\ sock[c] # "closed" /\ UNCHANGED sock
      BY <1>8, <2>2, ConnPoolAssumption DEF PutSend, PoolInv, TypeOK, HandsOK, PutPC, ReturnsUsable, connVars
    <3>2. conns' = Append(conns, c) /\ hand' = [hand EXCEPT ![w] = None]
      BY <1>8, <2>2 DEF PutSend
    <3>3. Idle' = Idle \cup {c}
      BY <3>1, <3>2, Give DEF PoolInv, TypeOK
    <3>4. \A v \in Worker : hand'[v] = IF v = w THEN None ELSE hand[v]
      BY <3>2 DEF PoolInv, TypeOK, HandsOK
    <3>5. \A d \in Conn \ {c} : \A v \in Worker : (hand'[v] = d) = (hand[v] = d)
      BY <3>4, ConnPoolAssumption
    <3>6. Owner' = [Owner EXCEPT ![c] = Pool]
      BY <3>1, <3>3, <3>5, OwnerStep DEF Owner
    <3>7. Lease!Moves(c, w, Pool)
      BY <3>1, <3>6, Seen, OwnerNow
    <3> QED
      BY <3>1, <3>7 DEF Lease!LeaseNext, Lease!Return
  <2> QED
    BY <2>1, <2>2
<1>9. CASE CheckLen \/ CheckSelect
  BY <1>9, Unseen DEF CheckLen, CheckSelect, connVars
<1>10. CASE CheckRecv
  <2>1. CASE conns = <<>>
    BY <1>10, <2>1, Unseen DEF CheckRecv, connVars
  <2>2. CASE conns # <<>>
    <3>1. Checker \in Worker /\ hand[Checker] = None
      BY <1>10 DEF CheckRecv, Worker, PoolInv, TypeOK, HandsOK, PutPC
    <3> QED
      BY <1>10, <2>2, <3>1, TakeBorrows DEF CheckRecv, Received, connVars
  <2> QED
    BY <2>1, <2>2
<1>11. CASE CheckConn
  <2>1. CASE Due(hand[Checker])
    <3>1. Checker \in Worker /\ hand[Checker] # None
      BY <1>11 DEF CheckConn, Worker, PoolInv, TypeOK, HandsOK, PutPC
    <3> QED
      BY <1>11, <2>1, <3>1, TearRetires DEF CheckConn, Discard
  <2>2. CASE ~Due(hand[Checker])
    BY <1>11, <2>2, Unseen DEF CheckConn, PoolInv, TypeOK, SocketsOK
  <2> QED
    BY <2>1, <2>2
<1>12. ASSUME NEW k \in Closer, CloseLock(k) \/ CloseNil(k) \/ CloseChan(k) PROVE Goal
  BY <1>12, Unseen DEF CloseLock, CloseNil, CloseChan, connVars
<1>13. ASSUME NEW k \in Closer, CloseDrain(k) PROVE Goal
  <2>1. CASE conns = <<>>
    BY <1>13, <2>1, Unseen DEF CloseDrain, connVars
  <2>2. CASE conns # <<>>
    <3> DEFINE c == Head(conns)
    <3>1. c \in Idle /\ c \in Conn
      BY <2>2, HeadIdle, IdleIn DEF PoolInv, TypeOK, ChannelOK
    <3>2. conns' = Tail(conns) /\ UNCHANGED hand /\ sock' = [sock EXCEPT ![c] = "closed"]
      BY <1>13, <2>2 DEF CloseDrain, Discard, Received
    <3>3. Idle' = Idle \ {c}
      BY <2>2, <3>2, Leaves DEF PoolInv, TypeOK
    <3> HIDE DEF c
    <3>4. c \notin (Idle \cup Held)'
      BY <3>1, <3>2, <3>3 DEF Held, PoolInv, ExclusiveOwner
    <3>5. Owner' = [Owner EXCEPT ![c] = None]
      BY <3>1, <3>2, <3>3, <3>4, OwnerStep DEF Owner
    <3>6. Lease!Moves(c, Pool, None)
      BY <3>1, <3>5, Seen, OwnerNow
    <3>7. Open' = [Open EXCEPT ![c] = FALSE]
      BY <3>1, <3>2 DEF Open, PoolInv, TypeOK, SocketsOK
    <3> QED
      BY <3>1, <3>6, <3>7 DEF Lease!LeaseNext, Lease!Retire, Open
  <2> QED
    BY <2>1, <2>2
<1>14. ASSUME NEW c \in Conn, PeerSends(c) \/ PeerGone(c) PROVE Goal
  BY <1>14, Unseen DEF PeerSends, PeerGone, PoolInv, TypeOK, SocketsOK
<1>15. ASSUME NEW c \in Conn, AgeOut(c) PROVE Goal
  BY <1>15, Unseen DEF AgeOut
<1>16. CASE UNCHANGED vars
  BY <1>16, Unseen DEF vars, connVars
<1> QED
  BY <1>1, <1>2, <1>3, <1>4, <1>5, <1>6, <1>7, <1>8, <1>9, <1>10, <1>11, <1>12,
     <1>13, <1>14, <1>15, <1>16, NextIsStep DEF Step

\* A pool that has just been filled owns what it has dialled.
LEMMA LeaseStart == Init => Lease!LeaseInit
<1> SUFFICES ASSUME Init PROVE Lease!LeaseInit
  OBVIOUS
<1>1. \A c \in Conn : OwnerOf(c) = IF c \in Idle THEN Pool ELSE None
  BY ConnPoolAssumption DEF Init, OwnerOf
<1>2. \A c \in Conn : (sock[c] # "closed") = (c \in Idle)
  BY DEF Init
<1> QED
  BY <1>1, <1>2, ConnPoolAssumption DEF Lease!LeaseInit, Pool

\* The pool implements what ConnLease promises of every step: a connection is
\* created, borrowed, returned open, broken by its holder or retired by its owner.
THEOREM PoolImplementsLease == Spec => ImplementsLease
  BY PoolInvariant, LeaseStart, LeaseStep, PTL DEF Spec, ImplementsLease, Lease!LeaseSpec
=============================================================================
