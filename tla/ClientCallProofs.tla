-------------------------- MODULE ClientCallProofs --------------------------
(***************************************************************************)
(* Theorems of ClientCall: what a call keeps for itself, whatever the      *)
(* number of goroutines, services and interceptors.                        *)
(*                                                                         *)
(* The properties are about the innermost call of a goroutine, but a call  *)
(* is innermost again when the one its interceptor made has returned.  The *)
(* invariant is therefore about every call in progress.  What a call has   *)
(* in its frame (Own) is safe from calls of other goroutines, and from an  *)
(* inner one unless it shares the stream, which Lends says an interceptor  *)
(* of the outer call has allowed.  What a call has in the shared options   *)
(* (Reserved) stays there only while nobody begins a call, and Single says *)
(* that a call that has the client for itself is innermost and the other   *)
(* goroutines are in none.                                                 *)
(***************************************************************************)
EXTENDS ClientCall, SequenceTheorems, TLAPS

Calls(u) == DOMAIN frames[u]

\* What the frame of a call says about its path, unless the stream was lent to an
\* inner call.
Own(f) ==
  ~f.lent =>
    /\ f.pc # "stream" => f.stream = f.service
    /\ f.path \in {None, f.service}
Owned == \A u \in Caller : \A i \in Calls(u) : Own(frames[u][i])

\* A call shares the stream of an outer one only if that has lent it.
Lends ==
  \A u \in Caller : \A i \in Calls(u) : i # 1 /\ frames[u][1].shares => frames[u][i].lent

\* A call that has the client for itself is the only innermost call there is.
Single ==
  \A u \in Caller : \A i \in Calls(u) : frames[u][i].alone =>
    /\ i = 1
    /\ \A v \in Caller \ {u} : ~Active(v)

\* The target of a call on its way through the two sets of options.
Reserved(f) ==
  /\ f.addr \in {None, f.service}
  /\ f.pc \in {"stream", "intercept", "options"} => target = f.service
  /\ f.pc = "apply" => f.to = f.service
  /\ f.pc = "select" => sendTo = f.service
OnItsWay == \A u \in Caller : \A i \in Calls(u) : frames[u][i].alone => Reserved(frames[u][i])

Inv == TypeOK /\ Owned /\ Lends /\ Single /\ OnItsWay
-----------------------------------------------------------------------------
(* Frames *)

\* A new call has a frame, and nothing in it yet.
LEMMA New ==
  ASSUME NEW s \in Service, NEW shares \in BOOLEAN, NEW alone \in BOOLEAN
  PROVE  /\ NewFrame(s, shares, alone) \in Frame
         /\ Own(NewFrame(s, shares, alone))
         /\ NewFrame(s, shares, alone).alone = alone
         /\ NewFrame(s, shares, alone).shares = shares
<1>1. NewFrame(s, shares, alone) \in Frame
  BY DEF NewFrame, Frame, Maybe
<1>2. /\ Own(NewFrame(s, shares, alone))
      /\ NewFrame(s, shares, alone).alone = alone
      /\ NewFrame(s, shares, alone).shares = shares
  BY DEF NewFrame, Own
<1> QED
  BY <1>1, <1>2

\* The innermost call is the first.
LEMMA Innermost ==
  ASSUME TypeOK, NEW u \in Caller, Active(u)
  PROVE  /\ frames[u] \in Seq(Frame)
         /\ Len(frames[u]) \in {1, 2}
         /\ 1 \in Calls(u)
         /\ Top(u) = frames[u][1]
         /\ Top(u) \in Frame
         /\ Tail(frames[u]) \in Seq(Frame)
         /\ Len(Tail(frames[u])) = Len(frames[u]) - 1
<1> HIDE DEF Frame
<1>1. frames[u] \in Seq(Frame) /\ frames[u] # <<>> /\ Len(frames[u]) <= 2
  BY DEF TypeOK, Active
<1>2. Len(frames[u]) \in Nat /\ Len(frames[u]) # 0
  BY <1>1, LenProperties, EmptySeq
<1>3. Top(u) = frames[u][1]
  BY DEF Top
<1>4. Len(frames[u]) \in {1, 2}
  <2>1. \A n \in Nat : n # 0 /\ n <= 2 => n \in {1, 2}
    OBVIOUS
  <2> QED
    BY <1>1, <1>2, <2>1
<1>5. 1 \in Calls(u) /\ Calls(u) = 1..Len(frames[u])
  BY <1>1, <1>4, LenProperties DEF Calls
<1>6. frames[u][1] \in Frame
  BY <1>1, <1>5, ElementOfSeq DEF Calls
<1> QED
  BY <1>1, <1>3, <1>4, <1>5, <1>6, HeadTailProperties

\* A call in front of others.
LEMMA Prefixed ==
  ASSUME NEW f \in Frame, NEW r \in Seq(Frame)
  PROVE  /\ <<f>> \o r \in Seq(Frame)
         /\ Len(<<f>> \o r) = Len(r) + 1
         /\ (<<f>> \o r)[1] = f
         /\ \A i \in DOMAIN (<<f>> \o r) :
              i # 1 => i - 1 \in 1..Len(r) /\ (<<f>> \o r)[i] = r[i - 1]
<1> HIDE DEF Frame
<1>1. <<f>> \in Seq(Frame) /\ Len(<<f>>) = 1 /\ <<f>>[1] = f /\ Len(r) \in Nat
  BY LenProperties
<1> PICK q : q = <<f>> \o r
  OBVIOUS
<1>2. q \in Seq(Frame) /\ Len(q) = Len(r) + 1
  BY <1>1, ConcatProperties
<1>3. \A i \in 1..(Len(r) + 1) : q[i] = IF i <= 1 THEN <<f>>[i] ELSE r[i - 1]
  BY <1>1, ConcatProperties
<1>4. DOMAIN q = 1..(Len(r) + 1)
  BY <1>2, LenProperties
<1> QED
  BY <1>1, <1>2, <1>3, <1>4

\* When the innermost call goes on, the other calls are as they were.
LEMMA Onward ==
  ASSUME TypeOK, NEW u \in Caller, Active(u), NEW f \in Frame, Becomes(u, f)
  PROVE  /\ frames' \in [Caller -> Seq(Frame)]
         /\ frames'[u][1] = f
         /\ \A v \in Caller :
              /\ Len(frames'[v]) = Len(frames[v])
              /\ DOMAIN frames'[v] = DOMAIN frames[v]
              /\ \A i \in Calls(v) : v # u \/ i # 1 => frames'[v][i] = frames[v][i]
<1> HIDE DEF Frame
<1>1. frames \in [Caller -> Seq(Frame)]
  BY DEF TypeOK
<1>2. /\ frames[u] \in Seq(Frame) /\ Len(frames[u]) \in {1, 2}
      /\ Tail(frames[u]) \in Seq(Frame) /\ Len(Tail(frames[u])) = Len(frames[u]) - 1
  BY Innermost
<1>3. frames' = [frames EXCEPT ![u] = <<f>> \o Tail(frames[u])]
  BY DEF Becomes
<1> DEFINE q == <<f>> \o Tail(frames[u])
<1>4. /\ q \in Seq(Frame) /\ Len(q) = Len(frames[u])
      /\ q[1] = f
      /\ \A i \in DOMAIN q : i # 1 => i - 1 \in 1..Len(Tail(frames[u])) /\ q[i] = Tail(frames[u])[i - 1]
  BY <1>2, Prefixed
<1>5. \A i \in 1..Len(Tail(frames[u])) : Tail(frames[u])[i] = frames[u][i + 1]
  BY <1>2, HeadTailProperties DEF Active
<1>6. \A i \in 1..Len(q) : i # 1 => q[i] = frames[u][i]
  <2> SUFFICES ASSUME NEW i \in 1..Len(q), i # 1 PROVE q[i] = frames[u][i]
    OBVIOUS
  <2>1. i \in DOMAIN q
    BY <1>4, LenProperties
  <2>2. i - 1 \in 1..Len(Tail(frames[u])) /\ q[i] = Tail(frames[u])[i - 1]
    BY <1>4, <2>1
  <2>3. q[i] = frames[u][(i - 1) + 1]
    BY <1>5, <2>2
  <2> HIDE DEF q
  <2> QED
    BY <1>2, <1>4, <2>3
<1>7. DOMAIN q = 1..Len(q) /\ DOMAIN frames[u] = 1..Len(frames[u])
  BY <1>2, <1>4, LenProperties
<1> HIDE DEF q
<1>8. frames' = [frames EXCEPT ![u] = q]
  BY <1>3 DEF q
<1>9. frames'[u] = q /\ \A v \in Caller \ {u} : frames'[v] = frames[v]
  BY <1>1, <1>8
<1>10. frames' \in [Caller -> Seq(Frame)]
  BY <1>1, <1>4, <1>8
<1>11. ASSUME NEW v \in Caller
       PROVE  /\ Len(frames'[v]) = Len(frames[v])
              /\ DOMAIN frames'[v] = DOMAIN frames[v]
              /\ \A i \in Calls(v) : v # u \/ i # 1 => frames'[v][i] = frames[v][i]
  <2>1. CASE v = u
    BY <2>1, <1>4, <1>6, <1>7, <1>9 DEF Calls
  <2>2. CASE v # u
    BY <2>2, <1>9
  <2> QED
    BY <2>1, <2>2
<1> QED
  BY <1>4, <1>9, <1>10, <1>11

\* A call that has lost the client for itself.
Dimmed(q) == [i \in DOMAIN q |-> [q[i] EXCEPT !.alone = FALSE]]
LEMMA Dims ==
  ASSUME NEW q \in Seq(Frame)
  PROVE  /\ Dimmed(q) \in Seq(Frame)
         /\ Len(Dimmed(q)) = Len(q)
         /\ DOMAIN Dimmed(q) = DOMAIN q
         /\ \A i \in DOMAIN q : /\ ~Dimmed(q)[i].alone
                                /\ Own(q[i]) => Own(Dimmed(q)[i])
                                /\ Dimmed(q)[i].lent = q[i].lent
                                /\ Dimmed(q)[i].shares = q[i].shares
<1>1. DOMAIN q = 1..Len(q) /\ Len(q) \in Nat /\ \A i \in 1..Len(q) : q[i] \in Frame
  BY LenProperties, ElementOfSeq
<1>2. ASSUME NEW g \in Frame
      PROVE  /\ [g EXCEPT !.alone = FALSE] \in Frame
             /\ ~[g EXCEPT !.alone = FALSE].alone
             /\ Own(g) => Own([g EXCEPT !.alone = FALSE])
             /\ [g EXCEPT !.alone = FALSE].lent = g.lent
             /\ [g EXCEPT !.alone = FALSE].shares = g.shares
  BY DEF Frame, Own
<1> HIDE DEF Frame, Own
<1>3. \A i \in DOMAIN q : Dimmed(q)[i] = [q[i] EXCEPT !.alone = FALSE]
  BY DEF Dimmed
<1>4. DOMAIN Dimmed(q) = 1..Len(q)
  BY <1>1 DEF Dimmed
<1>5. Dimmed(q) = [i \in 1..Len(q) |-> Dimmed(q)[i]] 
  BY <1>1 DEF Dimmed
<1>6. \A i \in 1..Len(q) : Dimmed(q)[i] \in Frame
  BY <1>1, <1>2, <1>3
<1>7. Dimmed(q) \in [1..Len(q) -> Frame]
  BY <1>5, <1>6
<1>8. Dimmed(q) \in Seq(Frame) /\ Len(Dimmed(q)) = Len(q)
  BY <1>1, <1>4, <1>7, LenProperties
<1> QED
  BY <1>1, <1>2, <1>3, <1>4, <1>8
-----------------------------------------------------------------------------
(* Steps *)

\* A call that has the client for itself is the innermost of the goroutine in it.
LEMMA AloneIsTop ==
  ASSUME Single, NEW u \in Caller, Active(u),
         NEW v \in Caller, NEW i \in Calls(v), frames[v][i].alone
  PROVE  v = u /\ i = 1
BY DEF Single

\* The innermost call goes on: it keeps what it says about its path, and its place
\* in the options if it has the client for itself.
LEMMA GoesOn ==
  ASSUME Inv, NEW u \in Caller, Active(u), NEW f \in Frame, Becomes(u, f),
         target' \in Maybe, sendTo' \in Maybe, chain' \in Nat,
         Own(f),
         f.alone = Top(u).alone, f.shares = Top(u).shares,
         f.alone => Reserved(f)'
  PROVE  Inv'
<1> HIDE DEF Frame, Maybe
<1>1. TypeOK /\ Owned /\ Lends /\ Single /\ OnItsWay
  BY DEF Inv
<1>2. Top(u) = frames[u][1] /\ 1 \in Calls(u)
  BY <1>1, Innermost
<1>3. frames' \in [Caller -> Seq(Frame)] /\ frames'[u][1] = f
  BY <1>1, Onward
<1>4. ASSUME NEW v \in Caller
      PROVE  /\ Len(frames'[v]) = Len(frames[v])
             /\ DOMAIN frames'[v] = DOMAIN frames[v]
             /\ \A i \in Calls(v) : v # u \/ i # 1 => frames'[v][i] = frames[v][i]
  BY <1>1, Onward
<1>5. TypeOK'
  BY <1>1, <1>3, <1>4 DEF TypeOK
<1>6. \A v \in Caller : Active(v)' => Active(v)
  <2>1. \A v \in Caller : frames[v] \in Seq(Frame) /\ frames'[v] \in Seq(Frame)
    BY <1>1, <1>3 DEF TypeOK
  <2>2. \A v \in Caller : (frames[v] = <<>>) = (Len(frames[v]) = 0)
    BY <2>1, EmptySeq
  <2>3. \A v \in Caller : (frames'[v] = <<>>) = (Len(frames'[v]) = 0)
    BY <2>1, EmptySeq
  <2> QED
    BY <2>2, <2>3, <1>4 DEF Active
<1>7. \A v \in Caller : \A i \in Calls(v)' : frames'[v][i].alone = frames[v][i].alone
  BY <1>2, <1>3, <1>4 DEF Calls
<1>8. Owned'
  <2> SUFFICES ASSUME NEW v \in Caller, NEW i \in Calls(v)'
               PROVE  Own(frames'[v][i])
    BY DEF Owned, Own
  <2>1. i \in Calls(v)
    BY <1>4 DEF Calls
  <2>2. frames'[v][i] = f \/ frames'[v][i] = frames[v][i]
    BY <1>3, <1>4, <2>1
  <2> QED
    BY <1>1, <2>1, <2>2 DEF Owned
<1>8a. Lends'
  <2> SUFFICES ASSUME NEW v \in Caller, NEW i \in Calls(v)', i # 1, frames'[v][1].shares
               PROVE  frames'[v][i].lent
    BY DEF Lends
  <2>1. i \in Calls(v) /\ frames'[v][i] = frames[v][i]
    BY <1>4 DEF Calls
  <2>2. frames[v][1].shares
    <3>1. CASE v = u
      BY <1>2, <1>3, <3>1
    <3>2. CASE v # u
      <4>1. DOMAIN frames[v] = 1..Len(frames[v]) /\ Len(frames[v]) \in Nat
        BY <1>1, LenProperties DEF TypeOK
      <4>2. 1 \in Calls(v)
        BY <2>1, <4>1 DEF Calls
      <4> QED
        BY <1>4, <3>2, <4>2
    <3> QED
      BY <3>1, <3>2
  <2> QED
    BY <1>1, <2>1, <2>2 DEF Lends
<1>9. Single'
  <2> SUFFICES ASSUME NEW v \in Caller, NEW i \in Calls(v)', frames'[v][i].alone
               PROVE  i = 1 /\ \A w \in Caller \ {v} : ~Active(w)'
    BY DEF Single
  <2>1. i \in Calls(v) /\ frames[v][i].alone
    BY <1>4, <1>7 DEF Calls
  <2> QED
    BY <1>1, <1>6, <2>1 DEF Single
<1>10. OnItsWay'
  <2> SUFFICES ASSUME NEW v \in Caller, NEW i \in Calls(v)', frames'[v][i].alone
               PROVE  Reserved(frames[v][i])'
    BY DEF OnItsWay
  <2>1. i \in Calls(v) /\ frames[v][i].alone
    BY <1>4, <1>7 DEF Calls
  <2>2. v = u /\ i = 1
    BY <1>1, <2>1, AloneIsTop
  <2> QED
    BY <1>3, <2>2 DEF Reserved
<1> QED
  BY <1>5, <1>8, <1>8a, <1>9, <1>10 DEF Inv

\* The shared variables have their types after a step that leaves them alone.
LEMMA SharedTypes ==
  ASSUME TypeOK
  PROVE  target \in Maybe /\ sendTo \in Maybe /\ chain \in Nat
BY DEF TypeOK

\* What the invariant says of the innermost call.
LEMMA Current ==
  ASSUME Inv, NEW u \in Caller, Active(u)
  PROVE  /\ Top(u) \in Frame
         /\ Own(Top(u))
         /\ Top(u).alone => Reserved(Top(u))
<1> HIDE DEF Frame
<1>1. TypeOK /\ Owned /\ OnItsWay
  BY DEF Inv
<1>2. Top(u) \in Frame /\ Top(u) = frames[u][1] /\ 1 \in Calls(u)
  BY <1>1, Innermost
<1> QED
  BY <1>1, <1>2 DEF Owned, OnItsWay

\* Invoke and Send along the way of one call.
LEMMA AlongTheWay ==
  ASSUME Inv, NEW u \in Caller,
         Header(u) \/ Options(u) \/ Apply(u) \/ Select(u)
  PROVE  Inv'
<1>1. Active(u)
  BY DEF Header, Options, Apply, Select, At
<1> PICK t : t = Top(u)
  OBVIOUS
<1>2. t \in Frame /\ Own(t) /\ (t.alone => Reserved(t))
  BY <1>1, Current
<1>3. target \in Maybe /\ sendTo \in Maybe /\ chain \in Nat
  BY SharedTypes DEF Inv
<1>4. CASE Header(u)
  <2> PICK f : f = [t EXCEPT !.path = t.stream, !.pc = "options"]
    OBVIOUS
  <2>1. t.pc = "intercept" /\ Becomes(u, f) /\ UNCHANGED <<target, chain, sendTo>>
    BY <1>4 DEF Header, At
  <2>2. f \in Frame /\ f.alone = t.alone /\ f.shares = t.shares
    BY <1>2 DEF Frame
  <2>3. Own(f)
    BY <1>2, <2>1 DEF Own, Frame
  <2>4. f.alone => Reserved(f)'
    BY <1>2, <2>1 DEF Reserved, Frame
  <2> QED
    BY <1>1, <1>3, <2>1, <2>2, <2>3, <2>4, GoesOn
<1>5. CASE Options(u)
  <2> PICK f : f = [t EXCEPT !.to = target, !.pc = "apply"]
    OBVIOUS
  <2>1. t.pc = "options" /\ Becomes(u, f) /\ UNCHANGED <<target, chain, sendTo>>
    BY <1>5 DEF Options, At
  <2>2. f \in Frame /\ f.alone = t.alone /\ f.shares = t.shares
    BY <1>2, <1>3 DEF Frame
  <2>3. Own(f)
    BY <1>2, <2>1 DEF Own, Frame
  <2>4. f.alone => Reserved(f)'
    BY <1>2, <2>1 DEF Reserved, Frame
  <2> QED
    BY <1>1, <1>3, <2>1, <2>2, <2>3, <2>4, GoesOn
<1>6. CASE Apply(u)
  <2> PICK f : f = [t EXCEPT !.pc = "select"]
    OBVIOUS
  <2>1. /\ t.pc = "apply" /\ Becomes(u, f)
        /\ sendTo' = t.to /\ UNCHANGED <<target, chain>>
    BY <1>6 DEF Apply, At, Target
  <2>2. f \in Frame /\ f.alone = t.alone /\ f.shares = t.shares /\ t.to \in Maybe
    BY <1>2 DEF Frame
  <2>3. Own(f)
    BY <1>2, <2>1 DEF Own, Frame
  <2>4. f.alone => Reserved(f)'
    BY <1>2, <2>1 DEF Reserved, Frame
  <2> QED
    BY <1>1, <1>3, <2>1, <2>2, <2>3, <2>4, GoesOn
<1>7. CASE Select(u)
  <2> PICK f : f = [t EXCEPT !.addr = sendTo, !.pc = "receive"]
    OBVIOUS
  <2>1. t.pc = "select" /\ Becomes(u, f) /\ UNCHANGED <<target, chain, sendTo>>
    BY <1>7 DEF Select, At
  <2>2. f \in Frame /\ f.alone = t.alone /\ f.shares = t.shares
    BY <1>2, <1>3 DEF Frame
  <2>3. Own(f)
    BY <1>2, <2>1 DEF Own, Frame
  <2>4. f.alone => Reserved(f)'
    BY <1>2, <2>1 DEF Reserved, Frame
  <2> QED
    BY <1>1, <1>3, <2>1, <2>2, <2>3, <2>4, GoesOn
<1> QED
  BY <1>4, <1>5, <1>6, <1>7

\* The path is written into the stream of the call, and into that of the outer
\* call if the two are one.
LEMMA NewStreamStep ==
  ASSUME Inv, NEW u \in Caller, NewStream(u)
  PROVE  Inv'
<1>1. TypeOK /\ Owned /\ Lends /\ Single /\ OnItsWay
  BY DEF Inv
<1>2. Active(u) /\ Top(u).pc = "stream"
  BY DEF NewStream, At
<1> PICK t : t = Top(u)
  OBVIOUS
<1>3. t \in Frame /\ Own(t) /\ (t.alone => Reserved(t)) /\ t.pc = "stream"
  BY <1>2, Current
<1>4. /\ frames[u] \in Seq(Frame) /\ Len(frames[u]) \in {1, 2}
      /\ t = frames[u][1] /\ 1 \in Calls(u)
  BY <1>1, <1>2, Innermost
<1>5. target \in Maybe /\ sendTo \in Maybe /\ chain \in Nat
  BY <1>1, SharedTypes
<1>6. UNCHANGED <<target, chain, sendTo>>
  BY DEF NewStream
<1> PICK f : f = [t EXCEPT !.stream = t.service, !.pc = "intercept", !.ahead = chain]
  OBVIOUS
<1> DEFINE g(h) == [h EXCEPT !.stream = t.service]
<1>7. /\ f \in Frame /\ f.alone = t.alone /\ f.shares = t.shares
      /\ Own(f) /\ (f.alone => Reserved(f)')
  <2>1. f \in Frame /\ f.alone = t.alone /\ f.shares = t.shares /\ Own(f)
    BY <1>3, <1>5 DEF Frame, Maybe, Own
  <2>2. t.alone => target = t.service
    BY <1>3 DEF Reserved
  <2>3. f.alone => Reserved(f)'
    BY <1>3, <1>6, <2>2 DEF Frame, Reserved
  <2> QED
    BY <2>1, <2>3
<1>8. ASSUME NEW h \in Frame
      PROVE  /\ g(h) \in Frame /\ g(h).alone = h.alone /\ g(h).lent = h.lent
             /\ h.lent => Own(g(h))
  BY <1>3 DEF Frame, Maybe, Own
<1>9. ASSUME NEW v \in Caller
      PROVE  /\ frames'[v] \in Seq(Frame)
             /\ Len(frames'[v]) = Len(frames[v])
             /\ DOMAIN frames'[v] = DOMAIN frames[v]
             /\ \A i \in Calls(v) :
                  IF v = u /\ i = 1 THEN frames'[v][i] = f
                  ELSE \/ frames'[v][i] = frames[v][i]
                       \/ t.shares /\ frames'[v][i] = g(frames[v][i])
  <2>1. frames \in [Caller -> Seq(Frame)]
    BY <1>1 DEF TypeOK
  <2> DEFINE q == [i \in DOMAIN frames[u] |->
                     IF i = 1 THEN [frames[u][1] EXCEPT !.stream = t.service, !.pc = "intercept",
                                                        !.ahead = chain]
                     ELSE IF t.shares THEN [frames[u][i] EXCEPT !.stream = t.service]
                     ELSE frames[u][i]]
  <2>2. frames' = [frames EXCEPT ![u] = q]
    BY DEF NewStream, SharesStream
  <2>3. DOMAIN frames[u] = 1..Len(frames[u]) /\ \A i \in 1..Len(frames[u]) : frames[u][i] \in Frame
    BY <1>4, LenProperties, ElementOfSeq
  <2>4. /\ DOMAIN q = 1..Len(frames[u])
        /\ q[1] = f
        /\ \A i \in Calls(u) : i # 1 => q[i] = frames[u][i] \/ (t.shares /\ q[i] = g(frames[u][i]))
    BY <1>4, <2>3 DEF Calls
  <2>5. \A i \in 1..Len(frames[u]) : q[i] \in Frame
    <3> HIDE DEF q, g, Frame
    <3> QED
      BY <1>7, <1>8, <2>3, <2>4 DEF Calls
  <2>6. q = [i \in 1..Len(frames[u]) |-> q[i]]
    BY <2>3
  <2> HIDE DEF q, g, Frame
  <2>7. q \in [1..Len(frames[u]) -> Frame]
    BY <2>5, <2>6
  <2>8. Len(frames[u]) \in Nat
    BY <1>4
  <2>9. q \in Seq(Frame) /\ Len(q) = Len(frames[u])
    BY <2>4, <2>7, <2>8, LenProperties
  <2>10. CASE v = u
    BY <2>1, <2>2, <2>3, <2>4, <2>9, <2>10 DEF Calls
  <2>11. CASE v # u
    BY <2>1, <2>2, <2>11
  <2> QED
    BY <2>10, <2>11
<1> HIDE DEF g, Frame, Maybe
<1>10. frames' \in [Caller -> Seq(Frame)]
  <2>1. frames' = [v \in Caller |-> frames'[v]]
    BY DEF NewStream, TypeOK, Inv
  <2> QED
    BY <1>9, <2>1
<1>11. TypeOK'
  BY <1>1, <1>5, <1>6, <1>9, <1>10 DEF TypeOK
<1>12. \A v \in Caller : \A i \in Calls(v) :
         frames[v][i] \in Frame /\ Own(frames[v][i])
  BY <1>1, LenProperties, ElementOfSeq DEF TypeOK, Calls, Owned
<1>13. \A v \in Caller : \A i \in Calls(v)' :
         i \in Calls(v) /\ frames'[v][i].alone = frames[v][i].alone
  <2> SUFFICES ASSUME NEW v \in Caller, NEW i \in Calls(v)'
               PROVE  i \in Calls(v) /\ frames'[v][i].alone = frames[v][i].alone
    OBVIOUS
  <2>1. i \in Calls(v)
    BY <1>9 DEF Calls
  <2>2. CASE v = u /\ i = 1
    BY <1>4, <1>7, <1>9, <2>1, <2>2
  <2>3. CASE ~(v = u /\ i = 1)
    <3>1. \/ frames'[v][i] = frames[v][i]
          \/ frames'[v][i] = g(frames[v][i])
      BY <1>9, <2>1, <2>3
    <3> QED
      BY <1>8, <1>12, <2>1, <3>1
  <2> QED
    BY <2>1, <2>2, <2>3
<1>14. \A v \in Caller : Active(v)' => Active(v)
  <2>1. \A v \in Caller : frames[v] \in Seq(Frame) /\ frames'[v] \in Seq(Frame)
    BY <1>1, <1>9 DEF TypeOK
  <2>2. \A v \in Caller : (frames[v] = <<>>) = (Len(frames[v]) = 0)
    BY <2>1, EmptySeq
  <2>3. \A v \in Caller : (frames'[v] = <<>>) = (Len(frames'[v]) = 0)
    BY <2>1, EmptySeq
  <2> QED
    BY <2>2, <2>3, <1>9 DEF Active
<1>15. \A v \in Caller : \A i \in Calls(v) : v # u \/ i # 1 =>
         \/ frames'[v][i] = frames[v][i]
         \/ frames[v][i].lent /\ frames'[v][i] = g(frames[v][i])
  <2>1. t.shares => \A i \in Calls(u) : i # 1 => frames[u][i].lent
    BY <1>1, <1>4 DEF Lends
  <2>2. \A v \in Caller : v # u => frames'[v] = frames[v]
    BY <1>1 DEF NewStream, TypeOK
  <2> QED
    BY <1>9, <2>1, <2>2
<1>15a. Owned'
  <2> SUFFICES ASSUME NEW v \in Caller, NEW i \in Calls(v)'
               PROVE  Own(frames'[v][i])
    BY DEF Owned, Own
  <2>1. i \in Calls(v)
    BY <1>13
  <2>2. CASE v = u /\ i = 1
    BY <1>7, <1>9, <2>1, <2>2
  <2>3. CASE ~(v = u /\ i = 1)
    BY <1>8, <1>12, <1>15, <2>1, <2>3
  <2> QED
    BY <2>2, <2>3
<1>15b. Lends'
  <2> SUFFICES ASSUME NEW v \in Caller, NEW i \in Calls(v)', i # 1, frames'[v][1].shares
               PROVE  frames'[v][i].lent
    BY DEF Lends
  <2>1. i \in Calls(v)
    BY <1>13
  <2>2. 1 \in Calls(v)
    <3>1. DOMAIN frames[v] = 1..Len(frames[v]) /\ Len(frames[v]) \in Nat
      BY <1>1, LenProperties DEF TypeOK
    <3> QED
      BY <2>1, <3>1 DEF Calls
  <2>3. frames[v][1].shares
    <3>1. CASE v = u
      BY <1>4, <1>7, <1>9, <2>2, <3>1
    <3>2. CASE v # u
      BY <1>1, <3>2 DEF NewStream, TypeOK
    <3> QED
      BY <3>1, <3>2
  <2>4. frames[v][i].lent
    BY <1>1, <2>1, <2>3 DEF Lends
  <2> QED
    BY <1>8, <1>12, <1>15, <2>1, <2>4
<1>16. Single'
  <2> SUFFICES ASSUME NEW v \in Caller, NEW i \in Calls(v)', frames'[v][i].alone
               PROVE  i = 1 /\ \A w \in Caller \ {v} : ~Active(w)'
    BY DEF Single
  <2> QED
    BY <1>1, <1>13, <1>14 DEF Single
<1>17. OnItsWay'
  <2> SUFFICES ASSUME NEW v \in Caller, NEW i \in Calls(v)', frames'[v][i].alone
               PROVE  Reserved(frames[v][i])'
    BY DEF OnItsWay
  <2>1. i \in Calls(v) /\ frames[v][i].alone
    BY <1>13
  <2>2. v = u /\ i = 1
    BY <1>1, <1>2, <2>1, AloneIsTop
  <2>3. frames'[v][i] = f
    BY <1>9, <2>1, <2>2
  <2> QED
    BY <1>4, <1>7, <2>1, <2>2, <2>3 DEF Reserved
<1> QED
  BY <1>11, <1>15a, <1>15b, <1>16, <1>17 DEF Inv

\* A call begins: every other call loses the client, and the new one has it if
\* the other goroutines are in none.
LEMMA BeginsStep ==
  ASSUME Inv, NEW u \in Caller, NEW s \in Service, NEW shares \in BOOLEAN,
         NEW outer \in Seq(Frame), Len(outer) <= 1,
         \A i \in DOMAIN outer : Own(outer[i]) /\ (shares => outer[i].lent),
         Begins(u, s, shares, outer)
  PROVE  Inv'
<1>1. TypeOK /\ Owned /\ Lends /\ Single /\ OnItsWay
  BY DEF Inv
<1>2. frames \in [Caller -> Seq(Frame)]
  BY <1>1 DEF TypeOK
<1>3. PICK new :
         /\ new = NewFrame(s, shares, \A v \in Caller \ {u} : ~Active(v))
         /\ new \in Frame /\ Own(new)
         /\ new.alone <=> \A v \in Caller \ {u} : ~Active(v)
         /\ new.service = s /\ new.pc = "stream" /\ new.addr = None /\ new.shares = shares
  <2> DEFINE alone == \A v \in Caller \ {u} : ~Active(v)
             n == NewFrame(s, shares, alone)
  <2>1. alone \in BOOLEAN
    OBVIOUS
  <2>2. n.service = s /\ n.pc = "stream" /\ n.addr = None
    BY DEF NewFrame
  <2> HIDE DEF alone, n, Frame
  <2>3. n \in Frame /\ Own(n) /\ n.alone = alone /\ n.shares = shares
    BY <2>1, New DEF n
  <2> QED
    BY <2>1, <2>2, <2>3 DEF n, alone
<1>4. new \in Frame /\ Own(new)
  BY <1>3
<1>5. new.service = s /\ new.pc = "stream" /\ new.addr = None
  BY <1>3
<1>6. target' = s /\ sendTo' = sendTo /\ chain' \in Nat
  <2>1. chain \in Nat /\ (chain' = chain \/ (chain < MaxChain /\ chain' = chain + 1))
    BY <1>1, SharedTypes DEF Begins
  <2>2. chain' \in Nat
    BY <2>1
  <2> QED
    BY <2>2 DEF Begins
<1>7. frames' = [v \in Caller |-> IF v = u THEN <<new>> \o Dimmed(outer) ELSE Dimmed(frames[v])]
  <2> DEFINE others == [frames EXCEPT ![u] = outer]
             disturbed == [v \in Caller |->
               [i \in DOMAIN others[v] |-> [others[v][i] EXCEPT !.alone = FALSE]]]
  <2>1. frames' = [disturbed EXCEPT ![u] = <<new>> \o disturbed[u]]
    BY <1>3 DEF Begins
  <2>2. others[u] = outer /\ \A v \in Caller \ {u} : others[v] = frames[v]
    BY <1>2
  <2>3. \A v \in Caller : disturbed[v] = Dimmed(others[v])
    BY DEF Dimmed
  <2>4. disturbed[u] = Dimmed(outer)
    BY <2>2, <2>3
  <2>5. \A v \in Caller \ {u} : disturbed[v] = Dimmed(frames[v])
    BY <2>2, <2>3
  <2>6. DOMAIN disturbed = Caller
    OBVIOUS
  <2> HIDE DEF disturbed, others
  <2> QED
    BY <2>1, <2>4, <2>5, <2>6
<1> HIDE DEF Frame, Dimmed
<1> DEFINE q == <<new>> \o Dimmed(outer)
<1>8. /\ q \in Seq(Frame) /\ Len(q) = Len(outer) + 1
      /\ q[1] = new
      /\ \A i \in DOMAIN q : i # 1 => i - 1 \in DOMAIN outer /\ q[i] = Dimmed(outer)[i - 1]
  <2>1. Dimmed(outer) \in Seq(Frame) /\ Len(Dimmed(outer)) = Len(outer)
    BY Dims
  <2>2. DOMAIN outer = 1..Len(outer)
    BY LenProperties
  <2> QED
    BY <1>4, <2>1, <2>2, Prefixed
<1>9. ASSUME NEW v \in Caller
      PROVE  /\ frames[v] \in Seq(Frame)
             /\ Dimmed(frames[v]) \in Seq(Frame)
             /\ Len(Dimmed(frames[v])) = Len(frames[v])
             /\ DOMAIN Dimmed(frames[v]) = DOMAIN frames[v]
             /\ \A i \in DOMAIN frames[v] :
                  ~Dimmed(frames[v])[i].alone /\ Own(Dimmed(frames[v])[i])
  <2>1. frames[v] \in Seq(Frame)
    BY <1>2
  <2>2. \A i \in DOMAIN frames[v] : Own(frames[v][i])
    BY <1>1 DEF Owned, Calls
  <2> QED
    BY <2>1, <2>2, Dims
<1>10. \A i \in DOMAIN outer :
         /\ ~Dimmed(outer)[i].alone /\ Own(Dimmed(outer)[i])
         /\ shares => Dimmed(outer)[i].lent
  BY Dims
<1> HIDE DEF q
<1>11. frames'[u] = q /\ \A v \in Caller \ {u} : frames'[v] = Dimmed(frames[v])
  BY <1>7 DEF q
<1>12. frames' \in [Caller -> Seq(Frame)]
  BY <1>7, <1>8, <1>9, <1>11
<1>13. TypeOK'
  <2>1. \A v \in Caller : Len(frames'[v]) <= 2
    <3> SUFFICES ASSUME NEW v \in Caller PROVE Len(frames'[v]) <= 2
      OBVIOUS
    <3>1. Len(outer) + 1 <= 2
      BY LenProperties
    <3>2. CASE v = u
      BY <1>8, <1>11, <3>1, <3>2
    <3>3. CASE v # u
      BY <1>1, <1>9, <1>11, <3>3 DEF TypeOK
    <3> QED
      BY <3>2, <3>3
  <2>2. target' \in Maybe /\ sendTo' \in Maybe
    BY <1>1, <1>6 DEF TypeOK, Maybe
  <2> QED
    BY <1>6, <1>12, <2>1, <2>2 DEF TypeOK
<1>14. ASSUME NEW v \in Caller, NEW i \in Calls(v)'
       PROVE  /\ Own(frames'[v][i])
              /\ frames'[v][i].alone => v = u /\ i = 1 /\ frames'[v][i] = new
  <2>1. CASE v = u /\ i = 1
    BY <1>4, <1>8, <1>11, <2>1
  <2>2. CASE v = u /\ i # 1
    <3>1. i \in DOMAIN q /\ frames'[v][i] = q[i]
      BY <1>11, <2>2 DEF Calls
    <3>2. i - 1 \in DOMAIN outer /\ q[i] = Dimmed(outer)[i - 1]
      BY <1>8, <2>2, <3>1
    <3> QED
      BY <1>10, <3>1, <3>2
  <2>3. CASE v # u
    <3>1. frames'[v] = Dimmed(frames[v])
      BY <1>11, <2>3
    <3>2. i \in DOMAIN frames[v]
      BY <1>9, <3>1 DEF Calls
    <3> QED
      BY <1>9, <3>1, <3>2
  <2> QED
    BY <2>1, <2>2, <2>3
<1>15. \A v \in Caller \ {u} : ~Active(v) => ~Active(v)'
  <2> SUFFICES ASSUME NEW v \in Caller \ {u}, ~Active(v) PROVE ~Active(v)'
    OBVIOUS
  <2>1. frames[v] = <<>> /\ frames'[v] = Dimmed(frames[v])
    BY <1>11 DEF Active
  <2>2. Len(Dimmed(frames[v])) = 0 /\ Dimmed(frames[v]) \in Seq(Frame)
    BY <1>9, <2>1, EmptySeq
  <2> QED
    BY <2>1, <2>2, EmptySeq DEF Active
<1>16. Owned'
  <2> SUFFICES ASSUME NEW v \in Caller, NEW i \in Calls(v)'
               PROVE  Own(frames'[v][i])
    BY DEF Owned, Own
  <2> QED
    BY <1>14
<1>16a. Lends'
  <2> SUFFICES ASSUME NEW v \in Caller, NEW i \in Calls(v)', i # 1, frames'[v][1].shares
               PROVE  frames'[v][i].lent
    BY DEF Lends
  <2>1. CASE v = u
    <3>1. shares /\ i \in DOMAIN q /\ frames'[v][i] = q[i]
      BY <1>3, <1>8, <1>11, <2>1 DEF Calls
    <3>2. i - 1 \in DOMAIN outer /\ q[i] = Dimmed(outer)[i - 1]
      BY <1>8, <3>1
    <3> QED
      BY <1>10, <3>1, <3>2
  <2>2. CASE v # u
    <3>1. frames'[v] = Dimmed(frames[v])
      BY <1>11, <2>2
    <3>2. i \in DOMAIN frames[v] /\ DOMAIN frames[v] = 1..Len(frames[v]) /\ Len(frames[v]) \in Nat
      BY <1>9, <3>1, LenProperties DEF Calls
    <3>3. /\ Dimmed(frames[v])[1].shares = frames[v][1].shares
          /\ Dimmed(frames[v])[i].lent = frames[v][i].lent
      <4>1. 1 \in DOMAIN frames[v]
        BY <3>2
      <4> QED
        BY <1>9, <3>2, <4>1, Dims
    <3> QED
      BY <1>1, <3>1, <3>2, <3>3 DEF Lends, Calls
  <2> QED
    BY <2>1, <2>2
<1>17. Single'
  <2> SUFFICES ASSUME NEW v \in Caller, NEW i \in Calls(v)', frames'[v][i].alone
               PROVE  i = 1 /\ \A w \in Caller \ {v} : ~Active(w)'
    BY DEF Single
  <2>1. v = u /\ i = 1 /\ \A w \in Caller \ {u} : ~Active(w)
    BY <1>3, <1>14
  <2> QED
    BY <1>15, <2>1
<1>18. OnItsWay'
  <2> SUFFICES ASSUME NEW v \in Caller, NEW i \in Calls(v)', frames'[v][i].alone
               PROVE  Reserved(frames[v][i])'
    BY DEF OnItsWay
  <2>1. frames'[v][i] = new
    BY <1>14
  <2> QED
    BY <1>5, <1>6, <2>1 DEF Reserved
<1> QED
  BY <1>13, <1>16, <1>16a, <1>17, <1>18 DEF Inv

LEMMA InvokeStep ==
  ASSUME Inv, NEW u \in Caller, Invoke(u)
  PROVE  Inv'
<1> PICK s \in Service : Begins(u, s, FALSE, <<>>)
  BY DEF Invoke
<1> HIDE DEF Frame
<1>1. <<>> \in Seq(Frame) /\ Len(<<>>) = 0 /\ DOMAIN <<>> = {}
  BY EmptySeq
<1>2. Len(<<>>) <= 1 /\ \A i \in DOMAIN <<>> : Own(<<>>[i]) /\ (FALSE => <<>>[i].lent)
  BY <1>1
<1>3. FALSE \in BOOLEAN
  OBVIOUS
<1> QED
  BY <1>1, <1>2, <1>3, BeginsStep

\* An interceptor goes on to the next, or makes a call of its own first.
LEMMA InterceptStep ==
  ASSUME Inv, NEW u \in Caller, Intercept(u)
  PROVE  Inv'
<1>1. Active(u) /\ Top(u).pc = "intercept" /\ Top(u).ahead > 0
  BY DEF Intercept, At, HasNext
<1> PICK t : t = Top(u)
  OBVIOUS
<1>2. t \in Frame /\ Own(t) /\ (t.alone => Reserved(t)) /\ t.pc = "intercept" /\ t.ahead > 0
  BY <1>1, Current
<1> PICK rest : rest = [t EXCEPT !.ahead = @ - 1]
  OBVIOUS
<1>3. rest \in Frame
  <2>1. t.ahead \in Nat
    BY <1>2 DEF Frame
  <2>2. t.ahead - 1 \in Nat
    BY <1>2, <2>1
  <2> QED
    BY <1>2, <2>2 DEF Frame
<1>4. Own(rest) /\ rest.alone = t.alone /\ rest.shares = t.shares
  BY <1>2 DEF Own, Frame
<1>5. CASE Becomes(u, rest) /\ UNCHANGED <<target, chain, sendTo>>
  <2>1. target \in Maybe /\ sendTo \in Maybe /\ chain \in Nat
    BY SharedTypes DEF Inv
  <2>2. rest.alone => Reserved(rest)'
    BY <1>2, <1>5 DEF Reserved, Frame
  <2> QED
    BY <1>1, <1>3, <1>4, <1>5, <2>1, <2>2, GoesOn
<1>6. CASE \E s \in Service, given \in BOOLEAN :
             Begins(u, s, given, <<[rest EXCEPT !.lent = @ \/ given]>>)
  <2> PICK s \in Service, given \in BOOLEAN :
         Begins(u, s, given, <<[rest EXCEPT !.lent = @ \/ given]>>)
    BY <1>6
  <2> PICK lender : lender = [rest EXCEPT !.lent = @ \/ given]
    OBVIOUS
  <2>1. lender \in Frame /\ Own(lender) /\ (given => lender.lent)
    <3>1. (rest.lent \/ given) \in BOOLEAN
      OBVIOUS
    <3> QED
      BY <1>3, <1>4, <3>1 DEF Frame, Own
  <2>2. \A f \in Frame : <<f>> \in Seq(Frame) /\ Len(<<f>>) = 1 /\ DOMAIN <<f>> = 1..1 /\ <<f>>[1] = f
    OBVIOUS
  <2> PICK outer \in Seq(Frame) : outer = <<lender>>
    BY <2>1, <2>2
  <2>3. Len(outer) <= 1 /\ \A i \in DOMAIN outer : Own(outer[i]) /\ (given => outer[i].lent)
    <3>1. Len(outer) = 1 /\ \A i \in DOMAIN outer : outer[i] = lender
      <4> HIDE DEF Frame
      <4> QED
        BY <2>1, <2>2
    <3>2. Len(outer) <= 1
      BY <3>1
    <3> HIDE DEF Own, Frame
    <3> QED
      BY <2>1, <3>1, <3>2, Zenon
  <2>4. Begins(u, s, given, outer)
    OBVIOUS
  <2> HIDE DEF Frame
  <2> QED
    BY <2>3, <2>4, BeginsStep
<1> QED
  BY <1>5, <1>6 DEF Intercept

\* A call ends; the one it was made in is innermost again, and has lost the
\* client when the other began.
LEMMA ReturnStep ==
  ASSUME Inv, NEW u \in Caller, Return(u)
  PROVE  Inv'
<1> HIDE DEF Frame, Maybe
<1>1. TypeOK /\ Owned /\ Lends /\ Single /\ OnItsWay
  BY DEF Inv
<1>2. Active(u) /\ UNCHANGED <<target, chain, sendTo>>
  BY DEF Return
<1>3. frames \in [Caller -> Seq(Frame)] /\ frames' = [frames EXCEPT ![u] = Tail(frames[u])]
  BY <1>1 DEF TypeOK, Return
<1> PICK q \in Seq(Frame) : q = Tail(frames[u])
  BY <1>1, <1>2, Innermost
<1>4. /\ Len(frames[u]) \in {1, 2} /\ Len(q) = Len(frames[u]) - 1
      /\ \A i \in 1..Len(q) : q[i] = frames[u][i + 1]
  <2>1. frames[u] \in Seq(Frame) /\ frames[u] # <<>>
    BY <1>2, <1>3 DEF Active
  <2>2. Len(frames[u]) \in {1, 2}
    BY <1>1, <1>2, Innermost
  <2> QED
    BY <2>1, <2>2, HeadTailProperties
<1>5. frames'[u] = q /\ \A v \in Caller \ {u} : frames'[v] = frames[v]
  BY <1>3
<1>6. \A i \in DOMAIN q : i + 1 \in Calls(u) /\ i + 1 # 1 /\ q[i] = frames[u][i + 1]
  <2>1. DOMAIN q = 1..Len(q) /\ DOMAIN frames[u] = 1..Len(frames[u])
    BY <1>3, LenProperties
  <2> QED
    BY <1>4, <2>1 DEF Calls
<1>7. TypeOK'
  <2>1. frames' \in [Caller -> Seq(Frame)]
    BY <1>3
  <2>2. \A v \in Caller : Len(frames'[v]) <= 2
    BY <1>1, <1>4, <1>5 DEF TypeOK
  <2> QED
    BY <1>1, <1>2, <2>1, <2>2 DEF TypeOK
<1>8. \A v \in Caller : ~Active(v) => ~Active(v)'
  BY <1>2, <1>5 DEF Active
<1>9. ASSUME NEW v \in Caller, NEW i \in Calls(v)'
      PROVE  /\ Own(frames'[v][i])
             /\ frames'[v][i].alone => /\ v # u /\ i \in Calls(v)
                                       /\ frames'[v][i] = frames[v][i]
  <2>1. CASE v = u
    <3>1. i \in DOMAIN q /\ frames'[v][i] = q[i]
      BY <1>5, <2>1 DEF Calls
    <3>2. i + 1 \in Calls(u) /\ i + 1 # 1 /\ q[i] = frames[u][i + 1]
      BY <1>6, <3>1
    <3>3. Own(frames[u][i + 1]) /\ ~frames[u][i + 1].alone
      BY <1>1, <3>2 DEF Owned, Single
    <3> QED
      BY <3>1, <3>2, <3>3
  <2>2. CASE v # u
    <3>1. frames'[v] = frames[v] /\ i \in Calls(v)
      BY <1>5, <2>2 DEF Calls
    <3> QED
      BY <1>1, <2>2, <3>1 DEF Owned
  <2> QED
    BY <2>1, <2>2
<1>10. Owned'
  <2> SUFFICES ASSUME NEW v \in Caller, NEW i \in Calls(v)'
               PROVE  Own(frames'[v][i])
    BY DEF Owned, Own
  <2> QED
    BY <1>9
<1>10a. Lends'
  <2> SUFFICES ASSUME NEW v \in Caller, NEW i \in Calls(v)', i # 1, frames'[v][1].shares
               PROVE  frames'[v][i].lent
    BY DEF Lends
  <2>1. CASE v = u
    <3>1. DOMAIN q = 1..Len(q) /\ Len(q) \in {0, 1}
      BY <1>4, LenProperties
    <3>2. i \in DOMAIN q
      BY <1>5, <2>1 DEF Calls
    <3> QED
      BY <3>1, <3>2
  <2>2. CASE v # u
    BY <1>1, <1>5, <2>2 DEF Lends, Calls
  <2> QED
    BY <2>1, <2>2
\* A call that has the client for itself would have the caller of Return in none.
<1>11. \A v \in Caller : \A i \in Calls(v)' : ~frames'[v][i].alone
  BY <1>1, <1>2, <1>9 DEF Single
<1>12. Single' /\ OnItsWay'
  BY <1>11 DEF Single, OnItsWay
<1> QED
  BY <1>7, <1>10, <1>10a, <1>12 DEF Inv
-----------------------------------------------------------------------------
(* Theorems *)

LEMMA InitInv == Init => Inv
<1> SUFFICES ASSUME Init PROVE Inv
  OBVIOUS
<1> HIDE DEF Frame
<1>1. <<>> \in Seq(Frame) /\ Len(<<>>) = 0 /\ DOMAIN <<>> = {}
  BY EmptySeq
<1>2. \A u \in Caller : frames[u] = <<>>
  BY DEF Init
<1>3. TypeOK
  BY <1>1, <1>2 DEF Init, TypeOK, Maybe
<1>4. \A u \in Caller : Calls(u) = {}
  BY <1>1, <1>2 DEF Calls
<1>5. Owned /\ Lends /\ Single /\ OnItsWay
  BY <1>4 DEF Owned, Lends, Single, OnItsWay
<1> QED
  BY <1>3, <1>5 DEF Inv

LEMMA Step ==
  ASSUME Inv, [Next]_vars
  PROVE  Inv'
<1>1. CASE Next
  <2> PICK u \in Caller :
        \/ Invoke(u) \/ NewStream(u) \/ Intercept(u) \/ Header(u) \/ Options(u) \/ Apply(u)
        \/ Select(u) \/ Return(u)
    BY <1>1 DEF Next
  <2> QED
    BY AlongTheWay, NewStreamStep, InvokeStep, InterceptStep, ReturnStep
<1>2. CASE UNCHANGED vars
  BY <1>2 DEF vars, Inv, TypeOK, Owned, Lends, Single, OnItsWay, Calls, Active, Own, Reserved
<1> QED
  BY <1>1, <1>2

\* The invariant holds for any number of goroutines, services and interceptors,
\* and whatever context interceptors make their calls with.
THEOREM ClientInvariant == Spec => []Inv
<1>1. Init => Inv
  BY InitInv
<1>2. Inv /\ [Next]_vars => Inv'
  BY Step
<1> QED
  BY <1>1, <1>2, PTL DEF Spec

\* The variables have their types, and calls nest at most once.
THEOREM ClientTypeCorrect == Spec => []TypeOK
<1>1. Inv => TypeOK
  BY DEF Inv
<1> QED
  BY <1>1, ClientInvariant, PTL

\* A request names the service its call is about, whatever calls other goroutines
\* make and whatever calls its interceptors make, unless one of these was made with
\* the context the interceptor was given; such a call names its own service too.
THEOREM PathsAreOwn == Spec => []OwnPath
<1>1. Inv => OwnPath
  BY Current DEF OwnPath, Own
<1> QED
  BY <1>1, ClientInvariant, PTL

\* A call that has the client for itself reaches its own target, whatever earlier
\* calls have left in the two sets of options.
THEOREM AloneReachesTarget == Spec => []OwnTargetAlone
<1>1. Inv => OwnTargetAlone
  BY Current DEF OwnTargetAlone, Reserved
<1> QED
  BY <1>1, ClientInvariant, PTL
=============================================================================
