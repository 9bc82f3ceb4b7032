--------------------------- MODULE ExchangeProofs ---------------------------
(***************************************************************************)
(* Proofs about Exchange and Framer, for any number of callers, calls and  *)
(* lengths: TypeOK, FrameFits and OwnAnswer.                               *)
(***************************************************************************)
EXTENDS Exchange, TLAPS

\* The buffer has been doubled as often as counter says.
Doubled ==
  \A c \in Conn : <<counter[c], buffer[c]>> \in
    {<<0, 1024>>, <<1, 2048>>, <<2, 4096>>, <<3, 8192>>, <<4, 16384>>, <<5, 32768>>,
     <<6, 65536>>, <<7, 131072>>, <<8, 262144>>, <<9, 524288>>, <<10, 1048576>>,
     <<11, 2097152>>, <<12, 4194304>>, <<13, 8388608>>}

\* A frame that is being read was not refused.
Accepted == \A c \in Conn : reading[c] # None => ~TooLarge(reading[c])

FramerOK ==
  /\ reading \in [Conn -> Nat \cup {None}]
  /\ buffer \in [Conn -> Nat] /\ counter \in [Conn -> Nat]
  /\ Doubled /\ Accepted

LEMMA InitFramer == FramerInit => FramerOK
BY DEF FramerInit, FramerOK, Doubled, Accepted, DefaultPayloadLength

LEMMA NewFramerOK == ASSUME FramerOK, NEW c \in Conn, NewFramer(c) PROVE FramerOK'
BY DEF NewFramer, FramerOK, Doubled, Accepted, DefaultPayloadLength

LEMMA HeaderOK == ASSUME FramerOK, NEW c \in Conn, NEW n \in Nat, Header(c, n) PROVE FramerOK'
BY DEF Header, FramerOK, Doubled, Accepted

LEMMA ResizeOK ==
  ASSUME FramerOK, None \notin Nat, NEW c \in Conn, Resize(c) PROVE FramerOK'
<1>1. counter[c] <= 12 /\ counter'[c] = counter[c] + 1 /\ buffer'[c] = buffer[c] * 2
  BY DEF FramerOK, Resize, Grows
<1>2. \A d \in Conn \ {c} : counter'[d] = counter[d] /\ buffer'[d] = buffer[d]
  BY DEF FramerOK, Resize
<1>3. reading' = reading /\ buffer' \in [Conn -> Nat] /\ counter' \in [Conn -> Nat]
  BY DEF FramerOK, Resize
<1>4. Doubled'
  <2> SUFFICES ASSUME NEW d \in Conn PROVE Doubled!(d)'
    BY DEF Doubled
  <2>1. CASE d = c
    BY <2>1, <1>1 DEF FramerOK, Doubled
  <2>2. CASE d # c
    BY <2>2, <1>2 DEF FramerOK, Doubled
  <2> QED BY <2>1, <2>2
<1> QED
  BY <1>3, <1>4 DEF FramerOK, Accepted

LEMMA BodyOK == ASSUME FramerOK, NEW c \in Conn, Body(c) PROVE FramerOK'
BY DEF Body, FramerOK, Doubled, Accepted

LEMMA SameFramer == FramerOK /\ UNCHANGED framer => FramerOK'
BY DEF framer, FramerOK, Doubled, Accepted

\* Twelve doublings would do, and thirteen are allowed.
LEMMA EnoughResizes == FramerOK => FrameFits
BY DEF FramerOK, Doubled, Accepted, FrameFits, Grows, TooLarge, MaxPayloadLength
-----------------------------------------------------------------------------
(* Types *)

ReadingTypes == reading \in [Caller -> Length \cup {None}]

ClientTypes ==
  /\ pc \in [Caller -> {"idle", "sent", "ok", "error"}]
  /\ number \in [Caller -> 0..MaxCalls[network]]
  /\ reply \in [Caller -> Response \cup {None}]
  /\ disturbed \subseteq Caller

ServerTypes ==
  /\ network \in {"tcp", "udp"}
  /\ requests \subseteq [call : Call, length : Length]
  /\ done \in BOOLEAN
  /\ loop \in {"read", "closed"}
  /\ received \in Call \cup {None}
  /\ srv \in [Caller -> {"none", "read", "frame", "handle", "write", "closed"}]
  /\ from \in [Caller -> Call \cup {None}]
  /\ response \in [Caller -> Response \cup {None}]

Types == FramerOK /\ ReadingTypes /\ ClientTypes /\ ServerTypes

LEMMA TypesImply == Types => TypeOK
<1> SUFFICES ASSUME Types PROVE TypeOK
  OBVIOUS
<1>1. \A c \in Caller : counter[c] \in 0..13
  BY ExchangeAssumption DEF Types, FramerOK, Doubled
<1>2. buffer \in [Caller -> Nat] /\ counter \in [Caller -> 0..13]
  BY <1>1, ExchangeAssumption DEF Types, FramerOK
<1> QED
  BY <1>2 DEF Types, ReadingTypes, ClientTypes, ServerTypes, TypeOK

LEMMA InitTypes == Init => Types
<1> SUFFICES ASSUME Init PROVE Types
  OBVIOUS
<1>1. FramerOK
  BY InitFramer DEF Init
<1>2. ReadingTypes
  BY ExchangeAssumption DEF Init, FramerInit, ReadingTypes
<1>3. MaxCalls[network] \in Nat
  BY ExchangeAssumption DEF Init
<1>4. ClientTypes
  BY <1>3 DEF Init, ClientTypes
<1>5. ServerTypes
  BY DEF Init, ServerTypes
<1> QED BY <1>1, <1>2, <1>4, <1>5 DEF Types

\* An action leaves the framers alone or takes one step of Framer.
LEMMA FramerStep == ASSUME Types, Next PROVE FramerOK' /\ ReadingTypes'
<1> USE ExchangeAssumption
<1>0. FramerOK /\ ReadingTypes
  BY DEF Types
<1>1. CASE UNCHANGED framer
  BY <1>0, <1>1, SameFramer DEF framer, ReadingTypes
<1>2. ASSUME NEW c \in Caller, NewFramer(c) PROVE FramerOK' /\ ReadingTypes'
  BY <1>0, <1>2, NewFramerOK DEF NewFramer, ReadingTypes
<1>3. ASSUME NEW c \in Caller, NEW n \in Length, Header(c, n) PROVE FramerOK' /\ ReadingTypes'
  <2>1. n \in Nat
    OBVIOUS
  <2> QED BY <1>0, <1>3, <2>1, HeaderOK DEF Header, ReadingTypes
<1>4. ASSUME NEW c \in Caller, Resize(c) PROVE FramerOK' /\ ReadingTypes'
  BY <1>0, <1>4, ResizeOK DEF Resize, ReadingTypes
<1>5. ASSUME NEW c \in Caller, Body(c) PROVE FramerOK' /\ ReadingTypes'
  BY <1>0, <1>5, BodyOK DEF Body, ReadingTypes
<1>6. ASSUME NEW g \in Caller, ReadHeader(g) PROVE FramerOK' /\ ReadingTypes'
  <2>1. PICK m \in requests :
          \/ UNCHANGED framer
          \/ Header(g, m.length)
    BY <1>6 DEF ReadHeader
  <2>2. m.length \in Length
    BY <2>1 DEF Types, ServerTypes
  <2> QED BY <2>1, <2>2, <1>1, <1>3
<1>7. ASSUME NEW u \in Caller, Send(u) PROVE UNCHANGED framer \/ NewFramer(u)
  BY <1>7 DEF Send
<1>8. ASSUME NEW g \in Caller, Work(g) PROVE FramerOK' /\ ReadingTypes'
  <2>1. CASE ReadHeader(g)
    BY <2>1, <1>6
  <2>2. CASE Grow(g)
    BY <2>2, <1>4 DEF Grow
  <2>3. CASE ReadBody(g)
    BY <2>3, <1>5 DEF ReadBody
  <2>4. CASE Handle(g) \/ Write(g)
    BY <2>4, <1>1 DEF Handle, Write
  <2> QED BY <1>8, <2>1, <2>2, <2>3, <2>4 DEF Work
<1>9. ASSUME NEW u \in Caller, Receive(u) \/ Fail(u) PROVE UNCHANGED framer
  BY <1>9 DEF Receive, Fail
<1>10. ASSUME Loop \/ Cancel PROVE UNCHANGED framer
  BY <1>10 DEF Loop, ReadFrom, ReadFails, Cancel
<1> QED
  BY <1>1, <1>2, <1>7, <1>8, <1>9, <1>10 DEF Next

\* What the responses of handle look like.
LEMMA ResponseToType ==
  ASSUME NEW k \in Call \cup {Foreign}, NEW end \in End
  PROVE  ResponseTo(k, end) \in Response
<1>1. RetCode(end) \in {"OK", "error"}
  BY DEF RetCode
<1>2. Payload(end) \in {"none", "returned", "failed"}
  BY DEF Payload, End, HasResult
<1> QED
  BY <1>1, <1>2 DEF ResponseTo, Response

LEMMA ResultType ==
  ASSUME NEW r \in Response PROVE Result(r) \in {"ok", "error"}
BY DEF Result

LEMMA SendTypes ==
  ASSUME ClientTypes, ServerTypes, NEW u \in Caller, Send(u) PROVE ClientTypes' /\ ServerTypes'
<1> USE ExchangeAssumption DEF Send
<1>1. MaxCalls[network] \in Nat /\ number[u] \in Nat
  BY DEF ServerTypes, ClientTypes
<1>2. number'[u] = number[u] + 1 /\ number'[u] \in 1..MaxCalls[network]
  BY <1>1 DEF ClientTypes
<1>3. ClientTypes'
  <2>1. number' \in [Caller -> 0..MaxCalls[network]] /\ network' = network
    BY <1>1, <1>2 DEF ClientTypes
  <2>2. pc' \in [Caller -> {"idle", "sent", "ok", "error"}]
    BY DEF ClientTypes
  <2>3. UNCHANGED <<reply, disturbed>> /\ Response' = Response
    BY DEF udp, Response, Call
  <2> QED BY <2>1, <2>2, <2>3 DEF ClientTypes
<1>4. requests' \subseteq [call : Call', length : Length]
  <2>1. Call' = Call /\ <<u, number'[u]>> \in Call
    BY <1>2 DEF Call
  <2>2. PICK n \in Length :
          requests' \subseteq requests \cup {[call |-> <<u, number'[u]>>, length |-> n]}
    OBVIOUS
  <2> QED BY <2>1, <2>2 DEF ServerTypes
<1>5. Call' = Call /\ Response' = Response
  BY DEF Call, Response
<1>6. srv' \in [Caller -> {"none", "read", "frame", "handle", "write", "closed"}]
  BY DEF ServerTypes, Goto
<1> QED
  BY <1>3, <1>4, <1>5, <1>6 DEF ServerTypes, udp

\* The sets of calls and responses depend on the network, which never changes.
LEMMA SameSets == network' = network => Call' = Call /\ Response' = Response
BY DEF Call, Response

LEMMA ReceiveTypes ==
  ASSUME ClientTypes, ServerTypes, NEW u \in Caller, Receive(u) \/ Fail(u)
  PROVE  ClientTypes' /\ ServerTypes'
<1>1. Call' = Call /\ Response' = Response
  BY SameSets DEF Receive, Fail
<1>2. CASE Receive(u)
  <2>1. reply[u] \in Response
    BY <1>2 DEF Receive, ClientTypes
  <2>2. Result(reply[u]) \in {"ok", "error"}
    BY <2>1, ResultType
  <2> QED BY <1>1, <1>2, <2>2 DEF Receive, ClientTypes, ServerTypes, goroutine
<1>3. CASE Fail(u)
  BY <1>1, <1>3 DEF Fail, ClientTypes, ServerTypes, goroutine, wire
<1> QED BY <1>2, <1>3

LEMMA ReadTypes ==
  ASSUME ClientTypes, ServerTypes, NEW g \in Caller,
         ReadHeader(g) \/ Grow(g) \/ ReadBody(g) \/ ReadFrom(g)
  PROVE  ClientTypes' /\ ServerTypes'
<1>1. Call' = Call /\ Response' = Response
  BY SameSets DEF ReadHeader, Grow, ReadBody, ReadFrom
<1>2. CASE ReadHeader(g)
  <2>1. PICK m \in requests : ReadHeader(g)!2!(m)
    BY <1>2 DEF ReadHeader
  <2>2. m.call \in Call
    BY DEF ServerTypes
  <2> QED
    BY <1>1, <1>2, <2>1, <2>2 DEF ReadHeader, ClientTypes, ServerTypes, Goto, client, udp
<1>3. CASE Grow(g) \/ ReadBody(g)
  BY <1>1, <1>3 DEF Grow, ReadBody, ClientTypes, ServerTypes, Goto, client, udp, wire, goroutine
<1>4. CASE ReadFrom(g)
  <2>1. PICK m \in requests :
          received' = m.call /\ from' = [from EXCEPT ![g] = m.call]
    BY <1>4 DEF ReadFrom
  <2>2. m.call \in Call
    BY DEF ServerTypes
  <2>3. requests' \subseteq requests /\ disturbed' \subseteq disturbed \cup Caller
    BY <1>4 DEF ReadFrom
  <2> QED
    BY <1>1, <1>4, <2>1, <2>2, <2>3
    DEF ReadFrom, ClientTypes, ServerTypes, Goto, Reading, client
<1> QED BY <1>2, <1>3, <1>4

LEMMA FinishTypes ==
  ASSUME ServerTypes, NEW g \in Caller, Finish(g)
  PROVE  /\ srv' \in [Caller -> {"none", "read", "frame", "handle", "write", "closed"}]
         /\ from' \in [Caller -> Call \cup {None}]
BY DEF ServerTypes, Finish, Goto, Reading

LEMMA HandleTypes ==
  ASSUME ClientTypes, ServerTypes, NEW g \in Caller, from[g] # None, Handle(g)
  PROVE  ClientTypes' /\ ServerTypes'
<1>1. Call' = Call /\ Response' = Response
  BY SameSets DEF Handle
<1>2. response' \in [Caller -> Response \cup {None}]
  <2>1. CASE UNCHANGED response
    BY <2>1 DEF ServerTypes
  <2>2. ASSUME NEW k \in Contents(g), NEW end \in End,
               response' = [response EXCEPT ![g] = ResponseTo(k, end)]
        PROVE  response' \in [Caller -> Response \cup {None}]
    <3>1. k \in Call \cup {Foreign}
      BY DEF Contents, ServerTypes
    <3> QED BY <2>2, <3>1, ResponseToType DEF ServerTypes
  <2> QED BY <2>1, <2>2 DEF Handle
<1>3. /\ srv' \in [Caller -> {"none", "read", "frame", "handle", "write", "closed"}]
      /\ from' \in [Caller -> Call \cup {None}]
  BY FinishTypes DEF Handle, ServerTypes, Goto
<1> QED
  BY <1>1, <1>2, <1>3 DEF Handle, ClientTypes, ServerTypes, client, wire, udp

LEMMA WriteTypes ==
  ASSUME ClientTypes, ServerTypes, NEW g \in Caller, Write(g) PROVE ClientTypes' /\ ServerTypes'
<1>1. Call' = Call /\ Response' = Response
  BY SameSets DEF Write
<1>2. reply' \in [Caller -> Response \cup {None}]
  BY DEF Write, ClientTypes, ServerTypes
<1>3. response' \in [Caller -> Response \cup {None}]
  BY DEF Write, ServerTypes
<1>4. /\ srv' \in [Caller -> {"none", "read", "frame", "handle", "write", "closed"}]
      /\ from' \in [Caller -> Call \cup {None}]
  BY FinishTypes DEF Write
<1> QED
  BY <1>1, <1>2, <1>3, <1>4 DEF Write, ClientTypes, ServerTypes, client, udp
-----------------------------------------------------------------------------
(* Answers *)

\* Whatever is under way belongs to a call that was made, a goroutine that works
\* knows for which, and nothing is there for a caller that does not wait.
Known ==
  /\ \A m \in requests : m.call[2] <= number[m.call[1]]
  /\ \A g \in Caller : from[g] # None => from[g][2] <= number[from[g][1]]
  /\ \A g \in Caller : srv[g] \in {"frame", "handle", "write"} => from[g] # None
  /\ \A u \in Caller : reply[u] # None => pc[u] = "sent"
  /\ network = "udp" => \A g \in Caller : srv[g] \notin {"read", "frame"}

\* The goroutine works for the call its caller waits in, and the buffer was not
\* overwritten too early.
Serves(g, u) == pc[u] = "sent" /\ from[g] = Current(u) /\ u \notin disturbed

\* Such a goroutine finds its request where it was told, and its response is about
\* that request.
Undisturbed ==
  \A g, u \in Caller : Serves(g, u) =>
    /\ network = "udp" /\ srv[g] = "handle" => received = from[g]
    /\ srv[g] = "write" => response[g].about = from[g]

Inv == Types /\ Known /\ Undisturbed /\ OwnAnswer

LEMMA InitInv == Init => Inv
<1> SUFFICES ASSUME Init PROVE Inv
  OBVIOUS
<1>1. Types
  BY InitTypes
<1> QED
  BY <1>1 DEF Init, Inv, Known, Undisturbed, Serves, OwnAnswer

LEMMA StutterInv == Inv /\ UNCHANGED vars => Inv'
BY DEF Inv, vars, framer, client, wire, udp, goroutine, Types, FramerOK, Doubled, Accepted,
       ReadingTypes, ClientTypes, ServerTypes, Call, Response, Known, Undisturbed, Serves,
       Current, OwnAnswer

LEMMA ServerOnlyTypes ==
  ASSUME ClientTypes, ServerTypes, ReadFails \/ Cancel PROVE ClientTypes' /\ ServerTypes'
<1>1. /\ Call' = Call /\ Response' = Response
      /\ UNCHANGED <<network, pc, number, requests, reply, received, srv, from, response, disturbed>>
  BY SameSets DEF ReadFails, Cancel, client, wire, udp, goroutine
<1>2. done' \in BOOLEAN /\ loop' \in {"read", "closed"}
  BY DEF ReadFails, Cancel, udp, ServerTypes
<1> QED
  BY <1>1, <1>2 DEF ClientTypes, ServerTypes

LEMMA TypesStep == ASSUME Inv, Next PROVE Types'
<1>1. FramerOK' /\ ReadingTypes'
  BY FramerStep DEF Inv
<1>2. ClientTypes /\ ServerTypes
  BY DEF Inv, Types
<1>3. ASSUME NEW u \in Caller, Send(u) \/ Receive(u) \/ Fail(u)
      PROVE  ClientTypes' /\ ServerTypes'
  BY <1>2, <1>3, SendTypes, ReceiveTypes
<1>4. ASSUME NEW g \in Caller, Work(g) PROVE ClientTypes' /\ ServerTypes'
  <2>1. CASE Handle(g)
    BY <2>1, <1>2, HandleTypes DEF Handle, Inv, Known
  <2> QED BY <1>4, <2>1, <1>2, ReadTypes, WriteTypes DEF Work
<1>5. ASSUME NEW g \in Caller, ReadFrom(g) PROVE ClientTypes' /\ ServerTypes'
  BY <1>2, <1>5, ReadTypes
<1>6. ASSUME ReadFails \/ Cancel PROVE ClientTypes' /\ ServerTypes'
  BY <1>2, <1>6, ServerOnlyTypes
<1> QED
  BY <1>1, <1>3, <1>4, <1>5, <1>6 DEF Next, Loop, Types
-----------------------------------------------------------------------------
(* The rest of Inv, one lemma for each action or group of similar ones *)

Parts == Known /\ Undisturbed /\ OwnAnswer

\* Nobody waits for an answer to a call that has not started.
LEMMA SendParts == ASSUME Inv, NEW u \in Caller, Send(u) PROVE Parts'
<1> USE ExchangeAssumption DEF Send
<1>1. ClientTypes /\ ServerTypes /\ Known
  BY DEF Inv, Types
<1>2. /\ number[u] \in Nat /\ number'[u] = number[u] + 1
      /\ \A v \in Caller \ {u} : number'[v] = number[v] /\ pc'[v] = pc[v]
  BY <1>1 DEF ClientTypes, ServerTypes
<1>3. UNCHANGED <<network, reply, done, received, disturbed, from, response>>
  BY DEF udp
<1>4. reply[u] = None
  BY <1>1 DEF Known
<1>5. \A k \in Call : k[1] \in Caller /\ k[2] \in Nat /\ k = <<k[1], k[2]>>
  BY <1>1 DEF Call, ServerTypes
<1>6. \A g \in Caller : from[g] # <<u, number'[u]>>
  <2> SUFFICES ASSUME NEW g \in Caller, from[g] = <<u, number'[u]>> PROVE FALSE
    OBVIOUS
  <2>1. from[g] # None
    <3>1. <<u, number'[u]>> \in Caller \X Nat
      BY <1>2
    <3> QED BY <3>1
  <2>2. from[g][1] = u /\ from[g][2] = number'[u]
    OBVIOUS
  <2>3. from[g][2] <= number[from[g][1]]
    BY <1>1, <2>1 DEF Known
  <2>4. number'[u] <= number[u]
    BY <2>2, <2>3
  <2> QED BY <1>2, <2>4
<1>7. \A k \in Call : k[2] <= number[k[1]] => k[2] <= number'[k[1]]
  <2> SUFFICES ASSUME NEW k \in Call, k[2] <= number[k[1]] PROVE k[2] <= number'[k[1]]
    OBVIOUS
  <2>1. CASE k[1] = u
    BY <1>2, <1>5, <2>1
  <2>2. CASE k[1] # u
    BY <1>2, <1>5, <2>2
  <2> QED BY <2>1, <2>2
<1>8. Known'
  <2>1. \A m \in requests' : m.call[2] <= number'[m.call[1]]
    <3>1. PICK n \in Length :
            requests' \subseteq requests \cup {[call |-> <<u, number'[u]>>, length |-> n]}
      OBVIOUS
    <3>2. \A m \in requests : m.call \in Call /\ m.call[2] <= number[m.call[1]]
      BY <1>1 DEF Known, ServerTypes
    <3> QED BY <1>2, <1>7, <3>1, <3>2
  <2>2. \A g \in Caller : from'[g] # None => from'[g][2] <= number'[from'[g][1]]
    BY <1>1, <1>3, <1>7 DEF Known, ServerTypes
  <2>3. \A g \in Caller : srv'[g] \in {"frame", "handle", "write"} => from'[g] # None
    BY <1>1, <1>3 DEF Known, Goto, ServerTypes
  <2>4. \A v \in Caller : reply'[v] # None => pc'[v] = "sent"
    BY <1>1, <1>2, <1>3, <1>4 DEF Known
  <2>5. network' = "udp" => \A g \in Caller : srv'[g] \notin {"read", "frame"}
    BY <1>1 DEF Known, Goto
  <2> QED BY <2>1, <2>2, <2>3, <2>4, <2>5 DEF Known
<1>9. Undisturbed'
  <2> SUFFICES ASSUME NEW g \in Caller, NEW v \in Caller, Serves(g, v)'
               PROVE  /\ network' = "udp" /\ srv'[g] = "handle" => received' = from'[g]
                      /\ srv'[g] = "write" => response'[g].about = from'[g]
    BY DEF Undisturbed
  <2>1. v # u
    BY <1>3, <1>6 DEF Serves, Current
  <2>2. Serves(g, v)
    BY <1>2, <1>3, <2>1 DEF Serves, Current
  <2>3. srv'[g] \in {"handle", "write"} => srv'[g] = srv[g]
    BY <1>1 DEF Goto, ServerTypes
  <2> QED BY <1>3, <2>2, <2>3 DEF Inv, Undisturbed
<1>10. OwnAnswer'
  BY <1>2, <1>3, <1>4 DEF Inv, OwnAnswer, Current
<1> QED BY <1>8, <1>9, <1>10 DEF Parts

LEMMA ReceiveParts ==
  ASSUME Inv, NEW u \in Caller, Receive(u) \/ Fail(u) PROVE Parts'
<1>1. ClientTypes /\ ServerTypes
  BY DEF Inv, Types
<1>2. /\ pc'[u] # "sent" /\ reply'[u] = None /\ disturbed' = disturbed \ {u}
      /\ UNCHANGED <<network, number, requests, received, srv, from, response>>
  <2>1. CASE Receive(u)
    <3>1. reply[u] \in Response
      BY <1>1, <2>1 DEF Receive, ClientTypes
    <3> QED BY <1>1, <2>1, <3>1, ResultType DEF Receive, ClientTypes, goroutine
  <2>2. CASE Fail(u)
    BY <1>1, <2>2 DEF Fail, ClientTypes, goroutine, wire
  <2> QED BY <2>1, <2>2
<1>3. \A v \in Caller \ {u} : pc'[v] = pc[v] /\ reply'[v] = reply[v]
  BY <1>1 DEF Receive, Fail, ClientTypes, wire
<1>4. Known'
  BY <1>2, <1>3 DEF Inv, Known
<1>5. Undisturbed'
  <2>1. \A g, v \in Caller : Serves(g, v)' => Serves(g, v)
    BY <1>2, <1>3 DEF Serves, Current
  <2> QED BY <1>2, <2>1 DEF Inv, Undisturbed
<1>6. OwnAnswer'
  BY <1>2, <1>3 DEF Inv, OwnAnswer, Current
<1> QED BY <1>4, <1>5, <1>6 DEF Parts

\* Reading over TCP: the goroutine has yet to handle what it reads.
LEMMA ReadParts ==
  ASSUME Inv, NEW g \in Caller, ReadHeader(g) \/ Grow(g) \/ ReadBody(g) PROVE Parts'
<1>1. ClientTypes /\ ServerTypes /\ Known
  BY DEF Inv, Types
<1>2. UNCHANGED <<network, pc, number, reply, received, disturbed, response>>
  BY DEF ReadHeader, Grow, ReadBody, client, udp, wire, goroutine
<1>3. \A h \in Caller \ {g} : from'[h] = from[h] /\ srv'[h] = srv[h]
  BY <1>1 DEF ReadHeader, Grow, ReadBody, goroutine, Goto, ServerTypes
<1>4. requests' \subseteq requests
  BY DEF ReadHeader, Grow, ReadBody, wire
<1>5. /\ from'[g] # None /\ from'[g][2] <= number[from'[g][1]]
      /\ srv'[g] \in {"closed", "frame", "handle"} /\ network # "udp"
  <2>1. CASE ReadHeader(g)
    <3>1. PICK m \in requests : from' = [from EXCEPT ![g] = m.call]
      BY <2>1 DEF ReadHeader
    <3>2. m.call \in Call /\ m.call[2] <= number[m.call[1]]
      BY <1>1 DEF Known, ServerTypes
    <3>3. m.call # None
      BY <1>1, <3>2, ExchangeAssumption DEF Call, ServerTypes
    <3>4. srv[g] = "read" /\ srv'[g] \in {"closed", "frame"}
      BY <1>1, <2>1 DEF ReadHeader, Goto, ServerTypes
    <3>5. from'[g] = m.call
      BY <1>1, <3>1 DEF ServerTypes
    <3> QED BY <1>1, <3>2, <3>3, <3>4, <3>5 DEF Known
  <2>2. CASE Grow(g) \/ ReadBody(g)
    <3>1. srv[g] = "frame" /\ from' = from /\ srv'[g] \in {"frame", "handle"}
      BY <1>1, <2>2 DEF Grow, ReadBody, goroutine, Goto, ServerTypes
    <3> QED BY <1>1, <3>1 DEF Known
  <2> QED BY <2>1, <2>2
<1>6. Known'
  <2>1. \A m \in requests' : m.call[2] <= number'[m.call[1]]
    BY <1>1, <1>2, <1>4 DEF Known
  <2>2. \A h \in Caller : from'[h] # None => from'[h][2] <= number'[from'[h][1]]
    BY <1>1, <1>2, <1>3, <1>5 DEF Known
  <2> QED BY <1>1, <1>2, <1>3, <1>5, <2>1, <2>2 DEF Known
<1>7. Undisturbed'
  <2> SUFFICES ASSUME NEW h \in Caller, NEW v \in Caller, Serves(h, v)'
               PROVE  /\ network' = "udp" /\ srv'[h] = "handle" => received' = from'[h]
                      /\ srv'[h] = "write" => response'[h].about = from'[h]
    BY DEF Undisturbed
  <2>1. CASE h = g
    BY <1>2, <1>5, <2>1
  <2>2. CASE h # g
    BY <1>2, <1>3, <2>2 DEF Serves, Current, Inv, Undisturbed
  <2> QED BY <2>1, <2>2
<1>8. OwnAnswer'
  BY <1>2 DEF Inv, OwnAnswer, Current
<1> QED BY <1>6, <1>7, <1>8 DEF Parts

\* The next datagram disturbs the calls whose goroutine has yet to look at the buffer.
LEMMA ReadFromParts == ASSUME Inv, NEW g \in Caller, ReadFrom(g) PROVE Parts'
<1>1. ClientTypes /\ ServerTypes /\ Known
  BY DEF Inv, Types
<1>2. UNCHANGED <<network, pc, number, reply, response>>
  BY DEF ReadFrom, client
<1>3. PICK m \in requests : received' = m.call /\ from' = [from EXCEPT ![g] = m.call]
  BY DEF ReadFrom
<1>4. /\ m.call[2] <= number[m.call[1]] /\ m.call # None
      /\ from'[g] = m.call /\ srv'[g] = "handle"
  <2>1. m.call \in Call /\ m.call[2] <= number[m.call[1]]
    BY <1>1 DEF Known, ServerTypes
  <2>2. m.call # None
    BY <1>1, <2>1, ExchangeAssumption DEF Call, ServerTypes
  <2> QED BY <1>1, <1>3, <2>1, <2>2 DEF ReadFrom, Goto, ServerTypes
<1>5. \A h \in Caller \ {g} : from'[h] = from[h] /\ srv'[h] = srv[h]
  BY <1>1, <1>3 DEF ReadFrom, Goto, ServerTypes
<1>6. requests' \subseteq requests
  BY DEF ReadFrom
<1>7. disturbed' = disturbed \cup {u \in Caller :
        pc[u] = "sent" /\ \E h \in Caller : srv[h] = "handle" /\ from[h] = Current(u)}
  BY DEF ReadFrom
<1>8. Known'
  <2>1. \A n \in requests' : n.call[2] <= number'[n.call[1]]
    BY <1>1, <1>2, <1>6 DEF Known
  <2>2. \A h \in Caller : from'[h] # None => from'[h][2] <= number'[from'[h][1]]
    BY <1>1, <1>2, <1>4, <1>5 DEF Known
  <2> QED BY <1>1, <1>2, <1>4, <1>5, <2>1, <2>2 DEF Known
<1>9. Undisturbed'
  <2> SUFFICES ASSUME NEW h \in Caller, NEW v \in Caller, Serves(h, v)'
               PROVE  /\ network' = "udp" /\ srv'[h] = "handle" => received' = from'[h]
                      /\ srv'[h] = "write" => response'[h].about = from'[h]
    BY DEF Undisturbed
  <2>1. CASE h = g
    BY <1>3, <1>4, <2>1
  <2>2. CASE h # g
    <3>1. Serves(h, v) /\ from'[h] = from[h] /\ srv'[h] = srv[h] /\ srv[h] # "handle"
      BY <1>2, <1>5, <1>7, <2>2 DEF Serves, Current
    <3> QED BY <1>2, <3>1 DEF Inv, Undisturbed
  <2> QED BY <2>1, <2>2
<1>10. OwnAnswer'
  BY <1>2, <1>7 DEF Inv, OwnAnswer, Current
<1> QED BY <1>8, <1>9, <1>10 DEF Parts

LEMMA ServerOnlyParts == ASSUME Inv, ReadFails \/ Cancel PROVE Parts'
<1>1. /\ UNCHANGED <<network, pc, number, requests, reply, received, srv, from, response, disturbed>>
  BY DEF ReadFails, Cancel, client, wire, udp, goroutine
<1> QED
  BY <1>1 DEF Inv, Parts, Known, Undisturbed, Serves, OwnAnswer, Current

\* After Finish the goroutine handles and writes nothing.
LEMMA FinishParts ==
  ASSUME ServerTypes, Known, NEW g \in Caller, Finish(g), network' = network,
         UNCHANGED <<requests, number>>,
         \A u \in Caller : reply'[u] # None => pc'[u] = "sent"
  PROVE  /\ Known'
         /\ srv'[g] \notin {"frame", "handle", "write"}
         /\ \A h \in Caller \ {g} : from'[h] = from[h] /\ srv'[h] = srv[h]
<1>1. from'[g] = None /\ srv'[g] = IF network = "tcp" THEN Reading ELSE "none"
  BY DEF Finish, Goto, ServerTypes
<1>2. \A h \in Caller \ {g} : from'[h] = from[h] /\ srv'[h] = srv[h]
  BY DEF Finish, Goto, ServerTypes
<1>3. srv'[g] \in {"none", "read", "closed"} /\ (network = "udp" => srv'[g] = "none")
  BY <1>1 DEF Reading
<1> QED
  BY <1>1, <1>2, <1>3 DEF Known

\* An undisturbed goroutine computes its response from the request it was given.
LEMMA HandleParts == ASSUME Inv, NEW g \in Caller, Handle(g) PROVE Parts'
<1>1. ClientTypes /\ ServerTypes /\ Known
  BY DEF Inv, Types
<1>2. /\ UNCHANGED <<network, pc, number, requests, reply, received, disturbed>>
      /\ srv[g] = "handle"
  BY DEF Handle, client, wire, udp
<1>3. CASE Finish(g) /\ UNCHANGED response
  <2>1. \A u \in Caller : reply'[u] # None => pc'[u] = "sent"
    BY <1>1, <1>2 DEF Known
  <2>2. /\ Known'
        /\ srv'[g] \notin {"frame", "handle", "write"}
        /\ \A h \in Caller \ {g} : from'[h] = from[h] /\ srv'[h] = srv[h]
    BY <1>1, <1>2, <1>3, <2>1, FinishParts
  <2>3. Undisturbed'
    BY <1>2, <1>3, <2>2 DEF Inv, Undisturbed, Serves, Current
  <2> QED
    BY <1>2, <1>3, <2>2, <2>3
    DEF Inv, Parts, OwnAnswer, Current
<1>4. ASSUME NEW k \in Contents(g), NEW end \in End,
             response' = [response EXCEPT ![g] = ResponseTo(k, end)],
             Goto(g, "write"), UNCHANGED from
      PROVE  Parts'
  <2>1. /\ response'[g] = ResponseTo(k, end) /\ srv'[g] = "write"
        /\ \A h \in Caller \ {g} : response'[h] = response[h] /\ srv'[h] = srv[h]
    BY <1>1, <1>4 DEF ServerTypes, Goto
  <2>2. Known'
    BY <1>1, <1>2, <1>4, <2>1 DEF Known
  <2>3. Undisturbed'
    <3> SUFFICES ASSUME NEW h \in Caller, NEW v \in Caller, Serves(h, v)'
                 PROVE  /\ network' = "udp" /\ srv'[h] = "handle" => received' = from'[h]
                        /\ srv'[h] = "write" => response'[h].about = from'[h]
      BY DEF Undisturbed
    <3>1. Serves(h, v)
      BY <1>2, <1>4 DEF Serves, Current
    <3>2. CASE h = g
      <4>1. network = "udp" => received = from[g]
        BY <1>2, <3>1, <3>2 DEF Inv, Undisturbed
      <4>2. k = from[g]
        BY <1>1, <4>1 DEF Contents, ServerTypes
      <4>3. response'[g].about = k
        BY <2>1 DEF ResponseTo
      <4> QED BY <1>4, <2>1, <3>2, <4>2, <4>3
    <3>3. CASE h # g
      BY <1>2, <1>4, <2>1, <3>1, <3>3 DEF Inv, Undisturbed
    <3> QED BY <3>2, <3>3
  <2> QED
    BY <1>2, <2>2, <2>3 DEF Inv, Parts, OwnAnswer, Current
<1> QED BY <1>3, <1>4 DEF Handle

\* The response goes to the caller that waits in the call it was computed for.
LEMMA WriteParts == ASSUME Inv, NEW g \in Caller, Write(g) PROVE Parts'
<1>1. ClientTypes /\ ServerTypes /\ Known
  BY DEF Inv, Types
<1>2. /\ UNCHANGED <<network, pc, number, requests, received, disturbed>>
      /\ srv[g] = "write" /\ Finish(g)
  BY DEF Write, client, udp
<1>3. \A u \in Caller : reply'[u] = reply[u] \/
        (pc[u] = "sent" /\ Current(u) = from[g] /\ reply'[u] = response[g])
  BY <1>1 DEF Write, Sender, ClientTypes
<1>4. \A h \in Caller : response'[h] = IF h = g THEN None ELSE response[h]
  BY <1>1 DEF Write, ServerTypes
<1>5. \A u \in Caller : reply'[u] # None => pc'[u] = "sent"
  BY <1>1, <1>2, <1>3 DEF Known
<1>6. /\ Known'
      /\ srv'[g] \notin {"frame", "handle", "write"}
      /\ \A h \in Caller \ {g} : from'[h] = from[h] /\ srv'[h] = srv[h]
  BY <1>1, <1>2, <1>5, FinishParts
<1>7. Undisturbed'
  BY <1>2, <1>4, <1>6 DEF Inv, Undisturbed, Serves, Current
<1>8. OwnAnswer'
  <2> SUFFICES ASSUME NEW u \in Caller, reply'[u] # None, u \notin disturbed'
               PROVE  reply'[u].about = Current(u)'
    BY DEF OwnAnswer
  <2>1. Current(u)' = Current(u)
    BY <1>2 DEF Current
  <2>2. CASE reply'[u] = reply[u]
    BY <1>2, <2>1, <2>2 DEF Inv, OwnAnswer
  <2>3. CASE pc[u] = "sent" /\ Current(u) = from[g] /\ reply'[u] = response[g]
    BY <1>2, <2>1, <2>3 DEF Inv, Undisturbed, Serves
  <2> QED BY <1>3, <2>2, <2>3
<1> QED BY <1>6, <1>7, <1>8 DEF Parts

LEMMA NextInv == Inv /\ Next => Inv'
<1> SUFFICES ASSUME Inv, Next PROVE Inv'
  OBVIOUS
<1>1. Types'
  BY TypesStep
<1>2. ASSUME NEW u \in Caller, Send(u) \/ Receive(u) \/ Fail(u) PROVE Parts'
  BY <1>2, SendParts, ReceiveParts
<1>3. ASSUME NEW g \in Caller, Work(g) \/ ReadFrom(g) PROVE Parts'
  BY <1>3, ReadParts, HandleParts, WriteParts, ReadFromParts DEF Work
<1>4. ASSUME ReadFails \/ Cancel PROVE Parts'
  BY <1>4, ServerOnlyParts
<1>5. Parts'
  BY <1>2, <1>3, <1>4 DEF Next, Loop
<1> QED BY <1>1, <1>5 DEF Inv, Parts

LEMMA InvariantOfExchange == Spec => []Inv
<1>1. Inv /\ [Next]_vars => Inv'
  BY NextInv, StutterInv
<1> QED
  <2> HIDE DEF Inv, Init, Next, vars
  <2> QED BY <1>1, InitInv, PTL DEF Spec
-----------------------------------------------------------------------------
\* The variables keep their types; counter, above all, stays within its 13 resizes.
THEOREM ExchangeTypes == Spec => []TypeOK
<1>1. Inv => TypeOK
  BY TypesImply DEF Inv
<1> QED BY <1>1, InvariantOfExchange, PTL

\* ReadFrame never reads a body into a buffer that is too short for it, whatever
\* lengths come over a connection and in whatever order.
THEOREM FramesFit == Spec => []FrameFits
<1>1. Inv => FrameFits
  BY EnoughResizes DEF Inv, Types
<1> QED BY <1>1, InvariantOfExchange, PTL

\* A response that reaches a waiting call was computed from the request of that call,
\* over TCP always, over UDP unless the next datagram came before its goroutine had
\* looked at the buffer: for any number of callers, calls and repeated datagrams.
THEOREM AnswersAreOwn == Spec => []OwnAnswer
<1>1. Inv => OwnAnswer
  BY DEF Inv
<1> QED BY <1>1, InvariantOfExchange, PTL
=============================================================================
