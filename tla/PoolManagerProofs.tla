------------------------- MODULE PoolManagerProofs --------------------------
(***************************************************************************)
(* Proofs about PoolManager, for any number of callers, addresses, pools   *)
(* and connections: TypeOK, RightPeer and PublishedIsChecked.              *)
(***************************************************************************)
EXTENDS PoolManager, FiniteSetTheorems, TLAPS

\* The pool a caller works with serves the address it asked for, and has its
\* checker when the caller is about to publish it.
MineServes ==
  \A u \in Caller :
    /\ pc[u] \in {"fill", "store", "get", "use"} => serves[mine[u]] = want[u]
    /\ pc[u] = "store" => mine[u] \in checked

\* What a pool has buffered is open to its address, and what a caller has
\* borrowed is open to the address it asked for.
PeersOK ==
  /\ \A p \in PoolId : \A c \in idle[p] : serves[p] # None /\ peer[c] = serves[p]
  /\ RightPeer

\* A connection is in one pool or one hand.
OnePlace ==
  /\ \A p, q \in PoolId : p # q => idle[p] \cap idle[q] = {}
  /\ \A u \in Caller, p \in PoolId : hand[u] \notin idle[p]
  /\ \A u, v \in Caller : hand[u] = hand[v] /\ hand[u] # None => u = v

\* A pool is checked only after it was made.
CheckedMade == \A p \in checked : serves[p] # None

Inv == TypeOK /\ PublishedIsChecked /\ MineServes /\ PeersOK /\ OnePlace /\ CheckedMade

LEMMA InitInv == Init => Inv
BY PoolManagerAssumption DEF Init, Inv, TypeOK, PublishedIsChecked, MineServes, PeersOK,
     RightPeer, OnePlace, CheckedMade

\* Nothing in Inv speaks of a step that changes nothing.
LEMMA StutterInv == Inv /\ UNCHANGED vars => Inv'
BY DEF Inv, TypeOK, PublishedIsChecked, MineServes, PeersOK, RightPeer, OnePlace,
       CheckedMade, vars, pools, caller

LEMMA LoadInv == ASSUME Inv, NEW u \in Caller, Load(u) PROVE Inv'
<1> USE PoolManagerAssumption DEF Load, Key, Goto, pools
<1>1. PICK a \in Address :
        /\ want' = [want EXCEPT ![u] = a]
        /\ mine' = [mine EXCEPT ![u] = table[a]]
        /\ pc' = [pc EXCEPT ![u] = IF table[a] = None THEN "make" ELSE "get"]
  OBVIOUS
<1>2. TypeOK'
  BY <1>1 DEF Inv, TypeOK
<1>3. PublishedIsChecked' /\ CheckedMade' /\ OnePlace'
  BY DEF Inv, PublishedIsChecked, CheckedMade, OnePlace
<1>4. MineServes'
  BY <1>1 DEF Inv, TypeOK, MineServes, PublishedIsChecked
<1>5. PeersOK'
  BY <1>1 DEF Inv, TypeOK, PeersOK, RightPeer
<1> QED
  BY <1>2, <1>3, <1>4, <1>5 DEF Inv

LEMMA MakeInv == ASSUME Inv, NEW u \in Caller, Make(u) PROVE Inv'
<1> USE PoolManagerAssumption DEF Make, Goto
<1>1. PICK p \in PoolId :
        /\ serves[p] = None
        /\ serves' = [serves EXCEPT ![p] = want[u]]
        /\ mine' = [mine EXCEPT ![u] = p]
  OBVIOUS
<1>2. TypeOK'
  BY <1>1 DEF Inv, TypeOK
<1>3. PublishedIsChecked' /\ CheckedMade'
  BY <1>1 DEF Inv, TypeOK, PublishedIsChecked, CheckedMade
<1>4. MineServes'
  BY <1>1 DEF Inv, TypeOK, MineServes
<1>5. PeersOK' /\ OnePlace'
  BY <1>1 DEF Inv, TypeOK, PeersOK, RightPeer, OnePlace
<1> QED
  BY <1>2, <1>3, <1>4, <1>5 DEF Inv

LEMMA FillInv == ASSUME Inv, NEW u \in Caller, Fill(u) PROVE Inv'
<1> USE PoolManagerAssumption DEF Fill, Goto
<1>1. PublishedIsChecked' /\ CheckedMade'
  BY DEF Inv, PublishedIsChecked, CheckedMade
<1>2. ASSUME NEW c \in Free,
             peer' = [peer EXCEPT ![c] = want[u]],
             idle' = [idle EXCEPT ![mine[u]] = @ \cup {c}],
             made' = [made EXCEPT ![u] = @ + 1],
             UNCHANGED <<pc, want, mine>>
      PROVE  TypeOK' /\ MineServes' /\ PeersOK' /\ OnePlace'
  <2>1. TypeOK'
    BY <1>2 DEF Inv, TypeOK, Free
  <2>2. MineServes'
    BY <1>2 DEF Inv, MineServes
  <2>3. mine[u] \in PoolId /\ want[u] \in Address /\ serves[mine[u]] = want[u]
    BY DEF Inv, TypeOK, MineServes
  <2>4. \A p \in PoolId : c \notin idle[p]
    BY DEF Inv, TypeOK, PeersOK, Free
  <2>5. PeersOK'
    BY <1>2, <2>3, <2>4 DEF Inv, TypeOK, PeersOK, RightPeer, Free, Borrowed
  <2>6. OnePlace'
    BY <1>2, <2>3, <2>4 DEF Inv, TypeOK, OnePlace, Free, Borrowed
  <2> QED
    BY <2>1, <2>2, <2>5, <2>6
<1>3. ASSUME mine' = [mine EXCEPT ![u] = None], want' = [want EXCEPT ![u] = None],
             made' = [made EXCEPT ![u] = 0], Goto(u, "idle"), UNCHANGED <<peer, idle>>
      PROVE  TypeOK' /\ MineServes' /\ PeersOK' /\ OnePlace'
  <2>1. TypeOK' /\ MineServes'
    BY <1>3 DEF Inv, TypeOK, MineServes
  <2>2. PeersOK' /\ OnePlace'
    BY <1>3 DEF Inv, TypeOK, PeersOK, RightPeer, OnePlace
  <2> QED
    BY <2>1, <2>2
<1> QED
  BY <1>1, <1>2, <1>3 DEF Inv

LEMMA RegisterInv == ASSUME Inv, NEW u \in Caller, RegisterChecker(u) PROVE Inv'
<1> USE PoolManagerAssumption DEF RegisterChecker, Goto
<1>1. TypeOK'
  BY DEF Inv, TypeOK
<1>2. PublishedIsChecked' /\ CheckedMade' /\ MineServes'
  BY DEF Inv, TypeOK, PublishedIsChecked, CheckedMade, MineServes
<1>3. PeersOK' /\ OnePlace'
  BY DEF Inv, TypeOK, PeersOK, RightPeer, OnePlace
<1> QED
  BY <1>1, <1>2, <1>3 DEF Inv

LEMMA StoreInv == ASSUME Inv, NEW u \in Caller, Store(u) PROVE Inv'
<1> USE PoolManagerAssumption DEF Store, Goto, Key
<1>1. TypeOK'
  BY DEF Inv, TypeOK
<1>2. PublishedIsChecked' /\ CheckedMade' /\ MineServes'
  BY DEF Inv, TypeOK, PublishedIsChecked, CheckedMade, MineServes
<1>3. PeersOK' /\ OnePlace'
  BY DEF Inv, PeersOK, RightPeer, OnePlace
<1> QED
  BY <1>1, <1>2, <1>3 DEF Inv

LEMMA GetInv == ASSUME Inv, NEW u \in Caller, Get(u) PROVE Inv'
<1> USE PoolManagerAssumption DEF Get, Goto
<1>1. PublishedIsChecked' /\ CheckedMade'
  BY DEF Inv, PublishedIsChecked, CheckedMade
<1>2. mine[u] \in PoolId /\ want[u] \in Address /\ serves[mine[u]] = want[u] /\ hand[u] = None
  BY DEF Inv, TypeOK, MineServes
<1>3. ASSUME NEW c \in idle[mine[u]],
             idle' = [idle EXCEPT ![mine[u]] = @ \ {c}],
             hand' = [hand EXCEPT ![u] = c],
             Goto(u, "use"), UNCHANGED <<peer, want, mine>>
      PROVE  TypeOK' /\ MineServes' /\ PeersOK' /\ OnePlace'
  <2>1. TypeOK' /\ MineServes'
    BY <1>2, <1>3 DEF Inv, TypeOK, MineServes
  <2>2. PeersOK' /\ OnePlace'
    BY <1>2, <1>3 DEF Inv, TypeOK, PeersOK, RightPeer, OnePlace
  <2> QED
    BY <2>1, <2>2
<1>4. ASSUME NEW c \in Free,
             peer' = [peer EXCEPT ![c] = serves[mine[u]]],
             hand' = [hand EXCEPT ![u] = c],
             Goto(u, "use"), UNCHANGED <<idle, want, mine>>
      PROVE  TypeOK' /\ MineServes' /\ PeersOK' /\ OnePlace'
  <2>1. TypeOK' /\ MineServes'
    BY <1>2, <1>4 DEF Inv, TypeOK, MineServes, Free
  <2>2. \A p \in PoolId : c \notin idle[p]
    BY DEF Inv, TypeOK, PeersOK, Free
  <2>3. PeersOK' /\ OnePlace'
    BY <1>2, <1>4, <2>2 DEF Inv, TypeOK, PeersOK, RightPeer, OnePlace, Free, Borrowed
  <2> QED
    BY <2>1, <2>3
<1>5. ASSUME want' = [want EXCEPT ![u] = None], mine' = [mine EXCEPT ![u] = None],
             Goto(u, "idle"), UNCHANGED <<idle, peer, hand>>
      PROVE  TypeOK' /\ MineServes' /\ PeersOK' /\ OnePlace'
  <2>1. TypeOK' /\ MineServes'
    BY <1>2, <1>5 DEF Inv, TypeOK, MineServes
  <2>2. PeersOK' /\ OnePlace'
    BY <1>2, <1>5 DEF Inv, TypeOK, PeersOK, RightPeer, OnePlace
  <2> QED
    BY <2>1, <2>2
<1> QED
  BY <1>1, <1>3, <1>4, <1>5 DEF Inv

LEMMA ReturnInv == ASSUME Inv, NEW u \in Caller, Return(u) PROVE Inv'
<1> USE PoolManagerAssumption DEF Return, LetGo, Goto
<1>1. PublishedIsChecked' /\ CheckedMade'
  BY DEF Inv, PublishedIsChecked, CheckedMade
<1>2. /\ mine[u] \in PoolId /\ want[u] \in Address /\ serves[mine[u]] = want[u]
      /\ hand[u] \in Conn /\ peer[hand[u]] = want[u] /\ hand[u] # None
  BY DEF Inv, TypeOK, MineServes, PeersOK, RightPeer
<1>3. TypeOK' /\ MineServes'
  BY <1>2 DEF Inv, TypeOK, MineServes
<1>4. PeersOK'
  BY <1>2 DEF Inv, TypeOK, PeersOK, RightPeer, OnePlace
<1>5. OnePlace'
  BY <1>2 DEF Inv, TypeOK, OnePlace
<1> QED
  BY <1>1, <1>3, <1>4, <1>5 DEF Inv

\* Purge and Collect close a connection that is in a pool.
LEMMA CloseInv ==
  ASSUME Inv, NEW p \in PoolId, NEW c \in idle[p],
         idle' = [idle EXCEPT ![p] = @ \ {c}], peer' = [peer EXCEPT ![c] = None],
         UNCHANGED <<table, initial, serves, checked, caller>>
  PROVE  Inv'
<1> USE PoolManagerAssumption DEF caller
<1>1. TypeOK' /\ PublishedIsChecked' /\ CheckedMade' /\ MineServes'
  BY DEF Inv, TypeOK, PublishedIsChecked, CheckedMade, MineServes
<1>2. PeersOK' /\ OnePlace'
  BY DEF Inv, TypeOK, PeersOK, RightPeer, OnePlace
<1> QED
  BY <1>1, <1>2 DEF Inv

\* Inv is inductive, and holds in every reachable state.
THEOREM ManagerInvariant == Spec => []Inv
<1>1. Inv /\ [Next]_vars => Inv'
  <2> SUFFICES ASSUME Inv, [Next]_vars PROVE Inv'
    OBVIOUS
  <2>1. ASSUME NEW u \in Caller, Load(u) \/ CallerStep(u) PROVE Inv'
    BY <2>1, LoadInv, MakeInv, FillInv, RegisterInv, StoreInv, GetInv, ReturnInv DEF CallerStep
  <2>2. ASSUME NEW p \in PoolId, Purge(p) \/ Collect(p) PROVE Inv'
    BY <2>2, CloseInv DEF Purge, Collect
  <2> QED
    BY <2>1, <2>2, StutterInv DEF Next
<1> QED
  BY InitInv, <1>1, PTL DEF Spec

\* The variables of the manager keep their types.
THEOREM ManagerTypeCorrect == Spec => []TypeOK
BY ManagerInvariant, PTL DEF Inv

\* No caller is given a connection to another address than the one it asked for,
\* however many pools the race of Load and Store has made.
THEOREM PeersAreRight == Spec => []RightPeer
BY ManagerInvariant, PTL DEF Inv, PeersOK

\* A pool that can be found in the table is complete: it has its checker.
THEOREM TableIsChecked == Spec => []PublishedIsChecked
BY ManagerInvariant, PTL DEF Inv
-----------------------------------------------------------------------------
(* BoundedCheckers: the pools of an address that have a checker are charged   *)
(* to their callers.                                                          *)

CheckedOf(a) == {p \in checked : serves[p] = a}

\* A caller that is still building a pool for the address.
Builds(u, a) == pc[u] \in {"make", "fill"} /\ want[u] = a

\* A caller that a checked pool can be charged to: before a pool is in the table,
\* one that is about to store; afterwards, one that is not building another.
Chargeable(u, a) ==
  IF table[a] = None THEN pc[u] = "store" /\ want[u] = a ELSE ~Builds(u, a)

\* The checked pools of an address are charged to different callers.
Charged(a, f) ==
  /\ f \in [CheckedOf(a) -> Caller]
  /\ \A p, q \in CheckedOf(a) : f[p] = f[q] => p = q
  /\ \A p \in CheckedOf(a) : Chargeable(f[p], a)

Charge == \A a \in Address : \E f : Charged(a, f)

\* The charge stands if the pools and the callers it can fall on stay.
LEMMA ChargeStands ==
  ASSUME NEW a \in Address, \E f : Charged(a, f), CheckedOf(a)' = CheckedOf(a),
         \A u \in Caller : Chargeable(u, a) => Chargeable(u, a)'
  PROVE  \E f : Charged(a, f)'
<1>1. PICK f : Charged(a, f)
  OBVIOUS
<1> QED
  BY <1>1 DEF Charged

\* A new pool is charged to its builder, who was chargeable with none.
LEMMA ChargeBuilder ==
  ASSUME Inv, Charge, NEW u \in Caller, RegisterChecker(u), NEW a \in Address, want[u] = a
  PROVE  \E f : Charged(a, f)'
<1>1. PICK f : Charged(a, f)
  BY DEF Charge
<1>p. PICK p : p = mine[u]
  OBVIOUS
<1>g. PICK g : g = [q \in CheckedOf(a) \cup {p} |-> IF q = p THEN u ELSE f[q]]
  OBVIOUS
<1>2. CheckedOf(a)' = CheckedOf(a) \cup {p}
  BY <1>p DEF RegisterChecker, Inv, TypeOK, MineServes, CheckedOf
<1>3. \A v \in Caller \ {u} : Chargeable(v, a) => Chargeable(v, a)'
  BY DEF RegisterChecker, Goto, Chargeable, Builds, Inv, TypeOK
<1>4. ~Chargeable(u, a) /\ Chargeable(u, a)'
  BY DEF RegisterChecker, Goto, Chargeable, Builds, Inv, TypeOK
<1>5. \A q \in CheckedOf(a) : f[q] \in Caller \ {u}
  BY <1>1, <1>4 DEF Charged
<1>6. g \in [CheckedOf(a)' -> Caller]
  BY <1>2, <1>5, <1>g
<1>7. \A q \in CheckedOf(a)' : Chargeable(g[q], a)'
  BY <1>1, <1>2, <1>3, <1>4, <1>5, <1>g DEF Charged
<1>8. \A q, r \in CheckedOf(a)' : g[q] = g[r] => q = r
  BY <1>1, <1>2, <1>5, <1>g DEF Charged
<1>9. Charged(a, g)'
  BY <1>6, <1>7, <1>8 DEF Charged
<1> QED
  BY <1>9

LEMMA ChargeStep == Inv /\ Charge /\ [Next]_vars => Charge'
<1> SUFFICES ASSUME Inv, Charge, [Next]_vars, NEW a \in Address PROVE \E f : Charged(a, f)'
  BY DEF Charge
<1> \E f : Charged(a, f)
  BY DEF Charge
<1> USE PoolManagerAssumption
<1>1. ASSUME NEW u \in Caller, Load(u) PROVE \E f : Charged(a, f)'
  <2>1. CheckedOf(a)' = CheckedOf(a)
    BY <1>1 DEF Load, pools, CheckedOf
  <2>2. \A v \in Caller : Chargeable(v, a) => Chargeable(v, a)'
    BY <1>1 DEF Load, Key, Goto, pools, Chargeable, Builds, Inv, TypeOK
  <2> QED
    BY <2>1, <2>2, ChargeStands
<1>2. ASSUME NEW u \in Caller, Make(u) PROVE \E f : Charged(a, f)'
  <2>1. CheckedOf(a)' = CheckedOf(a)
    BY <1>2 DEF Make, CheckedOf, Inv, TypeOK, CheckedMade
  <2>2. \A v \in Caller : Chargeable(v, a) => Chargeable(v, a)'
    BY <1>2 DEF Make, Goto, Chargeable, Builds, Inv, TypeOK
  <2> QED
    BY <2>1, <2>2, ChargeStands
<1>3. ASSUME NEW u \in Caller, Fill(u) \/ Get(u) \/ Return(u) PROVE \E f : Charged(a, f)'
  <2>1. CheckedOf(a)' = CheckedOf(a)
    BY <1>3 DEF Fill, Get, Return, CheckedOf
  <2>2. \A v \in Caller : Chargeable(v, a) => Chargeable(v, a)'
    BY <1>3 DEF Fill, Get, Return, Goto, Chargeable, Builds, Inv, TypeOK
  <2> QED
    BY <2>1, <2>2, ChargeStands
<1>4. ASSUME NEW u \in Caller, RegisterChecker(u) PROVE \E f : Charged(a, f)'
  <2>1. CASE want[u] = a
    BY <1>4, <2>1, ChargeBuilder
  <2>2. CASE want[u] # a
    <3>1. CheckedOf(a)' = CheckedOf(a)
      BY <1>4, <2>2 DEF RegisterChecker, CheckedOf, Inv, TypeOK, MineServes
    <3>2. \A v \in Caller : Chargeable(v, a) => Chargeable(v, a)'
      BY <1>4, <2>2 DEF RegisterChecker, Goto, Chargeable, Builds, Inv, TypeOK
    <3> QED
      BY <3>1, <3>2, ChargeStands
  <2> QED
    BY <2>1, <2>2
<1>5. ASSUME NEW u \in Caller, Store(u) PROVE \E f : Charged(a, f)'
  <2>1. CheckedOf(a)' = CheckedOf(a)
    BY <1>5 DEF Store, CheckedOf
  <2>2. \A v \in Caller : Chargeable(v, a) => Chargeable(v, a)'
    BY <1>5 DEF Store, Key, Goto, Chargeable, Builds, Inv, TypeOK
  <2> QED
    BY <2>1, <2>2, ChargeStands
<1>6. ASSUME UNCHANGED <<table, serves, checked, caller>> PROVE \E f : Charged(a, f)'
  <2>1. CheckedOf(a)' = CheckedOf(a)
    BY <1>6 DEF CheckedOf
  <2>2. \A v \in Caller : Chargeable(v, a) => Chargeable(v, a)'
    BY <1>6 DEF caller, Chargeable, Builds
  <2> QED
    BY <2>1, <2>2, ChargeStands
<1> QED
  BY <1>1, <1>2, <1>3, <1>4, <1>5, <1>6 DEF Next, CallerStep, Purge, Collect, vars, pools

\* A charge is an injection into the callers.
LEMMA ChargeBounds == ASSUME IsFiniteSet(Caller), Charge PROVE BoundedCheckers
<1> SUFFICES ASSUME NEW a \in Address
             PROVE  Cardinality(CheckedOf(a)) <= Cardinality(Caller)
  BY DEF BoundedCheckers, CheckedOf
<1>1. PICK f : Charged(a, f)
  BY DEF Charge
<1>2. f \in Injection(CheckedOf(a), Caller)
  BY <1>1 DEF Charged, Injection, IsInjective
<1> QED
  BY <1>2, FS_Injection

\* However often the race of Load and Store is run, an address never has more
\* pools with a checker than there are callers.
THEOREM CheckersAreBounded == IsFiniteSet(Caller) => (Spec => []BoundedCheckers)
<1> SUFFICES ASSUME IsFiniteSet(Caller) PROVE Spec => []BoundedCheckers
  OBVIOUS
<1>1. Init => Charge
  <2> SUFFICES ASSUME Init, NEW a \in Address PROVE Charged(a, <<>>)
    BY DEF Charge
  <2>1. CheckedOf(a) = {}
    BY DEF Init, CheckedOf
  <2> QED
    BY <2>1 DEF Charged
<1>2. Charge => BoundedCheckers
  BY ChargeBounds
<1> QED
  BY <1>1, <1>2, ChargeStep, ManagerInvariant, PTL DEF Spec
=============================================================================
